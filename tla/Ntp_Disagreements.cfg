\* Where the code disagrees with its documents (README).  Each of these
\* properties is violated: leave one of the lines uncommented at a time.
SPECIFICATION Spec
CONSTANT MaxConnects = 3
INVARIANT FreshSync
\* INVARIANT SyncRefreshed
