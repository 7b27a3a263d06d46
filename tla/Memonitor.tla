------------------------------ MODULE Memonitor ------------------------------
(***************************************************************************)
(* The memory monitor (bricks/memonitor/src/memonitor.c): a periodic work  *)
(* item samples heaps and threads into two caches and announces them on    *)
(* MEMONITOR_CHAN; consumers copy the caches whenever they like.           *)
(*                                                                         *)
(* memonitor.h lets consumers call from any context, so they run between   *)
(* any two steps of the work item; a section under cache_lock is one step. *)
(* Of an entry the model keeps the cycle that sampled it.  Both monitors   *)
(* are enabled.  The consumers are external.                               *)
(***************************************************************************)
EXTENDS Naturals, Sequences, FiniteSetsExt

CONSTANTS
  Readers,
  CacheSize,   \* MEMONITOR_MAX_HEAPS, MEMONITOR_MAX_THREADS
  MaxCycles    \* bound on the sampling cycles

ASSUME MemonitorAssumption == CacheSize \in Nat \ {0} /\ MaxCycles \in Nat

Kinds == {"heaps", "threads"}

VARIABLES
  pending,   \* memonitor_work is scheduled or queued
  step,      \* what its running handler does next
  cycle,     \* number of the last cycle that began
  count,     \* heap_count_cached, thread_count_cached
  cache,     \* heap_cache, thread_cache
  message,   \* MEMONITOR_CHAN: the cycle it announces and the two counts
  holder,    \* the reader that holds the channel, if any
  told,      \* the cycle a reader has heard of
  copy,      \* what a reader copied last, and how much it had room for
  sampled    \* history: how many entries each cycle sampled

vars == <<pending, step, cycle, count, cache, message, holder, told, copy, sampled>>

Free == "free"

Init ==
  /\ pending = TRUE /\ step = "idle" /\ cycle = 0
  /\ count = [k \in Kinds |-> 0]
  /\ cache = [k \in Kinds |-> [i \in 1 .. CacheSize |-> 0]]
  /\ message = [cycle |-> 0, count |-> count]
  /\ holder = Free
  /\ told = [r \in Readers |-> 0]
  /\ copy = [r \in Readers |-> [k \in Kinds |-> [list |-> << >>, max |-> 0, news |-> 0]]]
  /\ sampled = [k \in Kinds |-> [c \in 0 .. MaxCycles |-> 0]]
----------------------------------------------------------------------------
(* The work item.                                                          *)

\* What one pass finds, as far as there is room for it.
Fitting(found) == Min({found, CacheSize})

\* memcpy of the first n entries; the rest of the cache stays.
Store(k, n) ==
  /\ count' = [count EXCEPT ![k] = n]
  /\ cache' = [cache EXCEPT ![k] = [i \in 1 .. CacheSize |-> IF i <= n THEN cycle' ELSE @[i]]]

SampleHeaps ==
  /\ pending /\ step = "idle" /\ cycle < MaxCycles
  /\ pending' = FALSE /\ step' = "threads" /\ cycle' = cycle + 1
  /\ \E found \in 0 .. CacheSize + 1 :
       /\ Store("heaps", Fitting(found))
       /\ sampled' = [sampled EXCEPT !["heaps"][cycle'] = Fitting(found)]
  /\ UNCHANGED <<message, holder, told, copy>>

SampleThreads ==
  /\ step = "threads"
  /\ step' = "publish" /\ UNCHANGED cycle
  /\ \E found \in 1 .. CacheSize + 1 :
       /\ Store("threads", Fitting(found))
       /\ sampled' = [sampled EXCEPT !["threads"][cycle] = Fitting(found)]
  /\ UNCHANGED <<pending, message, holder, told, copy>>

Publish_StopOnError ==
  /\ step = "publish"
  /\ step' = "idle" /\ pending' = (holder = Free)
  /\ message' = IF holder = Free THEN [cycle |-> cycle, count |-> count] ELSE message
  /\ UNCHANGED <<cycle, count, cache, holder, told, copy, sampled>>

\* With K_NO_WAIT: on a channel that a reader holds the message is lost.
Publish ==
  /\ step = "publish"
  /\ step' = "idle" /\ pending' = TRUE
  /\ message' = IF holder = Free THEN [cycle |-> cycle, count |-> count] ELSE message
  /\ UNCHANGED <<cycle, count, cache, holder, told, copy, sampled>>
----------------------------------------------------------------------------
(* The consumers.                                                          *)

\* zbus_chan_read
Claim(r) ==
  /\ holder = Free /\ holder' = r
  /\ UNCHANGED <<pending, step, cycle, count, cache, message, told, copy, sampled>>

Hear(r) ==
  /\ holder = r /\ holder' = Free
  /\ told' = [told EXCEPT ![r] = message.cycle]
  /\ UNCHANGED <<pending, step, cycle, count, cache, message, copy, sampled>>

Copied_All(k, max) == SubSeq(cache[k], 1, max)

\* As many entries as are valid and as there is room for.
Copied(k, max) == SubSeq(cache[k], 1, Min({count[k], max}))

\* memonitor_get_heaps, memonitor_get_threads
Get(r, k) ==
  /\ \E max \in 1 .. CacheSize :
       copy' = [copy EXCEPT ![r][k] = [list |-> Copied(k, max), max |-> max, news |-> told[r]]]
  /\ UNCHANGED <<pending, step, cycle, count, cache, message, holder, told, sampled>>

Reader(r) == Claim(r) \/ Hear(r) \/ \E k \in Kinds : Get(r, k)

Next ==
  \/ SampleHeaps \/ SampleThreads \/ Publish
  \/ \E r \in Readers : Reader(r)

Spec == Init /\ [][Next]_vars

\* The system workqueue runs the item; a reader may take as long as it likes.
FairSpec ==
  Spec /\ WF_vars(SampleHeaps) /\ WF_vars(SampleThreads) /\ WF_vars(Publish)
----------------------------------------------------------------------------
TypeOK ==
  /\ pending \in BOOLEAN /\ step \in {"idle", "threads", "publish"}
  /\ cycle \in 0 .. MaxCycles /\ message.cycle \in 0 .. cycle
  /\ count \in [Kinds -> 0 .. CacheSize]
  /\ cache \in [Kinds -> [1 .. CacheSize -> 0 .. MaxCycles]]
  /\ holder \in Readers \union {Free}
  /\ told \in [Readers -> 0 .. MaxCycles]

\* A consumer's copy is one whole sample, as far as it had room, taken in the
\* cycle it had heard of or later: never a mixture of cycles, an entry of an
\* earlier and longer sample, or data older than the announcement.
CopiesAreNews ==
  \A r \in Readers, k \in Kinds :
    LET c == copy[r][k]
    IN  \E n \in c.news .. cycle :
          c.list = [i \in 1 .. Min({sampled[k][n], c.max}) |-> n]

\* Sampling goes on for ever, also when an announcement is lost.
KeepsSampling == \A c \in 0 .. MaxCycles - 1 : cycle = c ~> cycle = c + 1

\* memonitor.h:53 "Published on MEMONITOR_CHAN after each sampling cycle": when
\* a cycle is over its message is there.
EveryCycleAnnounced == step = "idle" => message.cycle = cycle
=============================================================================
