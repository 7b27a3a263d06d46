-------------------------------- MODULE Ntp --------------------------------
(***************************************************************************)
(* The NTP brick (bricks/ntp/src/ntp.c).  The network event thread reports *)
(* connects and disconnects on ZEGO_NTP_NET_CHAN; a delayable work item    *)
(* queries the SNTP server on the system workqueue.  sntp_simple blocks,   *)
(* so reports interleave with a query in flight; the rest of the handler   *)
(* runs on a cooperative thread and is atomic.                             *)
(*                                                                         *)
(* Delays are abstracted to "pending".  epoch, queryOf and syncOf are      *)
(* history: which connection a query and the last good answer belong to.   *)
(***************************************************************************)
EXTENDS Naturals

CONSTANT MaxConnects   \* bound on the number of connections of a behaviour

ASSUME NtpAssumption == MaxConnects \in Nat \ {0}

VARIABLES
  ready,         \* ntp_network_ready
  synced,        \* ntp_synced
  queued,        \* ntp_work is in the workqueue
  delayed,       \* ntp_work's timeout is running
  querying,      \* ntp_work_handler is inside sntp_simple
  canceling,     \* ntp_work was cancelled while its handler was running
  clockRefused,  \* the last sys_clock_settime failed
  epoch, queryOf, syncOf

vars == <<ready, synced, queued, delayed, querying, canceling, clockRefused,
          epoch, queryOf, syncOf>>

Init ==
  /\ ready = FALSE /\ synced = FALSE
  /\ queued = FALSE /\ delayed = FALSE /\ querying = FALSE /\ canceling = FALSE
  /\ clockRefused = FALSE
  /\ epoch = 0 /\ queryOf = 0 /\ syncOf = 0

\* k_work_reschedule with K_NO_WAIT: the kernel refuses to queue an item that
\* is being cancelled.
SubmitNow == delayed' = FALSE /\ queued' = (queued \/ ~canceling)

\* ntp_notify_connected; a repeated report is a lease with a new address.
NotifyConnected ==
  /\ ready' = TRUE
  /\ epoch' = IF ready THEN epoch ELSE epoch + 1
  /\ IF synced THEN UNCHANGED <<queued, delayed>> ELSE SubmitNow

Connected ==
  /\ ready \/ epoch < MaxConnects
  /\ NotifyConnected
  /\ UNCHANGED <<synced, querying, canceling, clockRefused, queryOf, syncOf>>

\* ntp_notify_disconnected: cancelling dequeues the work item and marks it if
\* its handler is running; the handler itself goes on.
Disconnected ==
  /\ ready' = FALSE
  /\ synced' = FALSE
  /\ delayed' = FALSE /\ queued' = FALSE
  /\ canceling' = querying
  /\ UNCHANGED <<querying, clockRefused, epoch, queryOf, syncOf>>

\* The kernel's timeout moves the work item to the queue.
Expire ==
  /\ delayed
  /\ delayed' = FALSE
  /\ queued' = TRUE
  /\ UNCHANGED <<ready, synced, querying, canceling, clockRefused, epoch, queryOf, syncOf>>

\* ntp_work_handler up to sntp_simple.
HandlerBegin ==
  /\ queued /\ ~querying
  /\ queued' = FALSE
  /\ querying' = ready
  /\ queryOf' = IF ready THEN epoch ELSE queryOf
  /\ UNCHANGED <<ready, synced, delayed, canceling, clockRefused, epoch, syncOf>>

HandlerReturns == querying /\ querying' = FALSE /\ canceling' = FALSE

QueryFails_NoRetry ==
  /\ HandlerReturns
  /\ UNCHANGED <<ready, synced, delayed, queued, clockRefused, epoch, queryOf, syncOf>>

\* The query times out; it is retried later.
QueryFails ==
  /\ HandlerReturns
  /\ delayed' = TRUE
  /\ UNCHANGED <<ready, synced, queued, clockRefused, epoch, queryOf, syncOf>>

ClockSet_NoResync ==
  /\ HandlerReturns
  /\ synced' = TRUE /\ syncOf' = queryOf
  /\ clockRefused' = FALSE
  /\ UNCHANGED <<ready, delayed, queued, epoch, queryOf>>

\* An answer, and sys_clock_settime takes it.
ClockSet ==
  /\ HandlerReturns
  /\ synced' = TRUE /\ syncOf' = queryOf
  /\ clockRefused' = FALSE
  /\ delayed' = TRUE
  /\ UNCHANGED <<ready, queued, epoch, queryOf>>

\* An answer that sys_clock_settime refuses: nothing is retried.
ClockRefuses ==
  /\ HandlerReturns
  /\ clockRefused' = TRUE
  /\ UNCHANGED <<ready, synced, delayed, queued, epoch, queryOf, syncOf>>

Next == \/ Connected \/ Disconnected \/ Expire
        \/ HandlerBegin \/ QueryFails \/ ClockSet \/ ClockRefuses

Spec == Init /\ [][Next]_vars

\* The kernel runs timeouts and the workqueue; every query ends within its
\* timeout, and a server asked for ever answers some time.
Fairness == /\ WF_vars(Expire) /\ WF_vars(HandlerBegin)
            /\ WF_vars(QueryFails \/ ClockSet \/ ClockRefuses)
            /\ SF_vars(ClockSet)

FairSpec == Spec /\ Fairness
----------------------------------------------------------------------------
\* Types; the histories never run ahead of the connection counter, and a work
\* item is marked as being cancelled only while its handler runs.
TypeOK ==
  /\ {ready, synced, queued, delayed, querying, canceling, clockRefused} \subseteq BOOLEAN
  /\ epoch \in 0 .. MaxConnects
  /\ queryOf \in 0 .. epoch /\ syncOf \in 0 .. queryOf
  /\ canceling => querying
  /\ querying /\ ~ready => canceling

Armed == queued \/ delayed \/ querying

\* On a connected device a query is pending or running, whatever the order of
\* reports, expiries and answers, except where the code gives up: the clock
\* refused an answer, or an answer outlived the connection it was asked in.
QueryArmed == ready => Armed \/ clockRefused \/ (synced /\ syncOf < epoch)

\* A device that stays connected is synchronised in the end, if its clock
\* accepts the answers.
SyncsEventually == <>[]ready /\ <>[](~clockRefused) => <>[]synced

\* ntp.c:15 "Resets on disconnect so a fresh sync is performed after each
\* reconnect": a connected device that counts as synced was synced in this
\* connection.
FreshSync == ready /\ synced => syncOf = epoch

\* ntp-spec.md:39 "A successful sync is periodically refreshed": a connected,
\* synced device whose clock accepts answers has its next query pending.
SyncRefreshed == ready /\ synced /\ ~clockRefused => Armed
=============================================================================
