--------------------------- MODULE CommandJournal ---------------------------
(***************************************************************************)
(* Commands of one paired device to the executor (auth/relay.js): the       *)
(* caller pushes a sealed command under a fresh id and polls for the        *)
(* response under the same id; the executor polls the room, reserves the    *)
(* id in its durable journal, dispatches the command, records the response  *)
(* in the journal and only then pushes it and deletes the command.          *)
(*                                                                         *)
(* The relay may lose, delay and repeat messages, every call may fail       *)
(* before or after its effect, the executor may be restarted at any moment  *)
(* and journal rows are dropped some time after their command expired.      *)
(***************************************************************************)
EXTENDS Naturals, FiniteSets

CONSTANTS
    Commands,    \* ids of commands
    Reads,       \* those of read-only operations
    Cleanups,    \* revocations, denials and cancellations by the owner
    MessageTtl,  \* life of a sealed command (120 s)
    MaxStall,    \* longest time from opening a command to its reservation
    MaxJournal,  \* MAX_JOURNAL (2000)
    Reserve,     \* rows kept for cleanups, below and above MaxJournal (128)
    OtherCleanups, \* bound of the rows that cleanups of other devices have
    MaxActive,   \* commands executed at one time (64)
    MaxCalls,    \* bound of the commands that are called
    MaxTime,     \* bound of the clock; the last command expires before it
    MaxFaults    \* bound of failures, restarts and faults of the relay

ASSUME CommandAssumption ==
    /\ Reads \subseteq Commands
    /\ Cleanups \subseteq Commands \ Reads
    /\ MessageTtl \in Nat \ {0}
    /\ MaxStall \in Nat
    /\ MaxJournal \in Nat
    /\ Reserve \in Nat
    /\ OtherCleanups \in Nat
    /\ MaxActive \in Nat
    /\ MaxCalls \in Nat
    /\ MaxTime \in Nat
    /\ MaxFaults \in Nat

VARIABLES
    now,        \* the clock
    call,       \* where each caller is
    sent,       \* when it sealed its command
    answer,     \* what it returned
    requests,   \* commands in the room
    responses,  \* responses in the room
    enabled,    \* the executor still trusts the device
    journal,    \* transport of the executor's state file
    pc,         \* where each command's execution is
    opened,     \* when the poll opened it
    brief,      \* it is answered without a trace in the journal
    reply,      \* the answer to be pushed
    runs,       \* history: how often it was dispatched, a read at most once
    pushed,     \* history: the answers that were pushed, but those of reads
    faults      \* failures so far

caller == <<call, sent, answer>>
room == <<requests, responses>>
job == <<pc, opened, brief, reply>>
history == <<runs, pushed>>
vars == <<now, caller, room, enabled, journal, job, history, faults>>

Init ==
    /\ now = 0
    /\ call = [c \in Commands |-> "new"]
    /\ sent = [c \in Commands |-> 0]
    /\ answer = [c \in Commands |-> "none"]
    /\ requests = {}
    /\ responses = [c \in Commands |-> "none"]
    /\ enabled = TRUE
    /\ journal = [c \in Commands |-> "none"]
    /\ pc = [c \in Commands |-> "idle"]
    /\ opened = [c \in Commands |-> 0]
    /\ brief = [c \in Commands |-> FALSE]
    /\ reply = [c \in Commands |-> "none"]
    /\ runs = [c \in Commands |-> 0]
    /\ pushed = [c \in Commands |-> {}]
    /\ faults = 0

Expired(c) == now >= sent[c] + MessageTtl

-----------------------------------------------------------------------------
(* createRelayCaller.                                                       *)

\* There is room and time for another command within the bounds.
MayCall ==
    /\ Cardinality({c \in Commands : call[c] # "new"}) < MaxCalls
    /\ now + MessageTtl + MessageTtl <= MaxTime

\* A command is sealed, and pushed until the relay takes it.
Call(c) ==
    /\ call[c] = "new"
    /\ MayCall
    /\ call' = [call EXCEPT ![c] = "waiting"]
    /\ sent' = [sent EXCEPT ![c] = now]
    /\ requests' = requests \cup {c}
    /\ UNCHANGED <<now, answer, responses, enabled, journal, job, history, faults>>

\* Without an answer from the relay the command is stored or not, and the caller
\* pushes it again or goes on to wait.
CallUnanswered(c) ==
    /\ call[c] = "new"
    /\ MayCall
    /\ faults < MaxFaults
    /\ faults' = faults + 1
    /\ call' \in {[call EXCEPT ![c] = s] : s \in {"sending", "waiting"}}
    /\ sent' = [sent EXCEPT ![c] = now]
    /\ requests' \in {requests, requests \cup {c}}
    /\ UNCHANGED <<now, answer, responses, enabled, journal, job, history>>

PushAgain(c) ==
    /\ call[c] = "sending"
    /\ ~Expired(c)
    /\ call' = [call EXCEPT ![c] = "waiting"]
    /\ requests' = requests \cup {c}
    /\ UNCHANGED <<now, sent, answer, responses, enabled, journal, job, history,
                   faults>>

\* The response is read and then deleted; if that fails, nobody reads it again.
Receive(c) ==
    /\ call[c] = "waiting"
    /\ ~Expired(c)
    /\ responses[c] # "none"
    /\ answer' = [answer EXCEPT ![c] = responses[c]]
    /\ call' = [call EXCEPT ![c] = "over"]
    /\ responses' = [responses EXCEPT ![c] = "none"]
    /\ UNCHANGED <<now, sent, requests, enabled, journal, job, history,
                   faults>>

\* The caller's time is over, or it is cancelled: it withdraws a read, and
\* leaves any other command, which may already have been executed.
GiveUp(c) ==
    /\ call[c] \in {"sending", "waiting"}
    /\ answer' = [answer EXCEPT ![c] = "uncertain"]
    /\ call' = [call EXCEPT ![c] = "over"]
    /\ requests' = IF c \in Reads THEN requests \ {c} ELSE requests
    /\ UNCHANGED <<now, sent, responses, enabled, journal, job, history,
                   faults>>

-----------------------------------------------------------------------------
(* The executor's poll.                                                     *)

Active == {c \in Commands : pc[c] # "idle"}

\* The poll reads an entry whose command is not being executed, openMessage
\* accepts it and an execution starts.  Waits and observations are ephemeral:
\* they are never journalled.
Open(c) ==
    /\ enabled
    /\ c \in requests
    /\ pc[c] = "idle"
    /\ ~Expired(c)
    /\ Cardinality(Active) < MaxActive
    /\ \E ephemeral \in BOOLEAN :
         /\ ephemeral => c \in Reads
         /\ brief' = [brief EXCEPT ![c] = ephemeral]
         /\ pc' = [pc EXCEPT ![c] = IF ephemeral THEN "run" ELSE "reserve"]
    /\ opened' = [opened EXCEPT ![c] = now]
    /\ UNCHANGED <<now, caller, room, enabled, journal, reply, history, faults>>

-----------------------------------------------------------------------------
(* executeCommand.                                                          *)

\* compactAuthState: rows are dropped a message's life after they expired.  Every
\* mutation of the state file begins and ends with it, so that those of others,
\* which are left out, make no difference to what is read here.
Compacted(rows) ==
    [c \in Commands |->
        IF now >= sent[c] + MessageTtl + MessageTtl THEN "none" ELSE rows[c]]

Rows(rows) == {c \in Commands : rows[c] # "none"}

\* How many rows there may be, with those of other devices: without cleanups
\* there are never more than MaxJournal, as no other command gets a row then.
Counts(rows) ==
    {Cardinality(Rows(rows)) + n :
        n \in 0..(MaxJournal - Cardinality(Rows(rows) \ Cleanups) + OtherCleanups)}

\* Admission is closed by the number of rows, or by the bytes of those there.
Capacity(count) ==
    IF count >= MaxJournal - Reserve THEN {TRUE}
    ELSE IF count = 0 THEN {FALSE} ELSE BOOLEAN

\* Mutant: cleanups have no room of their own.
LimitForAll(c) == MaxJournal

Limit(c) == IF c \in Cleanups THEN MaxJournal + Reserve ELSE MaxJournal

\* The end of an execution: what it held is gone.
Ends(c) ==
    /\ pc' = [pc EXCEPT ![c] = "idle"]
    /\ opened' = [opened EXCEPT ![c] = 0]
    /\ brief' = [brief EXCEPT ![c] = FALSE]
    /\ reply' = [reply EXCEPT ![c] = "none"]

Goes(c, where, with) ==
    /\ pc' = [pc EXCEPT ![c] = where]
    /\ opened' = [opened EXCEPT ![c] = 0]
    /\ reply' = [reply EXCEPT ![c] = with]
    /\ UNCHANGED brief

\* Mutant: a rejection leaves no row.
ReserveNewForgets(c) ==
    LET kept == Compacted(journal)
    IN  /\ pc[c] = "reserve"
        /\ kept[c] = "none"
        /\ \E count \in Counts(kept) : \E full \in Capacity(count) :
             /\ count < Limit(c)
             /\ IF full /\ c \notin Cleanups
                THEN /\ c \notin Reads
                     /\ journal' = kept
                     /\ Goes(c, "push", "refused")
                ELSE /\ journal' = [kept EXCEPT ![c] = "executing"]
                     /\ Goes(c, "run", "none")
        /\ UNCHANGED <<now, caller, room, enabled, history, faults>>

\* Mutant: a cleanup is rejected like any other command.
ReserveNewRejectsAll(c) ==
    LET kept == Compacted(journal)
    IN  /\ pc[c] = "reserve"
        /\ kept[c] = "none"
        /\ \E count \in Counts(kept) : \E full \in Capacity(count) :
             /\ count < Limit(c)
             /\ IF full
                THEN /\ c \notin Reads
                     /\ journal' = [kept EXCEPT ![c] = "rejected"]
                     /\ Goes(c, "push", "refused")
                ELSE /\ journal' = [kept EXCEPT ![c] = "executing"]
                     /\ Goes(c, "run", "none")
        /\ UNCHANGED <<now, caller, room, enabled, history, faults>>

\* The first time the id is seen: it is reserved, or recorded as rejected.
ReserveNew(c) ==
    LET kept == Compacted(journal)
    IN  /\ pc[c] = "reserve"
        /\ kept[c] = "none"
        /\ \E count \in Counts(kept) : \E full \in Capacity(count) :
             /\ count < Limit(c)
             /\ IF full /\ c \notin Cleanups
                THEN /\ c \notin Reads
                     /\ journal' = [kept EXCEPT ![c] = "rejected"]
                     /\ Goes(c, "push", "refused")
                ELSE /\ journal' = [kept EXCEPT ![c] = "executing"]
                     /\ Goes(c, "run", "none")
        /\ UNCHANGED <<now, caller, room, enabled, history, faults>>

\* Reads remain available without a row while admission is closed.
ReadUnrecorded(c) ==
    LET kept == Compacted(journal)
    IN  /\ pc[c] = "reserve"
        /\ c \in Reads
        /\ kept[c] = "none"
        /\ \E count \in Counts(kept) : TRUE \in Capacity(count)
        /\ journal' = kept
        /\ brief' = [brief EXCEPT ![c] = TRUE]
        /\ pc' = [pc EXCEPT ![c] = "run"]
        /\ opened' = [opened EXCEPT ![c] = 0]
        /\ UNCHANGED <<now, caller, room, enabled, reply, history, faults>>

\* "Authentication queue full": nothing is saved, the command stays in the room.
QueueFull(c) ==
    LET kept == Compacted(journal)
    IN  /\ pc[c] = "reserve"
        /\ c \notin Reads
        /\ kept[c] = "none"
        /\ \E count \in Counts(kept) : count >= Limit(c)
        /\ Ends(c)
        /\ UNCHANGED <<now, caller, room, enabled, journal, history, faults>>

\* Mutant: an execution without a record is started again.
ReserveAgainRuns(c) ==
    LET kept == Compacted(journal)
    IN  /\ pc[c] = "reserve"
        /\ kept[c] # "none"
        /\ journal' = kept
        /\ \/ kept[c] = "rejected" /\ Goes(c, "push", "refused")
           \/ kept[c] \in {"result", "error", "uncertain"} /\ Goes(c, "push", kept[c])
           \/ kept[c] \in {"executing", "read"} /\ Goes(c, "run", "none")
        /\ UNCHANGED <<now, caller, room, enabled, history, faults>>

\* The id is known: a rejection and a recorded response are repeated, an
\* execution without a record is uncertain, and a read is done again.
ReserveAgain(c) ==
    LET kept == Compacted(journal)
    IN  /\ pc[c] = "reserve"
        /\ kept[c] # "none"
        /\ journal' = kept
        /\ \/ kept[c] = "rejected" /\ Goes(c, "push", "refused")
           \/ kept[c] \in {"result", "error", "uncertain"} /\ Goes(c, "push", kept[c])
           \/ kept[c] = "executing" /\ Goes(c, "commit", "uncertain")
           \/ kept[c] = "read" /\ Goes(c, "run", "none")
        /\ UNCHANGED <<now, caller, room, enabled, history, faults>>

\* The device is looked up again, then the command is dispatched.  What it gives,
\* a value or an error, is its result, unless it is too large for a response.
Run(c) ==
    /\ pc[c] = "run"
    /\ enabled
    /\ runs' = [runs EXCEPT ![c] = IF c \in Reads THEN 1 ELSE @ + 1]
    /\ \E r \in IF c \in Reads THEN {"result"} ELSE {"result", "uncertain"} :
         Goes(c, IF brief[c] THEN "push" ELSE "commit", r)
    /\ UNCHANGED <<now, caller, room, enabled, journal, pushed, faults>>

RunRevoked(c) ==
    /\ pc[c] = "run"
    /\ ~enabled
    /\ Goes(c, IF brief[c] THEN "push" ELSE "commit", "error")
    /\ UNCHANGED <<now, caller, room, enabled, journal, history, faults>>

\* The row is written whether or not it was dropped meanwhile, and may be
\* dropped by the compaction that ends every mutation of the store.
Commit(c) ==
    /\ pc[c] = "commit"
    /\ journal' = Compacted([journal EXCEPT ![c] = IF c \in Reads THEN "read" ELSE reply[c]])
    /\ Goes(c, "push", reply[c])
    /\ UNCHANGED <<now, caller, room, enabled, history, faults>>

Push(c) ==
    /\ pc[c] = "push"
    /\ responses' = [responses EXCEPT ![c] = reply[c]]
    /\ pushed' = [pushed EXCEPT ![c] = IF c \in Reads THEN {} ELSE @ \cup {reply[c]}]
    /\ Goes(c, "clean", reply[c])
    /\ UNCHANGED <<now, caller, requests, enabled, journal, runs, faults>>

Clean(c) ==
    /\ pc[c] = "clean"
    /\ requests' = requests \ {c}
    /\ Ends(c)
    /\ UNCHANGED <<now, caller, responses, enabled, journal, history, faults>>

\* A call of the store or the relay throws, before its effect or after it.
Fail(c) ==
    /\ pc[c] # "idle"
    /\ faults < MaxFaults
    /\ faults' = faults + 1
    /\ Ends(c)
    /\ UNCHANGED <<now, caller, room, enabled, journal, history>>

\* The executor ends and starts again: only the journal stays.
Restart ==
    /\ faults < MaxFaults
    /\ faults' = faults + 1
    /\ pc' = [c \in Commands |-> "idle"]
    /\ opened' = [c \in Commands |-> 0]
    /\ brief' = [c \in Commands |-> FALSE]
    /\ reply' = [c \in Commands |-> "none"]
    /\ UNCHANGED <<now, caller, room, enabled, journal, history>>

-----------------------------------------------------------------------------
(* The surroundings.                                                        *)

\* The clock; a command that was opened is reserved within MaxStall.
Tick ==
    /\ now < MaxTime
    /\ \A c \in Commands : pc[c] = "reserve" => now < opened[c] + MaxStall
    /\ now' = now + 1
    /\ UNCHANGED <<caller, room, enabled, journal, job, history, faults>>

\* A relay that loses a message, or presents one again that was deleted.
RelayFault(c) ==
    /\ faults < MaxFaults
    /\ faults' = faults + 1
    /\ \/ /\ requests' \in {requests \ {c}, requests \cup {c}}
          /\ call[c] # "new"
          /\ UNCHANGED responses
       \/ /\ responses' = [responses EXCEPT ![c] = "none"]
          /\ UNCHANGED requests
    /\ UNCHANGED <<now, caller, enabled, journal, job, history>>

\* peer.revoke, by the owner.
RevokePeer ==
    /\ enabled' = FALSE
    /\ UNCHANGED <<now, caller, room, journal, job, history, faults>>

-----------------------------------------------------------------------------

JobStep(c) ==
    \/ ReserveNew(c)
    \/ ReadUnrecorded(c)
    \/ QueueFull(c)
    \/ ReserveAgain(c)
    \/ Run(c)
    \/ RunRevoked(c)
    \/ Commit(c)
    \/ Push(c)
    \/ Clean(c)

CallerStep(c) ==
    \/ Call(c)
    \/ CallUnanswered(c)
    \/ PushAgain(c)
    \/ Receive(c)
    \/ GiveUp(c)

Next ==
    \/ \E c \in Commands :
         CallerStep(c) \/ Open(c) \/ JobStep(c) \/ Fail(c) \/ RelayFault(c)
    \/ Restart
    \/ Tick
    \/ RevokePeer

Spec == Init /\ [][Next]_vars

\* The poll visits every entry again and again, and executions go on.
Fairness ==
    /\ \A c \in Commands : SF_vars(Open(c))
    /\ \A c \in Commands : WF_vars(JobStep(c))

FairSpec == Spec /\ Fairness

-----------------------------------------------------------------------------
(* Properties.                                                              *)

Told == {"result", "error", "refused", "uncertain"}

\* Every variable keeps its type.
TypeOK ==
    /\ now \in Nat
    /\ call \in [Commands -> {"new", "sending", "waiting", "over"}]
    /\ sent \in [Commands -> Nat]
    /\ answer \in [Commands -> Told \cup {"none"}]
    /\ requests \in SUBSET Commands
    /\ responses \in [Commands -> Told \cup {"none"}]
    /\ enabled \in BOOLEAN
    /\ journal \in [Commands -> {"none", "executing", "rejected", "read",
                                 "result", "error", "uncertain"}]
    /\ pc \in [Commands -> {"idle", "reserve", "run", "commit", "push", "clean"}]
    /\ opened \in [Commands -> Nat]
    /\ brief \in [Commands -> BOOLEAN]
    /\ reply \in [Commands -> Told \cup {"none"}]
    /\ runs \in [Commands -> Nat]
    /\ pushed \in [Commands -> SUBSET Told]
    /\ faults \in Nat

\* Durable command records prevent delivery retries from executing a command
\* that changes something again, through restarts and repeated deliveries.
RunsOnce == \A c \in Commands \ Reads : runs[c] <= 1

\* A caller and whoever retries for it are never told two different things of
\* one command that changes something.
OneAnswer == \A c \in Commands \ Reads : Cardinality(pushed[c]) <= 1

Service == INSTANCE CommandService

\* The journal implements the service.
ImplementsService == Service!Spec

\* However full ordinary commands have made the journal, a revocation, denial or
\* cancellation that waits in the room with no row yet is executed, neither refused
\* nor answered as uncertain nor left there: once failures stop, while it has not
\* expired and its device is enabled.  Only more cleanups at a time than there are
\* rows reserved can keep it out.
CleanupServed ==
    Cardinality(Cleanups) + OtherCleanups <= Reserve =>
        \A c \in Cleanups, n \in 0..MaxFaults :
            c \in requests /\ journal[c] = "none" /\ faults = n
                ~> runs[c] > 0 \/ faults > n \/ Expired(c) \/ ~enabled
=============================================================================
