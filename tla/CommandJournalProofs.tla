------------------------ MODULE CommandJournalProofs ------------------------
(***************************************************************************)
(* Proofs about CommandJournal, for any commands, limits, clocks, failures  *)
(* and restarts, when a command is reserved before the row that an earlier  *)
(* execution left can be dropped: MaxStall <= MessageTtl.                   *)
(*                                                                         *)
(* The invariant relates, command by command, the row on disk to what was   *)
(* done and said: until the row may be dropped, no row means nothing was    *)
(* done, a row without an answer that nothing was said, and a row with one  *)
(* that nothing else was said or ever will be.                              *)
(***************************************************************************)
EXTENDS CommandJournal, FiniteSetTheorems, TLAPS

\* Rows of the command may be dropped.
Dropped(c) == now >= sent[c] + MessageTtl + MessageTtl

Done == {"result", "error", "uncertain"}

\* A command that was never sent has left no trace.
Untouched(c) ==
    call[c] = "new" =>
        /\ c \notin requests
        /\ pc[c] = "idle"
        /\ journal[c] = "none"
        /\ responses[c] = "none"
        /\ runs[c] = 0
        /\ pushed[c] = {}

\* A command is opened while it is valid and reserved soon after.
Timely(c) ==
    pc[c] = "reserve" => /\ opened[c] < sent[c] + MessageTtl
                         /\ now <= opened[c] + MaxStall

\* What a row says of the past, and of the execution that goes on.
RowInv(c) ==
    /\ journal[c] # "read"
    /\ journal[c] = "none" /\ ~Dropped(c) =>
         runs[c] = 0 /\ pushed[c] = {} /\ pc[c] \in {"idle", "reserve"}
    /\ journal[c] = "executing" =>
         pushed[c] = {} /\ pc[c] \in {"idle", "reserve", "run", "commit"}
    /\ journal[c] = "rejected" =>
         /\ runs[c] = 0
         /\ pushed[c] \subseteq {"refused"}
         /\ pc[c] \in {"idle", "reserve", "push", "clean"}
         /\ pc[c] \in {"push", "clean"} => reply[c] = "refused"
    /\ journal[c] \in Done =>
         /\ pushed[c] \subseteq {journal[c]}
         /\ pc[c] \in {"idle", "reserve", "push", "clean"}
         /\ pc[c] \in {"push", "clean"} => reply[c] = journal[c]
         /\ journal[c] = "result" => runs[c] > 0

\* What an execution may rely on.
JobInv(c) ==
    /\ ~brief[c]
    /\ pc[c] = "run" => runs[c] = 0 /\ pushed[c] = {}
    /\ pc[c] = "commit" => /\ pushed[c] = {}
                           /\ reply[c] \in Done
                           /\ reply[c] = "result" => runs[c] > 0
    /\ pc[c] \in {"push", "clean"} => /\ pushed[c] \subseteq {reply[c]}
                                      /\ reply[c] \in Told
                                      /\ reply[c] = "result" => runs[c] > 0
                                      /\ reply[c] = "refused" => runs[c] = 0

\* What was said is one thing, and true.
PushedInv(c) ==
    /\ runs[c] <= 1
    /\ \A a, b \in pushed[c] : a = b
    /\ "result" \in pushed[c] => runs[c] > 0
    /\ "refused" \in pushed[c] => runs[c] = 0

\* A read is never refused, and has a result only after it ran.
ReadInv(c) ==
    /\ journal[c] \in {"none", "executing", "read"}
    /\ reply[c] # "refused"
    /\ reply[c] = "result" => runs[c] > 0
    /\ pc[c] \in {"commit", "push", "clean"} => reply[c] \in Told

\* What lies in the room and what the caller was told.
AnswerInv(c) ==
    /\ call[c] # "over" => answer[c] = "none"
    /\ \A a \in {answer[c], responses[c]} :
         /\ a = "result" => runs[c] > 0
         /\ a = "refused" => c \notin Reads /\ "refused" \in pushed[c]

CommandInv(c) ==
    /\ Untouched(c)
    /\ Timely(c)
    /\ c \notin Reads => RowInv(c) /\ JobInv(c) /\ PushedInv(c)
    /\ c \in Reads => ReadInv(c)
    /\ AnswerInv(c)

IInv == TypeOK /\ \A c \in Commands : CommandInv(c)

\* What a step leaves alone of a command it is not about: the compaction that
\* goes with every mutation of the store may drop its row.
Same(d) ==
    /\ now' = now
    /\ call'[d] = call[d]
    /\ sent'[d] = sent[d]
    /\ answer'[d] = answer[d]
    /\ d \in requests' => d \in requests
    /\ responses'[d] = responses[d]
    /\ pc'[d] = pc[d]
    /\ opened'[d] = opened[d]
    /\ brief'[d] = brief[d]
    /\ reply'[d] = reply[d]
    /\ runs'[d] = runs[d]
    /\ pushed'[d] = pushed[d]

KeepsRow(d) ==
    \/ journal'[d] = journal[d]
    \/ Dropped(d) /\ journal'[d] = "none"

-----------------------------------------------------------------------------

LEMMA Bystander ==
    ASSUME TypeOK, NEW d \in Commands, CommandInv(d), Same(d), KeepsRow(d)
    PROVE  CommandInv(d)'
BY DEF TypeOK, CommandInv, Same, KeepsRow, Dropped, Done, Untouched, Timely,
   RowInv, JobInv, PushedInv, ReadInv, AnswerInv

\* Compaction keeps the rows of commands that are not long expired.
LEMMA CompactedRow ==
    ASSUME NEW rows, NEW c \in Commands
    PROVE  Compacted(rows)[c] = IF Dropped(c) THEN "none" ELSE rows[c]
BY DEF Compacted, Dropped

LEMMA InitInv == Init => IInv
<1> SUFFICES ASSUME Init PROVE IInv
  OBVIOUS
<1>1. TypeOK
  BY DEF Init, TypeOK, Told
<1>2. ASSUME NEW c \in Commands PROVE CommandInv(c)
  BY <1>2 DEF Init, CommandInv, Untouched, Timely, RowInv, Dropped, Done, JobInv,
     PushedInv, ReadInv, AnswerInv
<1> QED
  BY <1>1, <1>2 DEF IInv

LEMMA CallInv ==
    ASSUME IInv, NEW c \in Commands, Call(c)
    PROVE  IInv'
<1> USE CommandAssumption DEF Call, caller, room, job, history, MayCall
<1>1. TypeOK'
  BY DEF IInv, TypeOK, Told
<1>2. ASSUME NEW d \in Commands, d # c PROVE CommandInv(d)'
  <2>1. Same(d) /\ KeepsRow(d)
    BY <1>2 DEF IInv, TypeOK, Same, KeepsRow
  <2> QED
    BY <1>2, <2>1, Bystander DEF IInv
<1>3. CommandInv(c)'
  <2> CommandInv(c) /\ TypeOK
    BY DEF IInv
  <2>1. Untouched(c)' /\ Timely(c)'
    BY DEF CommandInv, TypeOK, Untouched, Timely, RowInv, Done, Dropped
  <2>2. c \notin Reads => RowInv(c)'
    BY DEF CommandInv, TypeOK, Untouched, Timely, RowInv, JobInv, PushedInv, Done, Dropped, Told
  <2>3. c \notin Reads => JobInv(c)' /\ PushedInv(c)'
    BY DEF CommandInv, TypeOK, Untouched, Timely, RowInv, JobInv, PushedInv, Done, Dropped, Told
  <2>4. c \in Reads => ReadInv(c)'
    BY DEF CommandInv, TypeOK, Untouched, ReadInv, Told
  <2>5. AnswerInv(c)'
    BY DEF CommandInv, TypeOK, Untouched, AnswerInv, RowInv, JobInv, PushedInv, ReadInv, Done
  <2> QED
    BY <2>1, <2>2, <2>3, <2>4, <2>5 DEF CommandInv
<1> QED
  BY <1>1, <1>2, <1>3 DEF IInv

LEMMA CallUnansweredInv ==
    ASSUME IInv, NEW c \in Commands, CallUnanswered(c)
    PROVE  IInv'
<1> USE CommandAssumption DEF CallUnanswered, caller, room, job, history, MayCall
<1>1. TypeOK'
  BY DEF IInv, TypeOK, Told
<1>2. ASSUME NEW d \in Commands, d # c PROVE CommandInv(d)'
  <2>1. Same(d) /\ KeepsRow(d)
    BY <1>2 DEF IInv, TypeOK, Same, KeepsRow
  <2> QED
    BY <1>2, <2>1, Bystander DEF IInv
<1>3. CommandInv(c)'
  <2> CommandInv(c) /\ TypeOK
    BY DEF IInv
  <2>1. Untouched(c)' /\ Timely(c)'
    BY DEF CommandInv, TypeOK, Untouched, Timely, RowInv, Done, Dropped
  <2>2. c \notin Reads => RowInv(c)'
    BY DEF CommandInv, TypeOK, Untouched, Timely, RowInv, JobInv, PushedInv, Done, Dropped, Told
  <2>3. c \notin Reads => JobInv(c)' /\ PushedInv(c)'
    BY DEF CommandInv, TypeOK, Untouched, Timely, RowInv, JobInv, PushedInv, Done, Dropped, Told
  <2>4. c \in Reads => ReadInv(c)'
    BY DEF CommandInv, TypeOK, Untouched, ReadInv, Told
  <2>5. AnswerInv(c)'
    BY DEF CommandInv, TypeOK, Untouched, AnswerInv, RowInv, JobInv, PushedInv, ReadInv, Done
  <2> QED
    BY <2>1, <2>2, <2>3, <2>4, <2>5 DEF CommandInv
<1> QED
  BY <1>1, <1>2, <1>3 DEF IInv

LEMMA PushAgainInv ==
    ASSUME IInv, NEW c \in Commands, PushAgain(c)
    PROVE  IInv'
<1> USE CommandAssumption DEF PushAgain, caller, room, job, history
<1>1. TypeOK'
  BY DEF IInv, TypeOK, Told
<1>2. ASSUME NEW d \in Commands, d # c PROVE CommandInv(d)'
  <2>1. Same(d) /\ KeepsRow(d)
    BY <1>2 DEF IInv, TypeOK, Same, KeepsRow
  <2> QED
    BY <1>2, <2>1, Bystander DEF IInv
<1>3. CommandInv(c)'
  <2> CommandInv(c) /\ TypeOK
    BY DEF IInv
  <2>1. Untouched(c)' /\ Timely(c)'
    BY DEF CommandInv, TypeOK, Untouched, Timely, RowInv, Done, Dropped
  <2>2. c \notin Reads => RowInv(c)'
    BY DEF CommandInv, TypeOK, Untouched, Timely, RowInv, JobInv, PushedInv, Done, Dropped, Told
  <2>3. c \notin Reads => JobInv(c)' /\ PushedInv(c)'
    BY DEF CommandInv, TypeOK, Untouched, Timely, RowInv, JobInv, PushedInv, Done, Dropped, Told
  <2>4. c \in Reads => ReadInv(c)'
    BY DEF CommandInv, TypeOK, Untouched, ReadInv, Told
  <2>5. AnswerInv(c)'
    BY DEF CommandInv, TypeOK, Untouched, AnswerInv, RowInv, JobInv, PushedInv, ReadInv, Done
  <2> QED
    BY <2>1, <2>2, <2>3, <2>4, <2>5 DEF CommandInv
<1> QED
  BY <1>1, <1>2, <1>3 DEF IInv

LEMMA ReceiveInv ==
    ASSUME IInv, NEW c \in Commands, Receive(c)
    PROVE  IInv'
<1> USE CommandAssumption DEF Receive, caller, room, job, history, Expired
<1>1. TypeOK'
  BY DEF IInv, TypeOK, Told
<1>2. ASSUME NEW d \in Commands, d # c PROVE CommandInv(d)'
  <2>1. Same(d) /\ KeepsRow(d)
    BY <1>2 DEF IInv, TypeOK, Same, KeepsRow
  <2> QED
    BY <1>2, <2>1, Bystander DEF IInv
<1>3. CommandInv(c)'
  <2> CommandInv(c) /\ TypeOK
    BY DEF IInv
  <2>1. Untouched(c)' /\ Timely(c)'
    BY DEF CommandInv, TypeOK, Untouched, Timely, RowInv, Done, Dropped
  <2>2. c \notin Reads => RowInv(c)'
    BY DEF CommandInv, TypeOK, Untouched, Timely, RowInv, JobInv, PushedInv, Done, Dropped, Told
  <2>3. c \notin Reads => JobInv(c)' /\ PushedInv(c)'
    BY DEF CommandInv, TypeOK, Untouched, Timely, RowInv, JobInv, PushedInv, Done, Dropped, Told
  <2>4. c \in Reads => ReadInv(c)'
    BY DEF CommandInv, TypeOK, Untouched, ReadInv, Told
  <2>5. AnswerInv(c)'
    BY DEF CommandInv, TypeOK, Untouched, AnswerInv, RowInv, JobInv, PushedInv, ReadInv, Done
  <2> QED
    BY <2>1, <2>2, <2>3, <2>4, <2>5 DEF CommandInv
<1> QED
  BY <1>1, <1>2, <1>3 DEF IInv

LEMMA GiveUpInv ==
    ASSUME IInv, NEW c \in Commands, GiveUp(c)
    PROVE  IInv'
<1> USE CommandAssumption DEF GiveUp, caller, room, job, history
<1>1. TypeOK'
  BY DEF IInv, TypeOK, Told
<1>2. ASSUME NEW d \in Commands, d # c PROVE CommandInv(d)'
  <2>1. Same(d) /\ KeepsRow(d)
    BY <1>2 DEF IInv, TypeOK, Same, KeepsRow
  <2> QED
    BY <1>2, <2>1, Bystander DEF IInv
<1>3. CommandInv(c)'
  <2> CommandInv(c) /\ TypeOK
    BY DEF IInv
  <2>1. Untouched(c)' /\ Timely(c)'
    BY DEF CommandInv, TypeOK, Untouched, Timely, RowInv, Done, Dropped
  <2>2. c \notin Reads => RowInv(c)'
    BY DEF CommandInv, TypeOK, Untouched, Timely, RowInv, JobInv, PushedInv, Done, Dropped, Told
  <2>3. c \notin Reads => JobInv(c)' /\ PushedInv(c)'
    BY DEF CommandInv, TypeOK, Untouched, Timely, RowInv, JobInv, PushedInv, Done, Dropped, Told
  <2>4. c \in Reads => ReadInv(c)'
    BY DEF CommandInv, TypeOK, Untouched, ReadInv, Told
  <2>5. AnswerInv(c)'
    BY DEF CommandInv, TypeOK, Untouched, AnswerInv, RowInv, JobInv, PushedInv, ReadInv, Done
  <2> QED
    BY <2>1, <2>2, <2>3, <2>4, <2>5 DEF CommandInv
<1> QED
  BY <1>1, <1>2, <1>3 DEF IInv

LEMMA OpenInv ==
    ASSUME IInv, NEW c \in Commands, Open(c)
    PROVE  IInv'
<1> USE CommandAssumption DEF Open, caller, room, job, history, Expired
<1>1. TypeOK'
  BY DEF IInv, TypeOK, Told
<1>2. ASSUME NEW d \in Commands, d # c PROVE CommandInv(d)'
  <2>1. Same(d) /\ KeepsRow(d)
    BY <1>2 DEF IInv, TypeOK, Same, KeepsRow
  <2> QED
    BY <1>2, <2>1, Bystander DEF IInv
<1>3. CommandInv(c)'
  <2> CommandInv(c) /\ TypeOK
    BY DEF IInv
  <2>1. Untouched(c)' /\ Timely(c)'
    BY DEF CommandInv, TypeOK, Untouched, Timely, RowInv, Done, Dropped
  <2>2. c \notin Reads => RowInv(c)'
    BY DEF CommandInv, TypeOK, Untouched, Timely, RowInv, JobInv, PushedInv, Done, Dropped, Told
  <2>3. c \notin Reads => JobInv(c)' /\ PushedInv(c)'
    BY DEF CommandInv, TypeOK, Untouched, Timely, RowInv, JobInv, PushedInv, Done, Dropped, Told
  <2>4. c \in Reads => ReadInv(c)'
    BY DEF CommandInv, TypeOK, Untouched, ReadInv, Told
  <2>5. AnswerInv(c)'
    BY DEF CommandInv, TypeOK, Untouched, AnswerInv, RowInv, JobInv, PushedInv, ReadInv, Done
  <2> QED
    BY <2>1, <2>2, <2>3, <2>4, <2>5 DEF CommandInv
<1> QED
  BY <1>1, <1>2, <1>3 DEF IInv

LEMMA ReserveNewInv ==
    ASSUME MaxStall <= MessageTtl, IInv, NEW c \in Commands, ReserveNew(c)
    PROVE  IInv'
<1> USE CommandAssumption DEF caller, room, job, history
<1> DEFINE rows == Compacted(journal)
<1>1. PICK s \in {"rejected", "executing"} :
        /\ journal' = [rows EXCEPT ![c] = s]
        /\ s = "rejected" => c \notin Reads /\ Goes(c, "push", "refused")
        /\ s = "executing" => Goes(c, "run", "none")
  BY DEF ReserveNew
<1>2. /\ pc[c] = "reserve"
      /\ rows[c] = "none"
      /\ UNCHANGED <<now, caller, room, enabled, history, faults>>
  BY DEF ReserveNew
<1>3. /\ journal'[c] = s
      /\ \A d \in Commands : d # c =>
           journal'[d] = IF Dropped(d) THEN "none" ELSE journal[d]
  BY <1>1, CompactedRow DEF Compacted
<1>4. ~Dropped(c) /\ journal[c] = "none"
  <2>1. ~Dropped(c)
    BY <1>2 DEF IInv, TypeOK, CommandInv, Timely, Dropped
  <2> QED
    BY <1>2, <2>1, CompactedRow
<1> HIDE DEF rows
<1>5. TypeOK'
  <2>1. journal' \in [Commands -> {"none", "executing", "rejected", "read",
                                   "result", "error", "uncertain"}]
    BY <1>1 DEF IInv, TypeOK, rows, Compacted
  <2> QED
    BY <1>1, <1>2, <2>1 DEF IInv, TypeOK, Told, Goes
<1>6. ASSUME NEW d \in Commands, d # c PROVE CommandInv(d)'
  <2>1. Same(d) /\ KeepsRow(d)
    BY <1>1, <1>2, <1>3, <1>6 DEF IInv, TypeOK, Same, KeepsRow, Goes
  <2> QED
    BY <1>6, <2>1, Bystander DEF IInv
<1>7. CommandInv(c)'
  <2> CommandInv(c) /\ TypeOK
    BY DEF IInv
  <2> USE <1>1, <1>2, <1>3, <1>4
  <2>1. Untouched(c)' /\ Timely(c)'
    BY DEF CommandInv, TypeOK, Untouched, Timely, Goes
  <2>2. c \notin Reads => RowInv(c)'
    BY DEF CommandInv, TypeOK, RowInv, Done, Goes
  <2>3. c \notin Reads => JobInv(c)' /\ PushedInv(c)'
    BY DEF CommandInv, TypeOK, RowInv, JobInv, PushedInv, Done, Told, Goes
  <2>4. c \in Reads => ReadInv(c)'
    BY DEF CommandInv, TypeOK, ReadInv, Told, Goes
  <2>5. AnswerInv(c)'
    BY DEF CommandInv, TypeOK, AnswerInv, Goes
  <2> QED
    BY <2>1, <2>2, <2>3, <2>4, <2>5 DEF CommandInv
<1> QED
  BY <1>5, <1>6, <1>7 DEF IInv

LEMMA ReadUnrecordedInv ==
    ASSUME IInv, NEW c \in Commands, ReadUnrecorded(c)
    PROVE  IInv'
<1> USE CommandAssumption DEF ReadUnrecorded, caller, room, job, history
<1>1. TypeOK'
  BY DEF IInv, TypeOK, Told, Compacted
<1>2. ASSUME NEW d \in Commands, d # c PROVE CommandInv(d)'
  <2>1. Same(d) /\ KeepsRow(d)
    BY <1>2, CompactedRow DEF IInv, TypeOK, Same, KeepsRow
  <2> QED
    BY <1>2, <2>1, Bystander DEF IInv
<1>3. CommandInv(c)'
  <2> CommandInv(c) /\ TypeOK
    BY DEF IInv
  <2>1. Untouched(c)' /\ Timely(c)'
    BY CompactedRow DEF CommandInv, TypeOK, Untouched, Timely, RowInv, Done, Dropped
  <2>2. c \notin Reads => RowInv(c)'
    BY CompactedRow DEF CommandInv, TypeOK, Untouched, Timely, RowInv, JobInv, PushedInv, Done, Dropped, Told
  <2>3. c \notin Reads => JobInv(c)' /\ PushedInv(c)'
    BY CompactedRow DEF CommandInv, TypeOK, Untouched, Timely, RowInv, JobInv, PushedInv, Done, Dropped, Told
  <2>4. c \in Reads => ReadInv(c)'
    BY CompactedRow DEF CommandInv, TypeOK, Untouched, ReadInv, Told
  <2>5. AnswerInv(c)'
    BY CompactedRow DEF CommandInv, TypeOK, Untouched, AnswerInv, RowInv, JobInv, PushedInv, ReadInv, Done
  <2> QED
    BY <2>1, <2>2, <2>3, <2>4, <2>5 DEF CommandInv
<1> QED
  BY <1>1, <1>2, <1>3 DEF IInv

LEMMA QueueFullInv ==
    ASSUME IInv, NEW c \in Commands, QueueFull(c)
    PROVE  IInv'
<1> USE CommandAssumption DEF QueueFull, caller, room, job, history, Ends
<1>1. TypeOK'
  BY DEF IInv, TypeOK, Told
<1>2. ASSUME NEW d \in Commands, d # c PROVE CommandInv(d)'
  <2>1. Same(d) /\ KeepsRow(d)
    BY <1>2 DEF IInv, TypeOK, Same, KeepsRow
  <2> QED
    BY <1>2, <2>1, Bystander DEF IInv
<1>3. CommandInv(c)'
  <2> CommandInv(c) /\ TypeOK
    BY DEF IInv
  <2>1. Untouched(c)' /\ Timely(c)'
    BY DEF CommandInv, TypeOK, Untouched, Timely, RowInv, Done, Dropped
  <2>2. c \notin Reads => RowInv(c)'
    BY DEF CommandInv, TypeOK, Untouched, Timely, RowInv, JobInv, PushedInv, Done, Dropped, Told
  <2>3. c \notin Reads => JobInv(c)' /\ PushedInv(c)'
    BY DEF CommandInv, TypeOK, Untouched, Timely, RowInv, JobInv, PushedInv, Done, Dropped, Told
  <2>4. c \in Reads => ReadInv(c)'
    BY DEF CommandInv, TypeOK, Untouched, ReadInv, Told
  <2>5. AnswerInv(c)'
    BY DEF CommandInv, TypeOK, Untouched, AnswerInv, RowInv, JobInv, PushedInv, ReadInv, Done
  <2> QED
    BY <2>1, <2>2, <2>3, <2>4, <2>5 DEF CommandInv
<1> QED
  BY <1>1, <1>2, <1>3 DEF IInv

LEMMA ReserveAgainInv ==
    ASSUME IInv, NEW c \in Commands, ReserveAgain(c)
    PROVE  IInv'
<1> USE CommandAssumption DEF ReserveAgain, caller, room, job, history, Goes
<1>1. TypeOK'
  BY DEF IInv, TypeOK, Told, Compacted
<1>2. ASSUME NEW d \in Commands, d # c PROVE CommandInv(d)'
  <2>1. Same(d) /\ KeepsRow(d)
    BY <1>2, CompactedRow DEF IInv, TypeOK, Same, KeepsRow
  <2> QED
    BY <1>2, <2>1, Bystander DEF IInv
<1>3. CommandInv(c)'
  <2> CommandInv(c) /\ TypeOK
    BY DEF IInv
  <2>1. Untouched(c)' /\ Timely(c)'
    BY CompactedRow DEF CommandInv, TypeOK, Untouched, Timely, RowInv, Done, Dropped
  <2>2. c \notin Reads => RowInv(c)'
    BY CompactedRow DEF CommandInv, TypeOK, Untouched, Timely, RowInv, JobInv, PushedInv, Done, Dropped, Told
  <2>3. c \notin Reads => JobInv(c)' /\ PushedInv(c)'
    BY CompactedRow DEF CommandInv, TypeOK, Untouched, Timely, RowInv, JobInv, PushedInv, Done, Dropped, Told
  <2>4. c \in Reads => ReadInv(c)'
    BY CompactedRow DEF CommandInv, TypeOK, Untouched, ReadInv, Told
  <2>5. AnswerInv(c)'
    BY CompactedRow DEF CommandInv, TypeOK, Untouched, AnswerInv, RowInv, JobInv, PushedInv, ReadInv, Done
  <2> QED
    BY <2>1, <2>2, <2>3, <2>4, <2>5 DEF CommandInv
<1> QED
  BY <1>1, <1>2, <1>3 DEF IInv

LEMMA RunInv ==
    ASSUME IInv, NEW c \in Commands, Run(c)
    PROVE  IInv'
<1> USE CommandAssumption DEF Run, caller, room, job, history, Goes
<1>1. TypeOK'
  BY DEF IInv, TypeOK, Told
<1>2. ASSUME NEW d \in Commands, d # c PROVE CommandInv(d)'
  <2>1. Same(d) /\ KeepsRow(d)
    BY <1>2 DEF IInv, TypeOK, Same, KeepsRow
  <2> QED
    BY <1>2, <2>1, Bystander DEF IInv
<1>3. CommandInv(c)'
  <2> CommandInv(c) /\ TypeOK
    BY DEF IInv
  <2>1. Untouched(c)' /\ Timely(c)'
    BY DEF CommandInv, TypeOK, Untouched, Timely, RowInv, Done, Dropped
  <2>2. c \notin Reads => RowInv(c)'
    BY DEF CommandInv, TypeOK, Untouched, Timely, RowInv, JobInv, PushedInv, Done, Dropped, Told
  <2>3. c \notin Reads => JobInv(c)' /\ PushedInv(c)'
    BY DEF CommandInv, TypeOK, Untouched, Timely, RowInv, JobInv, PushedInv, Done, Dropped, Told
  <2>4. c \in Reads => ReadInv(c)'
    BY DEF CommandInv, TypeOK, Untouched, ReadInv, Told
  <2>5. AnswerInv(c)'
    BY DEF CommandInv, TypeOK, Untouched, AnswerInv, RowInv, JobInv, PushedInv, ReadInv, Done
  <2> QED
    BY <2>1, <2>2, <2>3, <2>4, <2>5 DEF CommandInv
<1> QED
  BY <1>1, <1>2, <1>3 DEF IInv

LEMMA RunRevokedInv ==
    ASSUME IInv, NEW c \in Commands, RunRevoked(c)
    PROVE  IInv'
<1> USE CommandAssumption DEF RunRevoked, caller, room, job, history, Goes
<1>1. TypeOK'
  BY DEF IInv, TypeOK, Told
<1>2. ASSUME NEW d \in Commands, d # c PROVE CommandInv(d)'
  <2>1. Same(d) /\ KeepsRow(d)
    BY <1>2 DEF IInv, TypeOK, Same, KeepsRow
  <2> QED
    BY <1>2, <2>1, Bystander DEF IInv
<1>3. CommandInv(c)'
  <2> CommandInv(c) /\ TypeOK
    BY DEF IInv
  <2>1. Untouched(c)' /\ Timely(c)'
    BY DEF CommandInv, TypeOK, Untouched, Timely, RowInv, Done, Dropped
  <2>2. c \notin Reads => RowInv(c)'
    BY DEF CommandInv, TypeOK, Untouched, Timely, RowInv, JobInv, PushedInv, Done, Dropped, Told
  <2>3. c \notin Reads => JobInv(c)' /\ PushedInv(c)'
    BY DEF CommandInv, TypeOK, Untouched, Timely, RowInv, JobInv, PushedInv, Done, Dropped, Told
  <2>4. c \in Reads => ReadInv(c)'
    BY DEF CommandInv, TypeOK, Untouched, ReadInv, Told
  <2>5. AnswerInv(c)'
    BY DEF CommandInv, TypeOK, Untouched, AnswerInv, RowInv, JobInv, PushedInv, ReadInv, Done
  <2> QED
    BY <2>1, <2>2, <2>3, <2>4, <2>5 DEF CommandInv
<1> QED
  BY <1>1, <1>2, <1>3 DEF IInv

LEMMA CommitInv ==
    ASSUME IInv, NEW c \in Commands, Commit(c)
    PROVE  IInv'
<1> USE CommandAssumption DEF Commit, caller, room, job, history, Goes
<1> DEFINE row == IF c \in Reads THEN "read" ELSE reply[c]
<1>0. row \in {"read", "result", "error", "uncertain"}
  BY DEF IInv, CommandInv, JobInv, Done
<1>1. TypeOK'
  <2>1. journal' \in [Commands -> {"none", "executing", "rejected", "read",
                                   "result", "error", "uncertain"}]
    BY <1>0 DEF IInv, TypeOK, Compacted
  <2> QED
    BY <2>1 DEF IInv, TypeOK
<1>2. ASSUME NEW d \in Commands, d # c PROVE CommandInv(d)'
  <2>0. TypeOK
    BY DEF IInv
  <2>1. Same(d)
    BY <1>2, <2>0 DEF TypeOK, Same
  <2>3. journal'[d] = IF Dropped(d) THEN "none" ELSE journal[d]
    <3>1. [journal EXCEPT ![c] = row][d] = journal[d]
      BY <1>2, <2>0 DEF TypeOK
    <3> QED BY <3>1, CompactedRow
  <2>4. KeepsRow(d)
    BY <2>3 DEF KeepsRow
  <2> QED
    BY <1>2, <2>1, <2>4, Bystander DEF IInv
<1>3. CommandInv(c)'
  <2> CommandInv(c) /\ TypeOK
    BY DEF IInv
  <2>0. journal'[c] = IF Dropped(c) THEN "none" ELSE row
    BY DEF TypeOK, Compacted, Dropped
  <2> HIDE DEF Compacted
  <2>1. Untouched(c)' /\ Timely(c)'
    BY CompactedRow DEF CommandInv, TypeOK, Untouched, Timely, RowInv, Done, Dropped
  <2>2. c \notin Reads => RowInv(c)'
    BY <2>0 DEF CommandInv, TypeOK, Untouched, Timely, RowInv, JobInv, PushedInv, Done, Dropped, Told
  <2>3. c \notin Reads => JobInv(c)' /\ PushedInv(c)'
    BY <2>0 DEF CommandInv, TypeOK, Untouched, Timely, RowInv, JobInv, PushedInv, Done, Dropped, Told
  <2>4. c \in Reads => ReadInv(c)'
    BY CompactedRow DEF CommandInv, TypeOK, Untouched, ReadInv, Told
  <2>5. AnswerInv(c)'
    BY CompactedRow DEF CommandInv, TypeOK, Untouched, AnswerInv, RowInv, JobInv, PushedInv, ReadInv, Done
  <2> QED
    BY <2>1, <2>2, <2>3, <2>4, <2>5 DEF CommandInv
<1> QED
  BY <1>1, <1>2, <1>3 DEF IInv

LEMMA PushInv ==
    ASSUME IInv, NEW c \in Commands, Push(c)
    PROVE  IInv'
<1> USE CommandAssumption DEF Push, caller, room, job, history, Goes
<1>1. TypeOK'
  <2>1. reply[c] \in Told
    BY DEF IInv, CommandInv, JobInv, ReadInv
  <2> QED
    BY <2>1 DEF IInv, TypeOK
<1>2. ASSUME NEW d \in Commands, d # c PROVE CommandInv(d)'
  <2>1. Same(d) /\ KeepsRow(d)
    BY <1>2 DEF IInv, TypeOK, Same, KeepsRow
  <2> QED
    BY <1>2, <2>1, Bystander DEF IInv
<1>3. CommandInv(c)'
  <2> CommandInv(c) /\ TypeOK
    BY DEF IInv
  <2>1. Untouched(c)' /\ Timely(c)'
    BY DEF CommandInv, TypeOK, Untouched, Timely, RowInv, Done, Dropped
  <2>2. c \notin Reads => RowInv(c)'
    BY DEF CommandInv, TypeOK, Untouched, Timely, RowInv, JobInv, PushedInv, Done, Dropped, Told
  <2>3. c \notin Reads => JobInv(c)' /\ PushedInv(c)'
    BY DEF CommandInv, TypeOK, Untouched, Timely, RowInv, JobInv, PushedInv, Done, Dropped, Told
  <2>4. c \in Reads => ReadInv(c)'
    BY DEF CommandInv, TypeOK, Untouched, ReadInv, Told
  <2>5. AnswerInv(c)'
    BY DEF CommandInv, TypeOK, Untouched, AnswerInv, RowInv, JobInv, PushedInv, ReadInv, Done
  <2> QED
    BY <2>1, <2>2, <2>3, <2>4, <2>5 DEF CommandInv
<1> QED
  BY <1>1, <1>2, <1>3 DEF IInv

LEMMA CleanInv ==
    ASSUME IInv, NEW c \in Commands, Clean(c)
    PROVE  IInv'
<1> USE CommandAssumption DEF Clean, caller, room, job, history, Ends
<1>1. TypeOK'
  BY DEF IInv, TypeOK, Told
<1>2. ASSUME NEW d \in Commands, d # c PROVE CommandInv(d)'
  <2>1. Same(d) /\ KeepsRow(d)
    BY <1>2 DEF IInv, TypeOK, Same, KeepsRow
  <2> QED
    BY <1>2, <2>1, Bystander DEF IInv
<1>3. CommandInv(c)'
  <2> CommandInv(c) /\ TypeOK
    BY DEF IInv
  <2>1. Untouched(c)' /\ Timely(c)'
    BY DEF CommandInv, TypeOK, Untouched, Timely, RowInv, Done, Dropped
  <2>2. c \notin Reads => RowInv(c)'
    BY DEF CommandInv, TypeOK, Untouched, Timely, RowInv, JobInv, PushedInv, Done, Dropped, Told
  <2>3. c \notin Reads => JobInv(c)' /\ PushedInv(c)'
    BY DEF CommandInv, TypeOK, Untouched, Timely, RowInv, JobInv, PushedInv, Done, Dropped, Told
  <2>4. c \in Reads => ReadInv(c)'
    BY DEF CommandInv, TypeOK, Untouched, ReadInv, Told
  <2>5. AnswerInv(c)'
    BY DEF CommandInv, TypeOK, Untouched, AnswerInv, RowInv, JobInv, PushedInv, ReadInv, Done
  <2> QED
    BY <2>1, <2>2, <2>3, <2>4, <2>5 DEF CommandInv
<1> QED
  BY <1>1, <1>2, <1>3 DEF IInv

LEMMA FailInv ==
    ASSUME IInv, NEW c \in Commands, Fail(c)
    PROVE  IInv'
<1> USE CommandAssumption DEF Fail, caller, room, job, history, Ends
<1>1. TypeOK'
  BY DEF IInv, TypeOK, Told
<1>2. ASSUME NEW d \in Commands, d # c PROVE CommandInv(d)'
  <2>1. Same(d) /\ KeepsRow(d)
    BY <1>2 DEF IInv, TypeOK, Same, KeepsRow
  <2> QED
    BY <1>2, <2>1, Bystander DEF IInv
<1>3. CommandInv(c)'
  <2> CommandInv(c) /\ TypeOK
    BY DEF IInv
  <2>1. Untouched(c)' /\ Timely(c)'
    BY DEF CommandInv, TypeOK, Untouched, Timely, RowInv, Done, Dropped
  <2>2. c \notin Reads => RowInv(c)'
    BY DEF CommandInv, TypeOK, Untouched, Timely, RowInv, JobInv, PushedInv, Done, Dropped, Told
  <2>3. c \notin Reads => JobInv(c)' /\ PushedInv(c)'
    BY DEF CommandInv, TypeOK, Untouched, Timely, RowInv, JobInv, PushedInv, Done, Dropped, Told
  <2>4. c \in Reads => ReadInv(c)'
    BY DEF CommandInv, TypeOK, Untouched, ReadInv, Told
  <2>5. AnswerInv(c)'
    BY DEF CommandInv, TypeOK, Untouched, AnswerInv, RowInv, JobInv, PushedInv, ReadInv, Done
  <2> QED
    BY <2>1, <2>2, <2>3, <2>4, <2>5 DEF CommandInv
<1> QED
  BY <1>1, <1>2, <1>3 DEF IInv

LEMMA RelayFaultInv ==
    ASSUME IInv, NEW c \in Commands, RelayFault(c)
    PROVE  IInv'
<1> USE CommandAssumption DEF RelayFault, caller, room, job, history
<1>1. TypeOK'
  BY DEF IInv, TypeOK, Told
<1>2. ASSUME NEW d \in Commands, d # c PROVE CommandInv(d)'
  <2>1. Same(d) /\ KeepsRow(d)
    BY <1>2 DEF IInv, TypeOK, Same, KeepsRow
  <2> QED
    BY <1>2, <2>1, Bystander DEF IInv
<1>3. CommandInv(c)'
  <2> CommandInv(c) /\ TypeOK
    BY DEF IInv
  <2>1. Untouched(c)' /\ Timely(c)'
    BY DEF CommandInv, TypeOK, Untouched, Timely, RowInv, Done, Dropped
  <2>2. c \notin Reads => RowInv(c)'
    BY DEF CommandInv, TypeOK, Untouched, Timely, RowInv, JobInv, PushedInv, Done, Dropped, Told
  <2>3. c \notin Reads => JobInv(c)' /\ PushedInv(c)'
    BY DEF CommandInv, TypeOK, Untouched, Timely, RowInv, JobInv, PushedInv, Done, Dropped, Told
  <2>4. c \in Reads => ReadInv(c)'
    BY DEF CommandInv, TypeOK, Untouched, ReadInv, Told
  <2>5. AnswerInv(c)'
    BY DEF CommandInv, TypeOK, Untouched, AnswerInv, RowInv, JobInv, PushedInv, ReadInv, Done
  <2> QED
    BY <2>1, <2>2, <2>3, <2>4, <2>5 DEF CommandInv
<1> QED
  BY <1>1, <1>2, <1>3 DEF IInv

LEMMA RestartInv == IInv /\ Restart => IInv'
<1> SUFFICES ASSUME IInv, Restart PROVE IInv'
  OBVIOUS
<1> USE DEF Restart, caller, room, job, history
<1>1. TypeOK'
  BY DEF IInv, TypeOK, Told
<1>2. ASSUME NEW c \in Commands PROVE CommandInv(c)'
  BY <1>2 DEF IInv, TypeOK, CommandInv, Untouched, Timely, RowInv, Dropped, Done,
     JobInv, PushedInv, ReadInv, AnswerInv
<1> QED
  BY <1>1, <1>2 DEF IInv

LEMMA TickInv == IInv /\ Tick => IInv'
<1> SUFFICES ASSUME IInv, Tick PROVE IInv'
  OBVIOUS
<1> USE CommandAssumption DEF Tick, caller, room, job, history
<1>1. TypeOK'
  BY DEF IInv, TypeOK, Told
<1>2. ASSUME NEW c \in Commands PROVE CommandInv(c)'
  BY <1>2 DEF IInv, TypeOK, CommandInv, Untouched, Timely, RowInv, Dropped, Done,
     JobInv, PushedInv, ReadInv, AnswerInv
<1> QED
  BY <1>1, <1>2 DEF IInv

LEMMA RevokePeerInv == IInv /\ (RevokePeer \/ UNCHANGED vars) => IInv'
<1> SUFFICES ASSUME IInv, RevokePeer \/ UNCHANGED vars PROVE IInv'
  OBVIOUS
<1> USE DEF RevokePeer, vars, caller, room, job, history
<1>1. TypeOK'
  BY DEF IInv, TypeOK, Told
<1>2. ASSUME NEW c \in Commands PROVE CommandInv(c)'
  BY <1>2, Bystander DEF IInv, Same, KeepsRow
<1> QED
  BY <1>1, <1>2 DEF IInv

LEMMA StepInv ==
    ASSUME MaxStall <= MessageTtl
    PROVE  IInv /\ [Next]_vars => IInv'
BY CallInv, CallUnansweredInv, PushAgainInv, ReceiveInv, GiveUpInv, OpenInv,
   ReserveNewInv, ReadUnrecordedInv, QueueFullInv, ReserveAgainInv, RunInv,
   RunRevokedInv, CommitInv, PushInv, CleanInv, FailInv, RelayFaultInv,
   RestartInv, TickInv, RevokePeerInv
   DEF Next, CallerStep, JobStep

LEMMA Inductive ==
    ASSUME MaxStall <= MessageTtl
    PROVE  Spec => []IInv
BY InitInv, StepInv, PTL DEF Spec

-----------------------------------------------------------------------------

\* Every variable of the journal keeps its type.
THEOREM JournalTypeCorrect == ASSUME MaxStall <= MessageTtl PROVE Spec => []TypeOK
<1>1. IInv => TypeOK
  BY DEF IInv
<1> QED
  BY <1>1, Inductive, PTL

\* A command that changes something is dispatched at most once, through every
\* repeated delivery, failed write and restart, if no command is reserved later
\* than a message's life after it was opened.
THEOREM DispatchedOnce == ASSUME MaxStall <= MessageTtl PROVE Spec => []RunsOnce
<1>1. IInv => RunsOnce
  BY DEF IInv, CommandInv, PushedInv, RunsOnce
<1> QED
  BY <1>1, Inductive, PTL

\* Nobody is ever told two different things of one such command.
THEOREM ToldOnce == ASSUME MaxStall <= MessageTtl PROVE Spec => []OneAnswer
<1>1. IInv => OneAnswer
  <2> SUFFICES ASSUME IInv, NEW c \in Commands \ Reads
               PROVE  Cardinality(pushed[c]) <= 1
    BY DEF OneAnswer
  <2>1. \A a, b \in pushed[c] : a = b
    BY DEF IInv, CommandInv, PushedInv
  <2>2. CASE pushed[c] = {}
    BY <2>2, FS_EmptySet
  <2>3. CASE pushed[c] # {}
    <3>1. PICK a \in pushed[c] : TRUE
      BY <2>3
    <3>2. pushed[c] = {a}
      BY <2>1, <3>1
    <3> QED
      <4>1. Cardinality({a}) = 1
        BY FS_Singleton, Zenon
      <4> QED
        BY <3>2, <4>1
  <2> QED
    BY <2>2, <2>3
<1> QED
  BY <1>1, Inductive, PTL

\* A step of the journal is a step of the service it promises, or none.
LEMMA ServiceStep ==
    ASSUME IInv, [Next]_vars
    PROVE  [Service!Next]_<<runs, answer>>
<1> USE DEF Service!Next, Service!Run, Service!Answer, Service!Answers, caller,
        room, job, history
<1>1. CASE UNCHANGED vars
  BY <1>1 DEF vars
<1>2. CASE Restart \/ Tick \/ RevokePeer
  BY <1>2 DEF Restart, Tick, RevokePeer
<1>3. ASSUME NEW c \in Commands, CallerStep(c) PROVE [Service!Next]_<<runs, answer>>
  <2>1. CASE Receive(c)
    <3>1. Service!Answer(c, responses[c]) /\ responses[c] \in Service!Answers
      BY <2>1 DEF Receive, IInv, TypeOK, Told, CommandInv, AnswerInv, PushedInv
    <3> QED
      BY <3>1
  <2>2. CASE GiveUp(c)
    <3>1. Service!Answer(c, "uncertain")
      BY <2>2 DEF GiveUp, IInv, TypeOK, CommandInv, AnswerInv
    <3> QED
      BY <3>1
  <2>3. CASE Call(c) \/ CallUnanswered(c) \/ PushAgain(c)
    BY <2>3 DEF Call, CallUnanswered, PushAgain
  <2> QED
    BY <1>3, <2>1, <2>2, <2>3 DEF CallerStep
<1>4. ASSUME NEW c \in Commands, JobStep(c) PROVE [Service!Next]_<<runs, answer>>
  <2>1. CASE Run(c)
    <3>1. answer[c] # "refused"
      BY <2>1 DEF Run, IInv, CommandInv, JobInv, AnswerInv
    <3>2. c \in Reads \/ runs[c] = 0
      BY <2>1 DEF Run, IInv, CommandInv, JobInv
    <3>3. runs' = [runs EXCEPT ![c] = 1]
      <4>1. runs' = [runs EXCEPT ![c] = IF c \in Reads THEN 1 ELSE runs[c] + 1]
        BY <2>1 DEF Run
      <4>2. c \notin Reads => runs[c] + 1 = 1
        BY <3>2
      <4> QED
        BY <4>1, <4>2
    <3>4. UNCHANGED answer
      BY <2>1 DEF Run
    <3> QED
      BY <3>1, <3>2, <3>3, <3>4
  <2>2. CASE ~Run(c)
    BY <1>4, <2>2 DEF JobStep, ReserveNew, ReadUnrecorded, QueueFull, ReserveAgain,
       RunRevoked, Commit, Push, Clean
  <2> QED
    BY <2>1, <2>2
<1>5. ASSUME NEW c \in Commands, Open(c) \/ Fail(c) \/ RelayFault(c)
      PROVE  [Service!Next]_<<runs, answer>>
  BY <1>5 DEF Open, Fail, RelayFault
<1> QED
  BY <1>1, <1>2, <1>3, <1>4, <1>5 DEF Next

\* The journal implements the service: at most one execution, results only of
\* what ran, and a refused command never runs.
THEOREM ServiceImplemented == ASSUME MaxStall <= MessageTtl PROVE Spec => ImplementsService
<1>1. Init => Service!Init
  BY DEF Init, Service!Init
<1>2. IInv /\ [Next]_vars => [Service!Next]_<<runs, answer>>
  BY ServiceStep
<1> QED
  BY <1>1, <1>2, Inductive, PTL DEF Spec, ImplementsService, Service!Spec, Service!vars
=============================================================================
