---------------------------- MODULE SourceProofs ----------------------------
(***************************************************************************)
(* Proofs about the source, one part of MCSource after the other: its      *)
(* publishing, its session cookies, and pairing.  They hold for any sets   *)
(* of devices, contents, cookies and invitations and for any bounds.  As   *)
(* the parts share no state, what is proved of a part holds in MCSpec      *)
(* (PartsAreFollowed).                                                     *)
(*                                                                         *)
(* None of the properties is inductive alone.  What makes those of         *)
(* publishing so is where the pending file stands relative to the chain:   *)
(* its counter is that of the chain (a push is due) or one more (a run     *)
(* stopped between the two writes, and nothing of it was sent), and a      *)
(* ciphertext that was sent under the pending counter is the pending one.  *)
(***************************************************************************)
EXTENDS MCSource, FiniteSetTheorems, TLAPS

\* A behaviour of the composition is one of each part.
LEMMA PartsAreFollowed == MCSpec => Spec /\ Recovery!Spec /\ Ceremony!Spec
<1>1. MCInit => Init /\ Recovery!Init /\ Ceremony!Init
  BY DEF MCInit
<1>2. [MCNext]_<<part, vars, recoveryVars, pairingVars>> =>
        /\ [Next]_vars
        /\ [Recovery!Next]_(Recovery!vars)
        /\ [Ceremony!Next]_(Ceremony!vars)
  <2>1. recoveryVars' = recoveryVars <=> Recovery!vars' = Recovery!vars
    BY DEF recoveryVars, Recovery!vars
  <2>2. pairingVars' = pairingVars <=> Ceremony!vars' = Ceremony!vars
    BY DEF pairingVars, Ceremony!vars
  <2> QED BY <2>1, <2>2 DEF MCNext
<1> QED BY <1>1, <1>2, PTL DEF MCSpec, Spec, Recovery!Spec, Ceremony!Spec

-----------------------------------------------------------------------------
(* Publishing (SourcePublish).                                              *)

\* The control state: what the holder of the lock may rely on.
AtChannel == pc \in {"channel", "advance", "push", "ack", "clean"}

ControlInv ==
    /\ todo \subseteq paired
    /\ pc \in {"idle", "revoking"} => todo = {}
    /\ paired \cap revoked = {}
    /\ pc \notin {"idle", "revoking"} => cookies \in Contents
    /\ AtChannel => cur \in paired
    /\ pc = "revoking" => cur \in revoked

\* The pending file of the receiver the run is at.
RunInv ==
    /\ pc = "advance" => /\ pending[cur] # None
                         /\ pending[cur].counter = counter[cur] + 1
    /\ pc \in {"push", "ack", "clean"} => /\ pending[cur] # None
                                          /\ pending[cur].counter = counter[cur]
    /\ pc \in {"ack", "clean"} => pending[cur] \in stored[cur]
    /\ pc = "clean" => /\ acked[cur].hash = pending[cur].cookies
                       /\ acked[cur].pushedAt = pending[cur].createdAt

FreshInv ==
    \A d \in Devices \ (paired \cup revoked) :
        counter[d] = 0 /\ acked[d].hash = None

PendingInv ==
    \A d \in Devices : pending[d] # None =>
        /\ pending[d].counter \in {counter[d], counter[d] + 1}
        /\ pending[d].counter > 0
        /\ \A b \in emitted[d] : b.counter = pending[d].counter => b = pending[d]

StoredInv == \A d \in Devices : stored[d] \subseteq emitted[d]

PublishInv ==
    /\ TypeOK
    /\ ControlInv
    /\ RunInv
    /\ FreshInv
    /\ PendingInv
    /\ StoredInv
    /\ CounterNamesOneSnapshot
    /\ ChainErasedFirst
    /\ NewestNotLost
    /\ SkipIsSafe

LEMMA PublishInit == Init => PublishInv
<1>1. Init => TypeOK
  BY CountsAssumption DEF Init, TypeOK, PcValues
<1>2. Init => /\ ControlInv /\ RunInv /\ FreshInv /\ PendingInv /\ StoredInv
  BY DEF Init, ControlInv, AtChannel, RunInv, FreshInv, PendingInv, StoredInv
<1>3. Init => /\ CounterNamesOneSnapshot /\ ChainErasedFirst /\ NewestNotLost
              /\ SkipIsSafe
  BY DEF Init, CounterNamesOneSnapshot, ChainErasedFirst, NewestNotLost,
     SkipIsSafe
<1> QED
  BY <1>1, <1>2, <1>3 DEF PublishInv

LEMMA PublishStep == PublishInv /\ [Next]_vars => PublishInv'
<1> SUFFICES ASSUME PublishInv, [Next]_vars PROVE PublishInv'
  OBVIOUS
<1> USE NoneAssumption DEF PublishInv
<1>1. ASSUME NEW d \in Devices, Approve(d) PROVE PublishInv'
  <2>1. TypeOK' /\ ControlInv'
    BY <1>1 DEF Approve, TypeOK, Blob, ControlInv, AtChannel, RunInv, PcValues
  <2>2. /\ RunInv' /\ FreshInv' /\ StoredInv' /\ PendingInv'
        /\ CounterNamesOneSnapshot' /\ ChainErasedFirst' /\ NewestNotLost'
        /\ SkipIsSafe'
    BY <1>1 DEF Approve, TypeOK, Blob, ControlInv, AtChannel, RunInv,
       FreshInv, StoredInv, PendingInv,
       CounterNamesOneSnapshot, ChainErasedFirst, NewestNotLost, SkipIsSafe
  <2> QED
    BY <2>1, <2>2
<1>2. ASSUME NEW d \in Devices, Revoke(d) PROVE PublishInv'
  <2>1. TypeOK' /\ ControlInv'
    BY <1>2 DEF Revoke, TypeOK, Blob, ControlInv, AtChannel, RunInv, PcValues
  <2>2. /\ RunInv' /\ FreshInv' /\ StoredInv' /\ PendingInv'
        /\ CounterNamesOneSnapshot' /\ ChainErasedFirst' /\ NewestNotLost'
        /\ SkipIsSafe'
    BY <1>2 DEF Revoke, TypeOK, Blob, ControlInv, AtChannel, RunInv, FreshInv,
       StoredInv, PendingInv,
       CounterNamesOneSnapshot, ChainErasedFirst, NewestNotLost, SkipIsSafe
  <2> QED
    BY <2>1, <2>2
<1>3. ASSUME DropRevokedPending PROVE PublishInv'
  <2>1. TypeOK' /\ ControlInv'
    BY <1>3 DEF DropRevokedPending, TypeOK, Blob, ControlInv, AtChannel,
       RunInv, PcValues
  <2>2. RunInv' /\ FreshInv' /\ StoredInv'
    BY <1>3 DEF DropRevokedPending, TypeOK, Blob, ControlInv, AtChannel,
       RunInv, FreshInv, StoredInv
  <2>3. PendingInv'
    BY <1>3 DEF DropRevokedPending, TypeOK, Blob, ControlInv, AtChannel,
       RunInv, FreshInv, StoredInv, PendingInv
  <2>4. CounterNamesOneSnapshot' /\ ChainErasedFirst'
    BY <1>3 DEF DropRevokedPending, TypeOK, Blob, ControlInv, AtChannel,
       RunInv, PendingInv, CounterNamesOneSnapshot,
       ChainErasedFirst
  <2>5. NewestNotLost' /\ SkipIsSafe'
    BY <1>3 DEF DropRevokedPending, TypeOK, Blob, ControlInv, AtChannel,
       RunInv, PendingInv, NewestNotLost,
       SkipIsSafe
  <2> QED
    BY <2>1, <2>2, <2>3, <2>4, <2>5
<1>4. ASSUME NEW s \in Contents, Begin(s) PROVE PublishInv'
  <2>1. TypeOK' /\ ControlInv'
    BY <1>4 DEF Begin, TypeOK, Blob, ControlInv, AtChannel, RunInv, PcValues
  <2>2. /\ RunInv' /\ FreshInv' /\ StoredInv' /\ PendingInv'
        /\ CounterNamesOneSnapshot' /\ ChainErasedFirst' /\ NewestNotLost'
        /\ SkipIsSafe'
    BY <1>4 DEF Begin, TypeOK, Blob, ControlInv, AtChannel, RunInv, FreshInv,
       StoredInv, PendingInv,
       CounterNamesOneSnapshot, ChainErasedFirst, NewestNotLost, SkipIsSafe
  <2> QED
    BY <2>1, <2>2
<1>5. ASSUME NEW d \in Devices, NextChannel(d) PROVE PublishInv'
  <2>1. TypeOK' /\ ControlInv'
    BY <1>5 DEF NextChannel, TypeOK, Blob, ControlInv, AtChannel, RunInv,
       PcValues
  <2>2. /\ RunInv' /\ FreshInv' /\ StoredInv' /\ PendingInv'
        /\ CounterNamesOneSnapshot' /\ ChainErasedFirst' /\ NewestNotLost'
        /\ SkipIsSafe'
    BY <1>5 DEF NextChannel, TypeOK, Blob, ControlInv, AtChannel, RunInv,
       FreshInv, StoredInv, PendingInv,
       CounterNamesOneSnapshot, ChainErasedFirst, NewestNotLost, SkipIsSafe
  <2> QED
    BY <2>1, <2>2
<1>6. ASSUME DiscardStale PROVE PublishInv'
  <2>1. TypeOK' /\ ControlInv'
    BY <1>6 DEF DiscardStale, TypeOK, Blob, ControlInv, AtChannel, RunInv,
       PcValues
  <2>2. RunInv' /\ FreshInv' /\ StoredInv'
    BY <1>6 DEF DiscardStale, TypeOK, Blob, ControlInv, AtChannel, RunInv,
       FreshInv, StoredInv
  <2>3. PendingInv'
    BY <1>6 DEF DiscardStale, TypeOK, Blob, ControlInv, AtChannel, RunInv,
       FreshInv, StoredInv, PendingInv
  <2>4. CounterNamesOneSnapshot' /\ ChainErasedFirst'
    BY <1>6 DEF DiscardStale, TypeOK, Blob, ControlInv, AtChannel, RunInv,
       PendingInv, CounterNamesOneSnapshot,
       ChainErasedFirst
  <2>5. NewestNotLost' /\ SkipIsSafe'
    BY <1>6 DEF DiscardStale, TypeOK, Blob, ControlInv, AtChannel, RunInv,
       PendingInv, NewestNotLost,
       SkipIsSafe
  <2> QED
    BY <2>1, <2>2, <2>3, <2>4, <2>5
<1>7. ASSUME SkipUnchanged PROVE PublishInv'
  <2>1. TypeOK' /\ ControlInv'
    BY <1>7 DEF SkipUnchanged, TypeOK, Blob, ControlInv, AtChannel, RunInv,
       PcValues
  <2>2. /\ RunInv' /\ FreshInv' /\ StoredInv' /\ PendingInv'
        /\ CounterNamesOneSnapshot' /\ ChainErasedFirst' /\ NewestNotLost'
        /\ SkipIsSafe'
    BY <1>7 DEF SkipUnchanged, TypeOK, Blob, ControlInv, AtChannel, RunInv,
       FreshInv, StoredInv, PendingInv,
       CounterNamesOneSnapshot, ChainErasedFirst, NewestNotLost, SkipIsSafe
  <2> QED
    BY <2>1, <2>2
<1>8. ASSUME WritePending PROVE PublishInv'
  <2>1. TypeOK' /\ ControlInv'
    BY <1>8 DEF WritePending, TypeOK, Blob, ControlInv, AtChannel, RunInv,
       PcValues
  <2>2. RunInv' /\ FreshInv' /\ StoredInv'
    BY <1>8 DEF WritePending, TypeOK, Blob, ControlInv, AtChannel, RunInv,
       FreshInv, StoredInv
  <2>3. PendingInv'
    BY <1>8 DEF WritePending, TypeOK, Blob, ControlInv, AtChannel, RunInv,
       FreshInv, StoredInv, PendingInv, ChainErasedFirst
  <2>4. CounterNamesOneSnapshot' /\ ChainErasedFirst'
    BY <1>8 DEF WritePending, TypeOK, Blob, ControlInv, AtChannel, RunInv,
       PendingInv, CounterNamesOneSnapshot,
       ChainErasedFirst
  <2>5. NewestNotLost' /\ SkipIsSafe'
    BY <1>8 DEF WritePending, TypeOK, Blob, ControlInv, AtChannel, RunInv,
       PendingInv, NewestNotLost,
       SkipIsSafe
  <2> QED
    BY <2>1, <2>2, <2>3, <2>4, <2>5
<1>9. ASSUME Advance PROVE PublishInv'
  <2>1. TypeOK' /\ ControlInv'
    BY <1>9 DEF Advance, TypeOK, Blob, ControlInv, AtChannel, RunInv, PcValues
  <2>2. RunInv' /\ FreshInv' /\ StoredInv'
    BY <1>9 DEF Advance, TypeOK, Blob, ControlInv, AtChannel, RunInv,
       FreshInv, StoredInv
  <2>3. PendingInv'
    BY <1>9 DEF Advance, TypeOK, Blob, ControlInv, AtChannel, RunInv,
       FreshInv, StoredInv, PendingInv
  <2>4. CounterNamesOneSnapshot' /\ ChainErasedFirst'
    BY <1>9 DEF Advance, TypeOK, Blob, ControlInv, AtChannel, RunInv,
       PendingInv, CounterNamesOneSnapshot,
       ChainErasedFirst
  <2>5. NewestNotLost' /\ SkipIsSafe'
    BY <1>9 DEF Advance, TypeOK, Blob, ControlInv, AtChannel, RunInv,
       PendingInv, NewestNotLost,
       SkipIsSafe
  <2> QED
    BY <2>1, <2>2, <2>3, <2>4, <2>5
<1>10. ASSUME RetryPending PROVE PublishInv'
  <2>1. TypeOK' /\ ControlInv'
    BY <1>10 DEF RetryPending, TypeOK, Blob, ControlInv, AtChannel, RunInv,
       PcValues
  <2>2. /\ RunInv' /\ FreshInv' /\ StoredInv' /\ PendingInv'
        /\ CounterNamesOneSnapshot' /\ ChainErasedFirst' /\ NewestNotLost'
        /\ SkipIsSafe'
    BY <1>10 DEF RetryPending, TypeOK, Blob, ControlInv, AtChannel, RunInv,
       FreshInv, StoredInv, PendingInv,
       CounterNamesOneSnapshot, ChainErasedFirst, NewestNotLost, SkipIsSafe
  <2> QED
    BY <2>1, <2>2
<1>11. ASSUME PushStored PROVE PublishInv'
  <2>1. TypeOK' /\ ControlInv'
    BY <1>11 DEF PushStored, Emit, TypeOK, Blob, ControlInv, AtChannel,
       RunInv, PcValues
  <2>2. RunInv' /\ FreshInv' /\ StoredInv'
    BY <1>11 DEF PushStored, Emit, TypeOK, Blob, ControlInv, AtChannel,
       RunInv, FreshInv, StoredInv
  <2>3. PendingInv'
    BY <1>11 DEF PushStored, Emit, TypeOK, Blob, ControlInv, AtChannel,
       RunInv, FreshInv, StoredInv, PendingInv
  <2>4. CounterNamesOneSnapshot' /\ ChainErasedFirst'
    BY <1>11 DEF PushStored, Emit, TypeOK, Blob, ControlInv, AtChannel,
       RunInv, PendingInv, CounterNamesOneSnapshot,
       ChainErasedFirst
  <2>5. NewestNotLost' /\ SkipIsSafe'
    BY <1>11 DEF PushStored, Emit, TypeOK, Blob, ControlInv, AtChannel,
       RunInv, PendingInv, NewestNotLost,
       SkipIsSafe
  <2> QED
    BY <2>1, <2>2, <2>3, <2>4, <2>5
<1>12. ASSUME RecordAck PROVE PublishInv'
  <2>1. TypeOK' /\ ControlInv'
    BY <1>12 DEF RecordAck, TypeOK, Blob, ControlInv, AtChannel, RunInv,
       PcValues
  <2>2. RunInv' /\ FreshInv' /\ StoredInv'
    BY <1>12 DEF RecordAck, TypeOK, Blob, ControlInv, AtChannel, RunInv,
       FreshInv, StoredInv
  <2>3. PendingInv'
    BY <1>12 DEF RecordAck, TypeOK, Blob, ControlInv, AtChannel, RunInv,
       FreshInv, StoredInv, PendingInv
  <2>4. CounterNamesOneSnapshot' /\ ChainErasedFirst'
    BY <1>12 DEF RecordAck, TypeOK, Blob, ControlInv, AtChannel, RunInv,
       PendingInv, CounterNamesOneSnapshot,
       ChainErasedFirst
  <2>5. NewestNotLost' /\ SkipIsSafe'
    BY <1>12 DEF RecordAck, TypeOK, Blob, ControlInv, AtChannel, RunInv,
       PendingInv, NewestNotLost,
       SkipIsSafe
  <2> QED
    BY <2>1, <2>2, <2>3, <2>4, <2>5
<1>13. ASSUME RemovePending PROVE PublishInv'
  <2>1. TypeOK' /\ ControlInv'
    BY <1>13 DEF RemovePending, TypeOK, Blob, ControlInv, AtChannel, RunInv,
       PcValues
  <2>2. RunInv' /\ FreshInv' /\ StoredInv'
    BY <1>13 DEF RemovePending, TypeOK, Blob, ControlInv, AtChannel, RunInv,
       FreshInv, StoredInv
  <2>3. PendingInv'
    BY <1>13 DEF RemovePending, TypeOK, Blob, ControlInv, AtChannel, RunInv,
       FreshInv, StoredInv, PendingInv
  <2>4. CounterNamesOneSnapshot' /\ ChainErasedFirst'
    BY <1>13 DEF RemovePending, TypeOK, Blob, ControlInv, AtChannel, RunInv,
       PendingInv, CounterNamesOneSnapshot,
       ChainErasedFirst
  <2>5. NewestNotLost' /\ SkipIsSafe'
    BY <1>13 DEF RemovePending, TypeOK, Blob, ControlInv, AtChannel, RunInv,
       PendingInv, NewestNotLost,
       SkipIsSafe
  <2> QED
    BY <2>1, <2>2, <2>3, <2>4, <2>5
<1>14. ASSUME Finish PROVE PublishInv'
  <2>1. TypeOK' /\ ControlInv'
    BY <1>14 DEF Finish, TypeOK, Blob, ControlInv, AtChannel, RunInv, PcValues
  <2>2. /\ RunInv' /\ FreshInv' /\ StoredInv' /\ PendingInv'
        /\ CounterNamesOneSnapshot' /\ ChainErasedFirst' /\ NewestNotLost'
        /\ SkipIsSafe'
    BY <1>14 DEF Finish, TypeOK, Blob, ControlInv, AtChannel, RunInv,
       FreshInv, StoredInv, PendingInv,
       CounterNamesOneSnapshot, ChainErasedFirst, NewestNotLost, SkipIsSafe
  <2> QED
    BY <2>1, <2>2
<1>15. ASSUME PushFailed PROVE PublishInv'
  <2>1. TypeOK' /\ ControlInv'
    BY <1>15 DEF PushFailed, Emit, TypeOK, Blob, ControlInv, AtChannel,
       RunInv, PcValues
  <2>2. RunInv' /\ FreshInv' /\ StoredInv'
    BY <1>15 DEF PushFailed, Emit, TypeOK, Blob, ControlInv, AtChannel,
       RunInv, FreshInv, StoredInv
  <2>3. PendingInv'
    BY <1>15 DEF PushFailed, Emit, TypeOK, Blob, ControlInv, AtChannel,
       RunInv, FreshInv, StoredInv, PendingInv
  <2>4. CounterNamesOneSnapshot' /\ ChainErasedFirst'
    BY <1>15 DEF PushFailed, Emit, TypeOK, Blob, ControlInv, AtChannel,
       RunInv, PendingInv, CounterNamesOneSnapshot,
       ChainErasedFirst
  <2>5. \A d \in Devices : stored[d] \subseteq stored'[d]
    BY <1>15 DEF PushFailed, TypeOK
  <2>6. NewestNotLost'
    BY <1>15, <2>5 DEF PushFailed, TypeOK, NewestNotLost
  <2>7. SkipIsSafe'
    BY <1>15, <2>5 DEF PushFailed, TypeOK, SkipIsSafe
  <2> QED
    BY <2>1, <2>2, <2>3, <2>4, <2>6, <2>7
<1>16. ASSUME Abort PROVE PublishInv'
  <2>1. TypeOK' /\ ControlInv'
    BY <1>16 DEF Abort, TypeOK, Blob, ControlInv, AtChannel, RunInv, PcValues
  <2>2. /\ RunInv' /\ FreshInv' /\ StoredInv' /\ PendingInv'
        /\ CounterNamesOneSnapshot' /\ ChainErasedFirst' /\ NewestNotLost'
        /\ SkipIsSafe'
    BY <1>16 DEF Abort, TypeOK, Blob, ControlInv, AtChannel, RunInv, FreshInv,
       StoredInv, PendingInv,
       CounterNamesOneSnapshot, ChainErasedFirst, NewestNotLost, SkipIsSafe
  <2> QED
    BY <2>1, <2>2
<1>17. ASSUME Tick PROVE PublishInv'
  <2>1. TypeOK' /\ ControlInv'
    BY <1>17 DEF Tick, TypeOK, Blob, ControlInv, AtChannel, RunInv, PcValues
  <2>2. /\ RunInv' /\ FreshInv' /\ StoredInv' /\ PendingInv'
        /\ CounterNamesOneSnapshot' /\ ChainErasedFirst' /\ NewestNotLost'
        /\ SkipIsSafe'
    BY <1>17 DEF Tick, TypeOK, Blob, ControlInv, AtChannel, RunInv, FreshInv,
       StoredInv, PendingInv,
       CounterNamesOneSnapshot, ChainErasedFirst, NewestNotLost, SkipIsSafe
  <2> QED
    BY <2>1, <2>2
<1>18. CASE UNCHANGED vars
  BY <1>18 DEF vars, TypeOK, ControlInv, AtChannel, RunInv, FreshInv,
     PendingInv, StoredInv, CounterNamesOneSnapshot, ChainErasedFirst,
     NewestNotLost, SkipIsSafe
<1> QED
  BY <1>1, <1>2, <1>3, <1>4, <1>5, <1>6, <1>7, <1>8, <1>9,
     <1>10, <1>11, <1>12, <1>13, <1>14, <1>15, <1>16, <1>17, <1>18 DEF Next,
        RunStep

-----------------------------------------------------------------------------

LEMMA Inductive == Spec => []PublishInv
<1> QED
  BY PublishInit, PublishStep, PTL DEF Spec

\* Every reachable state is well typed.
THEOREM TypeCorrect == Spec => []TypeOK
<1>1. PublishInv => TypeOK
  BY DEF PublishInv
<1> QED
  BY <1>1, Inductive, PTL

\* publishSnapshot never gives two snapshots the same counter of one chain.
THEOREM CounterUnique == Spec => []CounterNamesOneSnapshot
<1>1. PublishInv => CounterNamesOneSnapshot
  BY DEF PublishInv
<1> QED
  BY <1>1, Inductive, PTL

\* The vault is past the key of a ciphertext before the ciphertext is sent.
THEOREM ErasedBeforeSent == Spec => []ChainErasedFirst
<1>1. PublishInv => ChainErasedFirst
  BY DEF PublishInv
<1> QED
  BY <1>1, Inductive, PTL

\* A consumed counter is delivered or waits in the pending file.
THEOREM NothingLost == Spec => []NewestNotLost
<1>1. PublishInv => NewestNotLost
  BY DEF PublishInv
<1> QED
  BY <1>1, Inductive, PTL

\* What a run may skip as unchanged is what the relay holds newest.
THEOREM SkipCorrect == Spec => []SkipIsSafe
<1>1. PublishInv => SkipIsSafe
  BY DEF PublishInv
<1> QED
  BY <1>1, Inductive, PTL

LEMMA SilentStep ==
  PublishInv /\ [Next]_vars =>
    [\A d \in revoked : emitted'[d] = emitted[d] /\ counter'[d] = counter[d]]_vars
<1> SUFFICES ASSUME PublishInv, Next,
                    NEW d \in revoked
             PROVE  emitted'[d] = emitted[d] /\ counter'[d] = counter[d]
  OBVIOUS
<1>0. d # cur \/ ~AtChannel
  BY DEF PublishInv, ControlInv
<1>1. CASE \E e \in Devices : Approve(e) \/ Revoke(e) \/ NextChannel(e)
  BY <1>1 DEF Approve, Revoke, NextChannel
<1>2. CASE Advance \/ PushStored \/ PushFailed
  BY <1>0, <1>2 DEF Advance, PushStored, PushFailed, Emit, AtChannel, PublishInv,
     TypeOK
<1>3. CASE DropRevokedPending \/ (\E s \in Contents : Begin(s)) \/ DiscardStale
           \/ SkipUnchanged \/ WritePending \/ RetryPending
  BY <1>3 DEF DropRevokedPending, Begin, DiscardStale, SkipUnchanged,
     WritePending, RetryPending
<1>4. CASE RecordAck \/ RemovePending \/ Finish \/ Abort \/ Tick
  BY <1>4 DEF RecordAck, RemovePending, Finish, Abort, Tick
<1> QED
  BY <1>1, <1>2, <1>3, <1>4 DEF Next, RunStep

\* Once revoked, a receiver is never encrypted for or sent to again.
THEOREM RevokedSilent == Spec => RevokedIsSilent
<1> QED
  BY Inductive, SilentStep, PTL DEF Spec, RevokedIsSilent

LEMMA LedgerInit == Init => Ledger!Init
<1> QED
  BY DEF Init, Ledger!Init

LEMMA LedgerStep == PublishInv /\ [Next]_vars => [Ledger!Next]_emitted
<1> SUFFICES ASSUME PublishInv, [Next]_vars, emitted' # emitted
             PROVE  Ledger!Next
  OBVIOUS
<1>1. PushStored \/ PushFailed
  BY DEF Next, vars, RunStep, Approve, Revoke, DropRevokedPending, Begin,
     NextChannel, DiscardStale, SkipUnchanged, WritePending, Advance,
     RetryPending, RecordAck, RemovePending, Finish, Abort, Tick
<1>2. /\ pc = "push"
      /\ Emit
  BY <1>1 DEF PushStored, PushFailed
<1>3. /\ cur \in Devices
      /\ pending[cur] \in Blob
      /\ pending[cur].counter = counter[cur]
      /\ pending[cur].counter > 0
  BY <1>2 DEF PublishInv, TypeOK, ControlInv, AtChannel, RunInv, PendingInv
<1>4. /\ pending[cur] \notin emitted[cur]
      /\ emitted' = [emitted EXCEPT ![cur] = @ \cup {pending[cur]}]
      /\ pending[cur] \in emitted'[cur]
  BY <1>2, <1>3 DEF Emit, PublishInv, TypeOK
<1>5. \A old \in emitted[cur] : old.counter < pending[cur].counter
  <2> SUFFICES ASSUME NEW old \in emitted[cur]
               PROVE  old.counter < pending[cur].counter
    OBVIOUS
  <2>1. old \in Blob /\ old.counter <= counter[cur]
    BY <1>3 DEF PublishInv, TypeOK, ChainErasedFirst
  <2>2. old.counter # pending[cur].counter
    BY <1>3, <1>4, NoneAssumption DEF PublishInv, PendingInv
  <2>3. old.counter \in Nat /\ counter[cur] \in Nat
    BY <1>3, <2>1 DEF Blob, PublishInv, TypeOK
  <2> QED
    BY <1>3, <2>1, <2>2, <2>3
<1>6. Ledger!Append(cur, pending[cur])
  BY <1>3, <1>4, <1>5 DEF Ledger!Append, Ledger!Entry, Blob
<1> QED
  BY <1>3, <1>4, <1>6 DEF Ledger!Next

\* The writer implements the ledger.
THEOREM LedgerImplemented == Spec => ImplementsLedger
<1> QED
  BY Inductive, LedgerInit, LedgerStep, PTL DEF Spec, ImplementsLedger,
     Ledger!Spec

-----------------------------------------------------------------------------
(* Restoring session cookies (SourceRecovery).                              *)

\* What Chrome lost and the backup holds is missing in Chrome, and no backup has
\* been taken from this Chrome process since.
OwedInv ==
    /\ client <= browser
    /\ recovery # None => recovery.browser <= browser
    /\ \A c \in owed : jar[c] = NoCookie
    /\ owed # {} =>
         /\ recovery # None
         /\ recovery.browser # browser
         /\ \A c \in owed : recovery.cookies[c] # NoCookie

\* What a run that is still connected has read does not have what is owed; and when
\* the run has nothing to restore, nothing is owed, or the backup is too old.
ReadInv ==
    /\ step \in {"restore", "reread", "save"} => raw \in Recovery!Jar
    /\ step = "restore" => recovery # None /\ recovery.browser # client
    /\ step \in {"restore", "reread", "save"} /\ client = browser =>
         \A c \in owed : raw[c] = NoCookie
    /\ step = "reread" /\ client = browser => owed = {}

RecoveryInv == Recovery!TypeOK /\ OwedInv /\ ReadInv /\ Recovery!RestartIsNoLogout

-----------------------------------------------------------------------------
LEMMA RecoveryInit == Recovery!Init => RecoveryInv
BY DEF Recovery!Init, RecoveryInv, Recovery!TypeOK, Recovery!Jar, Recovery!EmptyJar, OwedInv,
       ReadInv, Recovery!RestartIsNoLogout

LEMMA ConnectKeeps == ASSUME RecoveryInv, Recovery!Connect PROVE RecoveryInv'
BY DEF Recovery!Connect, RecoveryInv, Recovery!TypeOK, OwedInv, ReadInv,
       Recovery!RestartIsNoLogout

\* When nothing is restored although something is owed, the backup is too old.
LEMMA ReadJarKeeps == ASSUME RecoveryInv, Recovery!ReadJar PROVE RecoveryInv'
<1> USE DEF RecoveryInv, Recovery!ReadJar
<1>1. Recovery!TypeOK'
  BY DEF Recovery!TypeOK
<1>2. OwedInv'
  BY DEF OwedInv
<1>3. owed \subseteq Recovery!Missing(jar) \/ owed = {}
  BY DEF Recovery!TypeOK, OwedInv, Recovery!Missing
<1>4. ReadInv'
  BY DEF Recovery!TypeOK, OwedInv, ReadInv, Recovery!Restorable
<1>5. ASSUME step' = "save", owed # {} PROVE ~Recovery!Recent(recovery, began)
  <2>1. ~Recovery!Restorable
    BY <1>3, <1>5
  <2>2. recovery # None /\ recovery.browser # client
    BY <1>5 DEF OwedInv
  <2> QED BY <2>1, <2>2 DEF Recovery!Restorable
<1>6. Recovery!RestartIsNoLogout'
  BY <1>5 DEF Recovery!RestartIsNoLogout, Recovery!Recent
<1> QED BY <1>1, <1>2, <1>4, <1>6

LEMMA SetCookiesType ==
    ASSUME NEW j \in Recovery!Jar, NEW s \in Recovery!Jar, NEW ids
    PROVE  Recovery!SetCookies(j, s, ids) \in Recovery!Jar
BY DEF Recovery!SetCookies, Recovery!Jar

\* Everything owed is written back at once.
LEMMA RestoreKeeps == ASSUME RecoveryInv, Recovery!Restore PROVE RecoveryInv'
<1> USE DEF RecoveryInv, Recovery!Restore
<1>1. recovery \in Recovery!Backup /\ raw \in Recovery!Jar
  BY DEF ReadInv, Recovery!TypeOK
<1>2. jar' \in Recovery!Jar
  BY <1>1, SetCookiesType DEF Recovery!TypeOK, Recovery!Backup
<1>3. owed' = {}
  BY DEF Recovery!TypeOK, OwedInv, ReadInv, Recovery!Missing
<1>4. Recovery!TypeOK'
  BY <1>2, <1>3 DEF Recovery!TypeOK
<1>5. OwedInv' /\ ReadInv' /\ Recovery!RestartIsNoLogout'
  BY <1>1, <1>3 DEF OwedInv, ReadInv, Recovery!RestartIsNoLogout
<1> QED BY <1>4, <1>5

LEMMA RereadKeeps == ASSUME RecoveryInv, Recovery!Reread PROVE RecoveryInv'
BY DEF Recovery!Reread, RecoveryInv, Recovery!TypeOK, OwedInv, ReadInv,
       Recovery!RestartIsNoLogout

\* Nothing owed is in what was read, unless Chrome ended since; then the new backup
\* holds what is owed still, and is of the process that ended.
LEMMA SaveKeeps == ASSUME RecoveryInv, Recovery!Save PROVE RecoveryInv'
<1> USE DEF RecoveryInv, Recovery!Save
<1>1. raw \in Recovery!Jar /\ client \in Nat
  BY DEF ReadInv, Recovery!TypeOK
<1>2. recovery' \in Recovery!Backup /\ recovery' # None
  BY <1>1, RecoveryAssumption DEF Recovery!TypeOK, Recovery!Backup
<1>3. recovery'.browser = client /\ recovery'.cookies = raw
  OBVIOUS
<1>4. Recovery!TypeOK'
  BY <1>1, <1>2 DEF Recovery!TypeOK
<1>5. \A c \in owed' : c \in owed /\ raw[c] # NoCookie
  BY DEF Recovery!Identities
<1>6. owed' # {} => client # browser
  BY <1>5 DEF ReadInv
<1>7. OwedInv'
  BY <1>2, <1>3, <1>5, <1>6 DEF OwedInv, Recovery!TypeOK
<1>8. ReadInv' /\ Recovery!RestartIsNoLogout'
  BY DEF ReadInv, Recovery!RestartIsNoLogout
<1> QED BY <1>4, <1>7, <1>8

LEMMA AbortKeeps == ASSUME RecoveryInv, Recovery!Abort PROVE RecoveryInv'
BY DEF Recovery!Abort, RecoveryInv, Recovery!TypeOK, OwedInv, ReadInv,
       Recovery!RestartIsNoLogout

LEMMA UserKeeps == ASSUME RecoveryInv, Recovery!User PROVE RecoveryInv'
<1>1. PICK c \in Cookies : Recovery!LogOut(c) \/ \E v \in Values : Recovery!LogIn(c, v)
  BY DEF Recovery!User
<1>2. PICK w \in Values \cup {NoCookie} : jar' = [jar EXCEPT ![c] = w]
  BY <1>1 DEF Recovery!LogOut, Recovery!LogIn, Recovery!DeleteCookie
<1>3. /\ owed' = owed \ {c}
      /\ loggedOut' \in SUBSET Cookies
      /\ UNCHANGED <<clock, browser, recovery, step, began, client, raw, collected, restores>>
  BY <1>1 DEF Recovery!LogOut, Recovery!LogIn, RecoveryInv, Recovery!TypeOK
<1>4. Recovery!TypeOK'
  BY <1>2, <1>3 DEF RecoveryInv, Recovery!TypeOK, Recovery!Jar
<1>5. \A o \in owed' : jar'[o] = jar[o]
  BY <1>2, <1>3 DEF RecoveryInv, Recovery!TypeOK, Recovery!Jar
<1>6. OwedInv' /\ ReadInv'
  BY <1>3, <1>5 DEF RecoveryInv, OwedInv, ReadInv
<1>7. Recovery!RestartIsNoLogout'
  BY <1>3 DEF RecoveryInv, Recovery!RestartIsNoLogout, Recovery!Recent
<1> QED BY <1>4, <1>6, <1>7 DEF RecoveryInv

\* A run that read before the restart is no longer connected.
LEMMA RestartKeeps == ASSUME RecoveryInv, Recovery!RestartChrome PROVE RecoveryInv'
<1> USE DEF RecoveryInv, Recovery!RestartChrome
<1>1. browser \in Nat /\ client \in Nat /\ client <= browser /\ browser' = browser + 1
  BY DEF OwedInv, Recovery!TypeOK
<1>2. client # browser'
  BY <1>1
<1>3. recovery # None => recovery.browser \in Nat /\ recovery.browser # browser'
  BY <1>1 DEF OwedInv, Recovery!TypeOK, Recovery!Backup
<1>4. Recovery!TypeOK'
  <2>1. jar' \in Recovery!Jar
    BY DEF Recovery!TypeOK, Recovery!AfterRestart, Recovery!Jar
  <2>2. loggedOut' \in SUBSET Cookies /\ owed' \in SUBSET SessionCookies
    BY DEF Recovery!TypeOK
  <2> QED BY <1>1, <2>1, <2>2 DEF Recovery!TypeOK
<1>5. \A c \in owed' : jar'[c] = NoCookie
  BY RecoveryAssumption DEF Recovery!TypeOK, Recovery!AfterRestart
<1>6. OwedInv'
  BY <1>1, <1>3, <1>5 DEF OwedInv, Recovery!TypeOK, Recovery!Backup
<1>7. ReadInv' /\ Recovery!RestartIsNoLogout'
  BY <1>2 DEF ReadInv, Recovery!RestartIsNoLogout
<1> QED BY <1>4, <1>6, <1>7

LEMMA RecoveryStep ==
    ASSUME RecoveryInv, [Recovery!Next]_(Recovery!vars)
    PROVE  RecoveryInv'
<1>1. CASE Recovery!Tick
  BY <1>1 DEF Recovery!Tick, RecoveryInv, Recovery!TypeOK, OwedInv, ReadInv,
              Recovery!RestartIsNoLogout, Recovery!Recent
<1>2. CASE UNCHANGED Recovery!vars
  BY <1>2 DEF Recovery!vars, RecoveryInv, Recovery!TypeOK, OwedInv, ReadInv,
              Recovery!RestartIsNoLogout, Recovery!Recent
<1> QED
  BY <1>1, <1>2, ConnectKeeps, ReadJarKeeps, RestoreKeeps, RereadKeeps, SaveKeeps, AbortKeeps,
     UserKeeps, RestartKeeps
  DEF Recovery!Next, Recovery!Run

\* The backup, the run and the histories keep their types (cli/sync.js, role source).
THEOREM RecoveryTypeCorrect == Recovery!Spec => []Recovery!TypeOK
<1>1. RecoveryInv => Recovery!TypeOK
  BY DEF RecoveryInv
<1> QED BY <1>1, RecoveryInit, RecoveryStep, PTL DEF Recovery!Spec

\* Whatever the user does meanwhile and wherever a run stops, a run that overwrites the
\* backup has brought back every session Chrome lost on its exit, unless the backup is too
\* old (cli/sync.js, restoring session cookies).
THEOREM RestartNoLogout == Recovery!Spec => []RestartIsNoLogout
<1>1. RecoveryInv => RestartIsNoLogout
  BY DEF RecoveryInv, RestartIsNoLogout
<1> QED BY <1>1, RecoveryInit, RecoveryStep, PTL DEF Recovery!Spec

\* Only a run that found a backup of another Chrome process writes cookies, so once there is
\* one of this process no removed cookie comes back (cli/sync.js, restoring session cookies).
THEOREM LogoutIsFinal == Recovery!Spec => LogoutStands
<1> DEFINE Kept == recovery # None /\ recovery.browser = browser =>
             \A c \in loggedOut \cap loggedOut' : jar[c] = NoCookie => jar'[c] = NoCookie
<1>1. RecoveryInv /\ [Recovery!Next]_(Recovery!vars) => [Kept]_(Recovery!vars)
  <2> SUFFICES ASSUME RecoveryInv, Recovery!Next, recovery # None, recovery.browser = browser,
                      NEW c \in loggedOut \cap loggedOut', jar[c] = NoCookie
               PROVE  jar'[c] = NoCookie
    OBVIOUS
  <2>1. c \in Cookies /\ jar \in Recovery!Jar
    BY DEF RecoveryInv, Recovery!TypeOK
  <2>2. CASE Recovery!Restore
    BY <2>2 DEF Recovery!Restore, RecoveryInv, ReadInv
  <2>3. CASE Recovery!User
    <3>1. PICK d \in Cookies : Recovery!LogOut(d) \/ \E v \in Values : Recovery!LogIn(d, v)
      BY <2>3 DEF Recovery!User
    <3>2. CASE Recovery!LogOut(d)
      BY <2>1, <3>2 DEF Recovery!LogOut, Recovery!DeleteCookie, Recovery!Jar
    <3>3. CASE \E v \in Values : Recovery!LogIn(d, v)
      <4>1. c # d /\ \E v \in Values : jar' = [jar EXCEPT ![d] = v]
        BY <3>3 DEF Recovery!LogIn
      <4> QED BY <2>1, <4>1 DEF Recovery!Jar
    <3> QED BY <3>1, <3>2, <3>3
  <2>4. CASE Recovery!RestartChrome
    BY <2>1, <2>4 DEF Recovery!RestartChrome, Recovery!AfterRestart
  <2>5. CASE \/ Recovery!Connect \/ Recovery!ReadJar \/ Recovery!Reread \/ Recovery!Save
             \/ Recovery!Abort \/ Recovery!Tick
    <3>1. UNCHANGED jar
      BY <2>5 DEF Recovery!Connect, Recovery!ReadJar, Recovery!Reread, Recovery!Save,
                  Recovery!Abort, Recovery!Tick
    <3> QED BY <3>1
  <2> QED BY <2>2, <2>3, <2>4, <2>5 DEF Recovery!Next, Recovery!Run
<1>2. Recovery!Spec => [][Kept]_(Recovery!vars)
  BY <1>1, RecoveryInit, RecoveryStep, PTL DEF Recovery!Spec
<1> QED BY <1>2 DEF LogoutStands, Recovery!LogoutStands

-----------------------------------------------------------------------------
(* Pairing.  A device answers one invitation in its life, so any request    *)
(* that names it, old or copied, names that invitation; and an invitation   *)
(* that let a device in is not issued again, because its file is written    *)
(* once.                                                                    *)

\* A request names the invitation its device answered, and an activation a request that
\* was approved.
FilesInv ==
    /\ \A d \in Receivers : \A i, j \in asked[d] : i = j
    /\ \A r \in requests : asked[r.device] = {r.invite}
    /\ \A r \in activations : r.device \in granted[r.invite]
    /\ \A d \in Receivers : phase[d] = "none" => asked[d] = {}

\* Who got a channel got it for the invitation it answered, which is used up.
GrantedInv ==
    /\ \A i \in issued : Ceremony!Written(i) /\ granted[i] = {}
    /\ \A i \in Invites : \A d \in granted[i] : Ceremony!Written(i) /\ asked[d] = {i}
    /\ \A d \in Receivers : (d \in channels \cup expelled) <=> (\E i \in Invites : d \in granted[i])
    /\ channels \cap expelled = {}
    /\ \A d \in Receivers : phase[d] = "active" => d \in channels \cup expelled
    /\ \A i \in Invites : \A d, e \in granted[i] : d = e

OutboxInv == \A r \in outbox : r.device \in granted[r.invite]

PairingInv == Ceremony!TypeOK /\ FilesInv /\ GrantedInv /\ OutboxInv /\ Ceremony!ApprovalIsSaved

-----------------------------------------------------------------------------
LEMMA PairingInit == ASSUME PairingTime \in Nat, Ceremony!Init PROVE PairingInv
<1>1. Ceremony!TypeOK
  BY DEF Ceremony!Init, Ceremony!TypeOK
<1>2. FilesInv /\ GrantedInv /\ OutboxInv
  BY DEF Ceremony!Init, FilesInv, GrantedInv, OutboxInv
<1>3. Ceremony!ApprovalIsSaved
  BY DEF Ceremony!Init, Ceremony!ApprovalIsSaved
<1> QED BY <1>1, <1>2, <1>3 DEF PairingInv

\* An invitation that is written stays written, and fresh ones were fresh before.
LEMMA InviteKeeps ==
    ASSUME PairingTime \in Nat, PairingInv, NEW i \in Invites, Ceremony!CreateInvite(i)
    PROVE  PairingInv'
<1>1. Ceremony!TypeOK'
  BY DEF PairingInv, Ceremony!TypeOK, Ceremony!CreateInvite, Ceremony!Unexpired, Ceremony!receiver
<1>2. FilesInv' /\ OutboxInv'
  BY DEF PairingInv, FilesInv, OutboxInv, Ceremony!CreateInvite, Ceremony!receiver
<1>3. \A j \in Invites : j # i => created'[j] = created[j]
  BY DEF PairingInv, Ceremony!TypeOK, Ceremony!CreateInvite
<1>4. Ceremony!Written(i)' /\ ~Ceremony!Written(i) /\ \A j \in Invites : Ceremony!Written(j) => Ceremony!Written(j)'
  BY <1>3 DEF PairingInv, Ceremony!TypeOK, Ceremony!CreateInvite, Ceremony!Written
<1>5. GrantedInv'
  <2>1. granted[i] = {}
    BY <1>4 DEF PairingInv, Ceremony!TypeOK, GrantedInv
  <2>2. issued' \subseteq issued \cup {i}
    BY DEF Ceremony!CreateInvite, Ceremony!Unexpired
  <2> QED BY <1>4, <2>1, <2>2 DEF PairingInv, Ceremony!TypeOK, GrantedInv, Ceremony!CreateInvite, Ceremony!receiver
<1>6. Ceremony!ApprovalIsSaved'
  <2>1. \A j \in Invites : granted[j] # {} => j # i
    BY <1>4 DEF PairingInv, Ceremony!TypeOK, GrantedInv
  <2>2. \A j \in Invites : j # i /\ Ceremony!Fresh(j)' => Ceremony!Fresh(j)
    BY <1>3 DEF Ceremony!CreateInvite, Ceremony!Fresh, Ceremony!Written, Ceremony!ExpiresAt
  <2> QED BY <2>1, <2>2 DEF PairingInv, Ceremony!ApprovalIsSaved, Ceremony!CreateInvite, Ceremony!Request
<1> QED BY <1>1, <1>2, <1>5, <1>6 DEF PairingInv

\* What leaves clock and files of invitations alone leaves these alone.
LEMMA SameInvites ==
    ASSUME UNCHANGED <<time, created>>
    PROVE  \A i : (Ceremony!Fresh(i)' <=> Ceremony!Fresh(i)) /\ (Ceremony!Written(i)' <=> Ceremony!Written(i))
BY DEF Ceremony!Fresh, Ceremony!Written, Ceremony!ExpiresAt

LEMMA ApproveKeeps ==
    ASSUME PairingTime \in Nat, PairingInv, NEW r \in Ceremony!Request, Ceremony!Approve(r)
    PROVE  PairingInv'
<1> DEFINE d == r.device
           i == r.invite
<1>1. /\ d \in Receivers /\ i \in Invites /\ r \in requests /\ i \in issued
      /\ asked[d] = {i} /\ granted[i] = {} /\ Ceremony!Written(i) /\ Ceremony!Fresh(i)
  BY DEF PairingInv, FilesInv, GrantedInv, Ceremony!Approve, Ceremony!MayOpen, Ceremony!Request, Ceremony!TypeOK
<1>2. /\ \A j \in Invites : granted'[j] = IF j = i THEN {d} ELSE granted[j]
      /\ channels' = channels \cup {d} /\ issued' = issued \ {i}
      /\ outbox' = Ceremony!LiveOutbox \cup {r} /\ activations' \subseteq activations \cup {r}
      /\ UNCHANGED <<time, created, requests, phase, asked, waiting, expelled>>
  BY <1>1 DEF PairingInv, Ceremony!TypeOK, Ceremony!Approve, Ceremony!receiver
<1>3. d \notin channels \cup expelled
  BY <1>1 DEF PairingInv, GrantedInv
<1>4. \A j \in Invites : (Ceremony!Fresh(j)' <=> Ceremony!Fresh(j)) /\ (Ceremony!Written(j)' <=> Ceremony!Written(j))
  BY <1>2, SameInvites
<1>5. Ceremony!TypeOK'
  <2>1. granted' \in [Invites -> SUBSET Receivers]
    BY <1>1 DEF PairingInv, Ceremony!TypeOK, Ceremony!Approve
  <2> QED BY <1>1, <1>2, <2>1 DEF PairingInv, Ceremony!TypeOK, Ceremony!LiveOutbox
<1>6. FilesInv'
  BY <1>1, <1>2 DEF PairingInv, Ceremony!TypeOK, FilesInv, Ceremony!Request
<1>7. GrantedInv'
  <2>1. \A j \in issued' : Ceremony!Written(j)' /\ granted'[j] = {}
    BY <1>2, <1>4 DEF PairingInv, Ceremony!TypeOK, GrantedInv
  <2>2. \A j \in Invites : \A e \in granted'[j] : Ceremony!Written(j)' /\ asked'[e] = {j}
    BY <1>1, <1>2, <1>4 DEF PairingInv, GrantedInv
  <2>3. \A e \in Receivers : (e \in channels' \cup expelled') <=> (\E j \in Invites : e \in granted'[j])
    BY <1>1, <1>2 DEF PairingInv, GrantedInv
  <2>4. channels' \cap expelled' = {}
    BY <1>2, <1>3 DEF PairingInv, GrantedInv
  <2>5. \A j \in Invites : \A e, f \in granted'[j] : e = f
    BY <1>2 DEF PairingInv, GrantedInv
  <2>6. \A e \in Receivers : phase'[e] = "active" => e \in channels' \cup expelled'
    BY <1>2 DEF PairingInv, GrantedInv
  <2> QED BY <2>1, <2>2, <2>3, <2>4, <2>5, <2>6 DEF GrantedInv
<1>8. OutboxInv'
  BY <1>1, <1>2 DEF PairingInv, Ceremony!TypeOK, OutboxInv, Ceremony!LiveOutbox, Ceremony!Request
<1>9. Ceremony!ApprovalIsSaved'
  <2> SUFFICES ASSUME NEW q \in Ceremony!Request, q.device \in channels',
                      q.device \in granted'[q.invite], Ceremony!Fresh(q.invite)'
               PROVE  q \in outbox'
    BY DEF Ceremony!ApprovalIsSaved
  <2>1. q.device \in Receivers /\ q.invite \in Invites
    BY DEF Ceremony!Request
  <2>2. CASE q.invite = i
    <3>1. q.device = d
      BY <1>2, <2>1, <2>2
    <3>2. q = r
      BY <2>2, <3>1 DEF Ceremony!Request
    <3> QED BY <1>2, <3>2
  <2>3. CASE q.invite # i
    <3>1. q.device \in granted[q.invite] /\ q.device # d /\ Ceremony!Fresh(q.invite)
      BY <1>1, <1>2, <1>4, <2>1, <2>3 DEF PairingInv, GrantedInv
    <3>2. q \in outbox
      BY <1>2, <3>1 DEF PairingInv, Ceremony!ApprovalIsSaved
    <3> QED BY <1>2, <3>1, <3>2 DEF Ceremony!LiveOutbox, Ceremony!Fresh
  <2> QED BY <2>2, <2>3
<1> QED BY <1>5, <1>6, <1>7, <1>8, <1>9 DEF PairingInv

LEMMA RevokeKeeps ==
    ASSUME PairingInv, NEW d \in Receivers, Ceremony!Revoke(d)
    PROVE  PairingInv'
<1>1. Ceremony!TypeOK'
  BY DEF PairingInv, Ceremony!TypeOK, Ceremony!Revoke, Ceremony!receiver
<1>2. FilesInv' /\ OutboxInv'
  BY DEF PairingInv, FilesInv, OutboxInv, Ceremony!Revoke, Ceremony!receiver
<1>3. \A j : (Ceremony!Fresh(j)' <=> Ceremony!Fresh(j)) /\ (Ceremony!Written(j)' <=> Ceremony!Written(j))
  BY SameInvites DEF Ceremony!Revoke
<1>4. GrantedInv'
  BY <1>3 DEF PairingInv, Ceremony!TypeOK, GrantedInv, Ceremony!Revoke, Ceremony!receiver
<1>5. Ceremony!ApprovalIsSaved'
  BY <1>3 DEF PairingInv, Ceremony!ApprovalIsSaved, Ceremony!Revoke
<1> QED BY <1>1, <1>2, <1>4, <1>5 DEF PairingInv

\* Steps of a receiver leave what the source has alone.
LEMMA SourceKept ==
    ASSUME PairingInv, UNCHANGED <<time, Ceremony!source>>,
           \A d \in Receivers : asked[d] # {} => asked'[d] = asked[d],
           \A d \in Receivers : phase'[d] = "active" => d \in channels \cup expelled
    PROVE  GrantedInv' /\ OutboxInv' /\ Ceremony!ApprovalIsSaved'
<1>1. \A j : (Ceremony!Fresh(j)' <=> Ceremony!Fresh(j)) /\ (Ceremony!Written(j)' <=> Ceremony!Written(j))
  BY SameInvites DEF Ceremony!source
<1>2. GrantedInv'
  <2>1. \A i \in Invites : granted[i] \subseteq Receivers
    BY DEF PairingInv, Ceremony!TypeOK
  <2>2. \A i \in Invites : \A d \in granted[i] : asked'[d] = {i}
    BY <2>1 DEF PairingInv, GrantedInv
  <2> QED BY <1>1, <2>2 DEF PairingInv, GrantedInv, Ceremony!source
<1>3. OutboxInv' /\ Ceremony!ApprovalIsSaved'
  BY <1>1 DEF PairingInv, OutboxInv, Ceremony!ApprovalIsSaved, Ceremony!source
<1> QED BY <1>2, <1>3

LEMMA RequestKeeps ==
    ASSUME PairingInv, NEW d \in Receivers, NEW i \in Invites, Ceremony!RequestPairing(d, i)
    PROVE  PairingInv'
<1>1. UNCHANGED <<time, Ceremony!source, activations>> /\ asked[d] = {}
  BY DEF PairingInv, FilesInv, Ceremony!RequestPairing
<1>2. \A e \in Receivers : asked'[e] = IF e = d THEN {i} ELSE asked[e]
  BY DEF PairingInv, Ceremony!TypeOK, Ceremony!RequestPairing
<1>3. [device |-> d, invite |-> i] \in Ceremony!Request
  BY DEF Ceremony!Request
<1>4. Ceremony!TypeOK'
  BY <1>1, <1>3 DEF PairingInv, Ceremony!TypeOK, Ceremony!RequestPairing, Ceremony!source
<1>5. FilesInv'
  <2>1. \A r \in requests : r.device # d /\ r.device \in Receivers
    BY <1>1 DEF PairingInv, FilesInv, Ceremony!TypeOK, Ceremony!Request
  <2>2. \A r \in requests' : asked'[r.device] = {r.invite}
    BY <1>2, <2>1 DEF PairingInv, FilesInv, Ceremony!RequestPairing
  <2>3. \A e \in Receivers : phase'[e] = "none" => asked'[e] = {}
    BY <1>2 DEF PairingInv, FilesInv, Ceremony!TypeOK, Ceremony!RequestPairing
  <2>4. \A e \in Receivers : \A j, k \in asked'[e] : j = k
    BY <1>2 DEF PairingInv, FilesInv
  <2> QED BY <1>1, <2>2, <2>3, <2>4 DEF PairingInv, FilesInv, Ceremony!source
<1>6. \A e \in Receivers : phase'[e] = "active" => e \in channels \cup expelled
  BY DEF PairingInv, Ceremony!TypeOK, GrantedInv, Ceremony!RequestPairing
<1> QED BY <1>1, <1>2, <1>4, <1>5, <1>6, SourceKept DEF PairingInv

LEMMA ReceiverKeeps ==
    ASSUME PairingInv,
           \/ \E d \in Receivers : Ceremony!ExportRequest(d)
           \/ \E r \in Ceremony!Request : Ceremony!ApproveAgain(r) \/ Ceremony!Activate(r) \/ Ceremony!ActivateAgain(r)
    PROVE  PairingInv'
<1>1. UNCHANGED <<time, Ceremony!source, asked>>
  BY DEF Ceremony!ExportRequest, Ceremony!ApproveAgain, Ceremony!Activate, Ceremony!ActivateAgain, Ceremony!receiver
<1>2. CASE \E d \in Receivers : Ceremony!ExportRequest(d)
  <2>0. PICK d \in Receivers : Ceremony!ExportRequest(d)
    BY <1>2
  <2>1. PICK i \in asked[d] : requests' = requests \cup {[device |-> d, invite |-> i]}
    BY <2>0 DEF Ceremony!ExportRequest
  <2>2. [device |-> d, invite |-> i] \in Ceremony!Request /\ asked[d] = {i}
    BY <2>1 DEF Ceremony!Request, PairingInv, Ceremony!TypeOK, FilesInv
  <2>3. Ceremony!TypeOK' /\ FilesInv'
    BY <1>1, <2>0, <2>1, <2>2 DEF PairingInv, Ceremony!TypeOK, FilesInv, Ceremony!ExportRequest, Ceremony!source, Ceremony!receiver
  <2> QED BY <1>1, <2>0, <2>3, SourceKept DEF PairingInv, GrantedInv, Ceremony!ExportRequest, Ceremony!receiver
<1>3. ASSUME NEW r \in Ceremony!Request, Ceremony!ApproveAgain(r) PROVE PairingInv'
  <2>1. Ceremony!TypeOK'
    BY <1>3 DEF PairingInv, Ceremony!TypeOK, Ceremony!ApproveAgain, Ceremony!source, Ceremony!receiver
  <2>2. FilesInv'
    BY <1>3 DEF PairingInv, FilesInv, OutboxInv, Ceremony!ApproveAgain, Ceremony!source, Ceremony!receiver
  <2> QED BY <1>1, <1>3, <2>1, <2>2, SourceKept DEF PairingInv, GrantedInv, Ceremony!ApproveAgain, Ceremony!receiver
<1>4. ASSUME NEW r \in Ceremony!Request, Ceremony!Activate(r) \/ Ceremony!ActivateAgain(r) PROVE PairingInv'
  <2>1. r.device \in Receivers
    BY DEF Ceremony!Request
  <2>2. Ceremony!TypeOK' /\ FilesInv'
    BY <1>4, <2>1 DEF PairingInv, Ceremony!TypeOK, FilesInv, Ceremony!Activate, Ceremony!ActivateAgain, Ceremony!source
  <2>3. \A d \in Receivers : phase'[d] = "active" => d \in channels \cup expelled
    <3>1. r \in activations => r.device \in channels \cup expelled
      BY <2>1 DEF PairingInv, FilesInv, GrantedInv, Ceremony!Request
    <3> QED BY <1>4, <2>1, <3>1 DEF PairingInv, Ceremony!TypeOK, GrantedInv, Ceremony!Activate, Ceremony!ActivateAgain
  <2> QED BY <1>1, <2>2, <2>3, SourceKept DEF PairingInv
<1> QED BY <1>2, <1>3, <1>4

LEMMA TickKeeps ==
    ASSUME PairingTime \in Nat, InviteTtl \in Nat, PairingInv, Ceremony!Tick
    PROVE  PairingInv'
<1>1. Ceremony!TypeOK'
  BY DEF PairingInv, Ceremony!TypeOK, Ceremony!Tick, Ceremony!source, Ceremony!receiver
<1>2. \A j \in Invites : (Ceremony!Written(j)' <=> Ceremony!Written(j)) /\ (Ceremony!Fresh(j)' => Ceremony!Fresh(j))
  BY DEF PairingInv, Ceremony!TypeOK, Ceremony!Tick, Ceremony!source, Ceremony!Written, Ceremony!Fresh, Ceremony!ExpiresAt
<1>3. FilesInv' /\ OutboxInv'
  BY DEF PairingInv, FilesInv, OutboxInv, Ceremony!Tick, Ceremony!source, Ceremony!receiver
<1>4. GrantedInv'
  BY <1>2 DEF PairingInv, Ceremony!TypeOK, GrantedInv, Ceremony!Tick, Ceremony!source, Ceremony!receiver
<1>5. Ceremony!ApprovalIsSaved'
  BY <1>2 DEF PairingInv, Ceremony!ApprovalIsSaved, Ceremony!Tick, Ceremony!source, Ceremony!Request
<1> QED BY <1>1, <1>3, <1>4, <1>5 DEF PairingInv

LEMMA PairingStep == ASSUME PairingTime \in Nat, InviteTtl \in Nat, PairingInv, [Ceremony!Next]_(Ceremony!vars) PROVE PairingInv'
<1>1. ASSUME NEW i \in Invites, Ceremony!CreateInvite(i) PROVE PairingInv'
  BY <1>1, InviteKeeps
<1>2. ASSUME NEW r \in Ceremony!Request, Ceremony!Approve(r) PROVE PairingInv'
  BY <1>2, ApproveKeeps
<1>3. ASSUME NEW d \in Receivers, Ceremony!Revoke(d) PROVE PairingInv'
  BY <1>3, RevokeKeeps
<1>4. ASSUME NEW d \in Receivers, NEW i \in Invites, Ceremony!RequestPairing(d, i) PROVE PairingInv'
  BY <1>4, RequestKeeps
<1>5. CASE \/ \E d \in Receivers : Ceremony!ExportRequest(d)
           \/ \E r \in Ceremony!Request : Ceremony!ApproveAgain(r) \/ Ceremony!Activate(r) \/ Ceremony!ActivateAgain(r)
  BY <1>5, ReceiverKeeps
<1>6. CASE Ceremony!Tick
  BY <1>6, TickKeeps
<1>7. CASE UNCHANGED Ceremony!vars
  <2>1. \A j : (Ceremony!Fresh(j)' <=> Ceremony!Fresh(j)) /\ (Ceremony!Written(j)' <=> Ceremony!Written(j))
    BY <1>7, SameInvites DEF Ceremony!vars
  <2>2. Ceremony!TypeOK' /\ FilesInv' /\ OutboxInv'
    BY <1>7 DEF Ceremony!vars, PairingInv, Ceremony!TypeOK, FilesInv, OutboxInv
  <2>3. GrantedInv' /\ Ceremony!ApprovalIsSaved'
    BY <1>7, <2>1 DEF Ceremony!vars, PairingInv, GrantedInv, Ceremony!ApprovalIsSaved
  <2> QED BY <2>2, <2>3 DEF PairingInv
<1> QED BY <1>1, <1>2, <1>3, <1>4, <1>5, <1>6, <1>7 DEF Ceremony!Next

\* Ceremony has its own copy of Cardinality.
LEMMA CeremonyCardinality == \A S : Ceremony!Cardinality(S) = Cardinality(S)
BY DEF Ceremony!Cardinality, Cardinality

LEMMA Exclusive == PairingInv => Ceremony!PairingIsExclusive
<1> SUFFICES ASSUME PairingInv PROVE Ceremony!PairingIsExclusive
  OBVIOUS
<1>1. Ceremony!OneReceiverPerInvite
  <2> SUFFICES ASSUME NEW i \in Invites PROVE Cardinality(granted[i]) <= 1
    BY CeremonyCardinality DEF Ceremony!OneReceiverPerInvite
  <2>1. CASE granted[i] = {}
    BY <2>1, FS_EmptySet
  <2>2. CASE granted[i] # {}
    <3>1. PICK d \in granted[i] : granted[i] = {d}
      BY <2>2 DEF PairingInv, GrantedInv
    <3>2. Cardinality({d}) = 1
      BY FS_Singleton
    <3> QED BY <3>1, <3>2
  <2> QED BY <2>1, <2>2
<1>2. Ceremony!ActiveWasApproved /\ Ceremony!RevokedStaysOut /\ Ceremony!ApprovalIsSaved
  BY DEF PairingInv, GrantedInv, Ceremony!ActiveWasApproved, Ceremony!RevokedStaysOut
<1> QED BY <1>1, <1>2 DEF Ceremony!PairingIsExclusive

\* One invitation, whoever copied its file, lets one receiver in for good, and what the
\* source approved, revoked and promised stands (cli/pairing.js, approvePairing and
\* revokeDevice), for any invitations, devices, limits and times.
THEOREM PairingExclusive ==
    ASSUME PairingTime \in Nat, InviteTtl \in Nat
    PROVE  Ceremony!Spec => []PairingIsExclusive
<1>1. Ceremony!Init => PairingInv
  BY PairingInit
<1>2. PairingInv /\ [Ceremony!Next]_(Ceremony!vars) => PairingInv'
  BY PairingStep
<1>3. PairingInv => PairingIsExclusive
  BY Exclusive DEF PairingIsExclusive
<1> QED BY <1>1, <1>2, <1>3, PTL DEF Ceremony!Spec

\* The vaults and the files in circulation keep their types.
THEOREM PairingTypeCorrect ==
    ASSUME PairingTime \in Nat, InviteTtl \in Nat
    PROVE  Ceremony!Spec => []Ceremony!TypeOK
<1>1. Ceremony!Init => PairingInv
  BY PairingInit
<1>2. PairingInv /\ [Ceremony!Next]_(Ceremony!vars) => PairingInv'
  BY PairingStep
<1>3. PairingInv => Ceremony!TypeOK
  BY DEF PairingInv
<1> QED BY <1>1, <1>2, <1>3, PTL DEF Ceremony!Spec
=============================================================================
