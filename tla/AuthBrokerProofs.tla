-------------------------- MODULE AuthBrokerProofs --------------------------
(***************************************************************************)
(* Proofs about AuthBroker, for any requests, sessions and bounds.         *)
(*                                                                         *)
(* Nearly every step only moves rows on: it settles them, uses their grant *)
(* up or makes them stale, and gives them no authority (Moves).  The       *)
(* exceptions are a new request, a retry and the two ways of approving.    *)
(* What an execution may still do is read off its step and its row         *)
(* (Stage): a row whose credentials were typed can not be approved again,  *)
(* so no execution of it begins, and the one that typed can only report.   *)
(***************************************************************************)
EXTENDS MCAuthBroker, FiniteSetTheorems, TLAPS

Bound == {"approved", "authenticating", "denied"}
Decided == {"denied", "cancelled", "succeeded"}

\* A row moves on from a to b and gains nothing; it succeeds only in a session of k, where
\* a login was seen.
Moves(a, b, k) ==
    /\ b \in Row
    /\ b.status = "absent" <=> a.status = "absent"
    /\ b.session = a.session /\ b.next = a.next
    /\ a.status \in Decided => b.status = a.status
    /\ b.status \in {"pending", "approved"} => b.status = a.status
    /\ b.status \in Waiting => a.status \in Waiting /\ b.version = a.version
    /\ b.policy # 0 => b.policy = a.policy /\ (a.granted => b.granted)
                       /\ (a.status \in Bound => b.status \in Bound)
    /\ b.status = "succeeded" => a.status = "succeeded" \/ a.session \in k

\* What every row says of itself.
RowInv(a) ==
    /\ a.status # "absent" => a.session \in Sessions
    /\ a.status = "absent" => a.next = None
    /\ a.policy # 0 => a.granted /\ a.status \in Bound

\* What the execution of r may still do.
Stage(r) ==
    /\ pc[r] # "idle" => rows[r].status # "absent"
    /\ res[r] = "ok" => rows[r].status # "absent" /\ rows[r].session \in known
    /\ pc[r] = "fill" => r \in supplied
    /\ fills[r] > 0 =>
         /\ fills[r] = 1
         /\ rows[r].status \notin {"absent", "pending", "approved"}
         /\ pc[r] \in {"idle", "fill", "report", "retrieve", "catch"}
         /\ pc[r] = "retrieve" => r \in supplied

\* A call that saw a login looks at a session with one.
CallOK(c) ==
    /\ c.purpose = "in" => c.session \in known
    /\ c.op = "retry" => c.row \in Rows /\ rows[c.row].status # "absent"
    /\ c.op = "complete" =>
         /\ c.purpose = "in"
         /\ \A r \in c.rows : rows[r].status # "absent" /\ rows[r].session = c.session

LeaseInv == \A s \in Sessions : lease[s] \in Rows => rows[lease[s]].status # "absent"

IInv ==
    /\ TypeOK /\ NoStaleAuthority /\ SuccessWasSeen /\ LeaseInv
    /\ \A r \in Rows : RowInv(rows[r]) /\ Stage(r)
    /\ \A c \in calls : CallOK(c)

\* DecisionsStand, of one step.
Stands ==
    \A r \in Rows :
       /\ rows[r].status \in Decided => rows'[r].status = rows[r].status
       /\ rows[r].next # None => rows'[r].next = rows[r].next

-----------------------------------------------------------------------------
(* Rows.                                                                    *)

LEMMA StaysPut == ASSUME NEW a \in Row, NEW k PROVE Moves(a, a, k)
BY DEF Moves

LEMMA MovesOn ==
    ASSUME NEW a, NEW b, NEW c, NEW k, Moves(a, b, k), Moves(b, c, k)
    PROVE  Moves(a, c, k)
BY DEF Moves

LEMMA MovesMore ==
    ASSUME NEW a, NEW b, NEW k, NEW l, Moves(a, b, k), k \subseteq l
    PROVE  Moves(a, b, l)
BY DEF Moves

LEMMA MarkMoves ==
    ASSUME NEW a \in Row, NEW k
    PROVE  /\ Moves(a, [a EXCEPT !.fresh = FALSE], k)
           /\ Moves(a, [a EXCEPT !.over = TRUE], k)
           /\ \A told \in BOOLEAN : Moves(a, [a EXCEPT !.told = told], k)
BY DEF Moves, Row

\* What setState does to the fields of a row.
LEMMA SetFields ==
    ASSUME NEW a \in Row, NEW status \in Statuses, NEW uncertain \in BOOLEAN
    PROVE  LET b == Set(a, status, uncertain) IN
           /\ b \in Row
           /\ b.status = status /\ b.session = a.session /\ b.next = a.next
           /\ b.policy # 0 => b.policy = a.policy /\ b.status \in Bound
           /\ status \in Bound => (b.granted <=> a.granted)
           /\ status \notin {"denied", "cancelled"} => b.version = a.version
<1> DEFINE b == Set(a, status, uncertain)
           bound == status \in {"approved", "authenticating", "expired", "denied"}
           told == a.told /\ status \in {"needs-user", "failed"}
           granted == a.granted /\ bound
           over == a.over /\ status \in Waiting
           fresh == a.fresh /\ status \in {"approved", "succeeded"}
           policy == IF bound /\ status # "expired" THEN a.policy ELSE 0
           version == IF status \notin {"denied", "cancelled"} THEN a.version ELSE 0
<1>1. b = [a EXCEPT !.status = status, !.uncertain = uncertain, !.told = told,
                    !.granted = granted, !.policy = policy, !.version = version,
                    !.over = over, !.fresh = fresh]
  BY DEF Set
<1>2. told \in BOOLEAN /\ granted \in BOOLEAN /\ over \in BOOLEAN /\ fresh \in BOOLEAN
  BY Zenon
<1>3. policy \in 0..MaxPolicies /\ version \in 0..MaxVersion
  BY BrokerAssumption DEF Row
<1>4. policy # 0 => policy = a.policy /\ status \in Bound
  BY DEF Bound
<1>5. status \in Bound => (granted <=> a.granted)
  BY Zenon DEF Bound
<1>6. status \notin {"denied", "cancelled"} => version = a.version
  OBVIOUS
<1> HIDE DEF told, granted, over, fresh, policy, version
<1>7. b \in Row
  BY <1>1, <1>2, <1>3 DEF Row
<1>8. /\ b.status = status /\ b.session = a.session /\ b.next = a.next
      /\ b.policy = policy /\ b.version = version
  BY <1>1 DEF Row
<1>9. b.granted = granted
  BY <1>1 DEF Row
<1> QED BY <1>4, <1>5, <1>6, <1>7, <1>8, <1>9

LEMMA SetMoves ==
    ASSUME NEW a \in Row, NEW k, NEW uncertain \in BOOLEAN,
           NEW status \in {"needs-user", "denied", "cancelled", "expired", "failed",
                           "authenticating", "succeeded"},
           a.status \notin Decided \cup {"absent"},
           status = "authenticating" => a.status \in Waiting,
           status = "succeeded" => a.session \in k
    PROVE  Moves(a, Set(a, status, uncertain), k)
<1>1. status \in Statuses
  BY DEF Statuses, Open, Closed
<1>2. LET b == Set(a, status, uncertain) IN
           /\ b \in Row
           /\ b.status = status /\ b.session = a.session /\ b.next = a.next
           /\ b.policy # 0 => b.policy = a.policy /\ b.status \in Bound
           /\ status \in Bound => (b.granted <=> a.granted)
           /\ status \notin {"denied", "cancelled"} => b.version = a.version
  BY <1>1, SetFields
<1> QED BY <1>2 DEF Moves, Decided, Waiting, Bound

\* Whatever expires moves on.
LEMMA CurrentMoves ==
    ASSUME TypeOK, NEW r \in Rows, NEW k
    PROVE  Moves(rows[r], Current[r], k)
<1>1. rows[r] \in Row
  BY DEF TypeOK
<1>2. CASE rows[r].over /\ rows[r].status \in Waiting
  <2>1. Current[r] = Expired(rows[r])
    BY <1>2 DEF Current
  <2>2. CASE rows[r].status = "authenticating"
    <3>1. Moves(rows[r], Set(rows[r], "needs-user", TRUE), k)
      BY <1>1, <2>2, SetMoves DEF Decided
    <3> QED BY <2>1, <2>2, <3>1 DEF Expired
  <2>3. CASE rows[r].status # "authenticating"
    <3>1. Moves(rows[r], Set(rows[r], "expired", FALSE), k)
      BY <1>1, <1>2, SetMoves DEF Decided, Waiting
    <3> QED BY <2>1, <2>3, <3>1 DEF Expired
  <2> QED BY <2>2, <2>3
<1>3. CASE ~(rows[r].over /\ rows[r].status \in Waiting)
  <2>1. Current[r] = rows[r]
    BY <1>3 DEF Current
  <2> QED BY <1>1, <2>1, StaysPut
<1> QED BY <1>2, <1>3

LEMMA CurrentRows ==
    ASSUME TypeOK
    PROVE  Current \in [Rows -> Row]
<1>1. \A r \in Rows : Current[r] \in Row
  BY CurrentMoves DEF Moves
<1> QED BY <1>1 DEF Current

\* A row a policy authorized moves on when the policy goes, and is then not authorized.
LEMMA UnauthorizedMoves ==
    ASSUME NEW a \in Row, NEW k
    PROVE  /\ Moves(a, Unauthorized(a), k)
           /\ a.granted /\ a.policy = live /\ live # 0
                => Unauthorized(a).status \notin {"approved", "authenticating"}
<1>1. CASE live = 0 \/ ~a.granted \/ a.policy # live
  BY <1>1, StaysPut DEF Unauthorized
<1>2. CASE ~(live = 0 \/ ~a.granted \/ a.policy # live)
  <2>1. CASE a.status = "approved"
    <3>1. Moves(a, Set(a, "denied", FALSE), k) /\ Set(a, "denied", FALSE).status = "denied"
      BY <2>1, SetMoves, SetFields DEF Decided, Statuses, Open, Closed
    <3> QED BY <1>2, <2>1, <3>1 DEF Unauthorized
  <2>2. CASE a.status = "authenticating"
    <3>1. Moves(a, Set(a, "needs-user", TRUE), k) /\ Set(a, "needs-user", TRUE).status = "needs-user"
      BY <2>2, SetMoves, SetFields DEF Decided, Statuses, Open, Closed
    <3> QED BY <1>2, <2>2, <3>1 DEF Unauthorized
  <2>3. CASE a.status \notin {"approved", "authenticating"}
    BY <1>2, <2>3, StaysPut DEF Unauthorized
  <2> QED BY <2>1, <2>2, <2>3
<1> QED BY <1>1, <1>2

LEMMA StaleMoves ==
    ASSUME NEW rs \in [Rows -> Row], NEW s, NEW k
    PROVE  /\ StaleRows(rs, s) \in [Rows -> Row]
           /\ \A r \in Rows : Moves(rs[r], StaleRows(rs, s)[r], k)
<1>1. \A r \in Rows : Moves(rs[r], StaleRows(rs, s)[r], k)
  BY MarkMoves, StaysPut DEF StaleRows
<1> QED BY <1>1 DEF StaleRows, Moves

LEMMA StaleCallsOK ==
    ASSUME TypeOK, \A c \in calls : CallOK(c), NEW s
    PROVE  \A c \in StaleCalls(s) : c \in Call /\ CallOK(c)
<1> SUFFICES ASSUME NEW c \in calls PROVE LET d == [c EXCEPT !.fresh = FALSE] IN d \in Call /\ CallOK(d)
  BY DEF StaleCalls, TypeOK
<1>1. c \in Call
  BY DEF TypeOK
<1>2. [c EXCEPT !.fresh = FALSE] \in Call
  BY <1>1 DEF Call
<1> QED BY <1>1, <1>2 DEF CallOK, Call

\* A new row has the authority of its call's enrollment and of the policy it was given.
LEMMA NewRowFields ==
    ASSUME NEW c \in Call, NEW status \in Statuses, NEW policy \in 0..MaxPolicies
    PROVE  LET b == NewRow(c, status, policy) IN
           /\ b \in Row /\ b.status = status /\ b.session = c.session /\ b.next = None
           /\ b.version = c.version /\ b.policy = policy
           /\ policy # 0 => b.granted
<1> DEFINE granted == policy # 0
           fresh == c.fresh /\ status # "needs-user"
<1>1. NewRow(c, status, policy) =
        [Absent EXCEPT !.status = status, !.session = c.session, !.version = c.version,
                       !.policy = policy, !.granted = granted, !.fresh = fresh]
  BY DEF NewRow
<1>2. granted \in BOOLEAN /\ fresh \in BOOLEAN /\ (policy # 0 => granted)
  BY Zenon
<1>3. c.session \in Sessions /\ c.version \in 0..MaxVersion
  BY DEF Call
<1> HIDE DEF granted, fresh
<1>4. Absent \in Row /\ Absent.next = None
  BY BrokerAssumption DEF Absent, Row, Statuses
<1>5. NewRow(c, status, policy) \in Row
  BY <1>1, <1>2, <1>3, <1>4 DEF Row
<1>6. /\ NewRow(c, status, policy).status = status
      /\ NewRow(c, status, policy).session = c.session
      /\ NewRow(c, status, policy).version = c.version
      /\ NewRow(c, status, policy).policy = policy
      /\ NewRow(c, status, policy).next = None
  BY <1>1, <1>4 DEF Row
<1>7. NewRow(c, status, policy).granted = granted
  BY <1>1, <1>4 DEF Row
<1> QED BY <1>2, <1>5, <1>6, <1>7

LEMMA GrantedFields ==
    ASSUME NEW a \in Row, NEW policy \in 0..MaxPolicies
    PROVE  LET b == Granted(a, policy) IN
           /\ b \in Row /\ b.status = "approved" /\ b.session = a.session /\ b.next = a.next
           /\ b.version = a.version /\ b.policy = policy /\ b.granted
<1> DEFINE x == Set(a, "approved", FALSE)
<1>1. x \in Row /\ x.status = "approved" /\ x.session = a.session /\ x.next = a.next
      /\ x.version = a.version
  BY SetFields DEF Statuses, Open, Closed
<1> HIDE DEF x
<1>2. Granted(a, policy) = [x EXCEPT !.granted = TRUE, !.policy = policy]
  BY DEF Granted, x
<1> QED BY <1>1, <1>2 DEF Row

-----------------------------------------------------------------------------
(* What is kept wherever rows only move on.                                 *)

LEMMA RowsKept ==
    ASSUME IInv, \A r \in Rows : Moves(rows[r], rows'[r], known'),
           known \subseteq known',
           \A r \in Rows : rows'[r].status \in Waiting =>
              /\ enrolled' = enrolled /\ revoked' = revoked
              /\ rows'[r].policy # 0 => live' = live
    PROVE  NoStaleAuthority' /\ SuccessWasSeen' /\ Stands /\ \A r \in Rows : RowInv(rows'[r])
<1>1. NoStaleAuthority'
  BY DEF IInv, NoStaleAuthority, Moves, Waiting
<1>2. SuccessWasSeen'
  BY DEF IInv, SuccessWasSeen, Moves
<1>3. Stands
  BY DEF Stands, Moves
<1>4. \A r \in Rows : RowInv(rows'[r])
  BY DEF IInv, RowInv, Moves
<1> QED BY <1>1, <1>2, <1>3, <1>4

LEMMA StageKept ==
    ASSUME IInv, NEW r \in Rows, Moves(rows[r], rows'[r], known'), known \subseteq known',
           pc'[r] = pc[r], res'[r] = res[r], fills'[r] = fills[r],
           r \in supplied => r \in supplied'
    PROVE  Stage(r)'
<1>1. rows'[r].status = "absent" <=> rows[r].status = "absent"
  BY DEF Moves
<1>2. rows'[r].session = rows[r].session
  BY DEF Moves
<1>3. rows'[r].status \in {"pending", "approved"} => rows[r].status = rows'[r].status
  BY DEF Moves
<1> QED BY <1>1, <1>2, <1>3 DEF IInv, Stage

LEMMA CallsKept ==
    ASSUME IInv, \A r \in Rows : Moves(rows[r], rows'[r], known'), known \subseteq known',
           NEW c \in Call, CallOK(c)
    PROVE  CallOK(c)'
BY DEF CallOK, Call, Moves

LEMMA LeaseKept ==
    ASSUME IInv, \A r \in Rows : Moves(rows[r], rows'[r], known'),
           \A s \in Sessions : lease'[s] \in Rows => rows[lease'[s]].status # "absent"
    PROVE  LeaseInv'
BY DEF LeaseInv, Moves

\* One row is written together with what has expired, or alone.
LEMMA OneRow ==
    ASSUME TypeOK, NEW r \in Rows, NEW b, NEW k
    PROVE  /\ Moves(Current[r], b, k) =>
                /\ [Current EXCEPT ![r] = b] \in [Rows -> Row]
                /\ \A q \in Rows : Moves(rows[q], [Current EXCEPT ![r] = b][q], k)
           /\ Moves(rows[r], b, k) =>
                /\ [rows EXCEPT ![r] = b] \in [Rows -> Row]
                /\ \A q \in Rows : Moves(rows[q], [rows EXCEPT ![r] = b][q], k)
<1>1. ASSUME Moves(Current[r], b, k)
      PROVE  /\ [Current EXCEPT ![r] = b] \in [Rows -> Row]
             /\ \A q \in Rows : Moves(rows[q], [Current EXCEPT ![r] = b][q], k)
  <2>1. Moves(rows[r], b, k) /\ b \in Row
    BY <1>1, CurrentMoves, MovesOn DEF Moves
  <2>2. Current \in [Rows -> Row] /\ \A q \in Rows : Moves(rows[q], Current[q], k)
    BY CurrentRows, CurrentMoves
  <2> QED BY <2>1, <2>2
<1>2. ASSUME Moves(rows[r], b, k)
      PROVE  /\ [rows EXCEPT ![r] = b] \in [Rows -> Row]
             /\ \A q \in Rows : Moves(rows[q], [rows EXCEPT ![r] = b][q], k)
  <2>1. b \in Row
    BY <1>2 DEF Moves
  <2>2. rows \in [Rows -> Row] /\ \A q \in Rows : Moves(rows[q], rows[q], k)
    BY StaysPut DEF TypeOK
  <2> QED BY <1>2, <2>1, <2>2
<1> QED BY <1>1, <1>2

-----------------------------------------------------------------------------
(* Executions.                                                              *)

\* What a step of the execution of r may change of the executions.
Stepped(r, step, result) ==
    /\ pc' = [pc EXCEPT ![r] = step] /\ res' = [res EXCEPT ![r] = result]
    /\ again' \subseteq again /\ aborted' \subseteq aborted
    /\ supplied' \subseteq supplied \cup {r} /\ supplied \ {r} \subseteq supplied'
    /\ step = "fill" => r \in supplied'
    /\ step \notin {"idle", "pause"} /\ r \in supplied => r \in supplied'

LEMMA ContinueStepped ==
    ASSUME NEW r \in Rows, NEW step, NEW result, Continue(r, step, result)
    PROVE  Stepped(r, step, result)
BY DEF Continue, Goto, Stepped

LEMMA LeaveStepped ==
    ASSUME NEW r \in Rows, NEW step \in {"idle", "pause"}, Leave(r, step)
    PROVE  Stepped(r, step, "none")
BY DEF Leave, Goto, Stepped

LEMMA UpsetType ==
    ASSUME TypeOK
    PROVE  /\ UNCHANGED upsets => upsets' \in 0..MaxUpsets
           /\ \A n \in Nat : Upset(n) => upsets' \in 0..MaxUpsets
BY BrokerAssumption DEF TypeOK, Upset

\* The typing of r is over for good: it is done once, and the execution only reports.
Typed(r) ==
    fills'[r] > 0 =>
      /\ fills'[r] = 1
      /\ rows'[r].status \notin {"absent", "pending", "approved"}
      /\ pc'[r] \in {"idle", "fill", "report", "retrieve", "catch"}
      /\ pc'[r] = "retrieve" => r \in supplied'

LEMMA ExecKeeps ==
    ASSUME IInv, NEW r \in Rows, NEW step \in Steps, NEW result \in Results,
           Stepped(r, step, result), pc[r] # "idle",
           rows' \in [Rows -> Row], \A q \in Rows : Moves(rows[q], rows'[q], known'),
           known' \in {known, known \cup {rows[r].session}},
           UNCHANGED <<authority, sess>>, upsets' \in 0..MaxUpsets,
           fills' \in [Rows -> Nat], \A q \in Rows : q # r => fills'[q] = fills[q],
           Typed(r),
           result = "ok" => rows[r].session \in known',
           calls' \in {calls, StaleCalls(rows[r].session)},
           lease' \in {lease, [lease EXCEPT ![rows[r].session] = None],
                       [lease EXCEPT ![rows[r].session] = r]}
    PROVE  IInv' /\ Stands
<1>1. TypeOK /\ Stage(r) /\ RowInv(rows[r]) /\ rows[r].status # "absent"
      /\ rows[r].session \in Sessions /\ known \subseteq known'
  BY DEF IInv, Stage, RowInv
<1>2. \A c \in calls' : c \in Call /\ CallOK(c)
  <2>1. \A c \in calls : c \in Call /\ CallOK(c)
    BY <1>1 DEF IInv, TypeOK
  <2> QED BY <1>1, <2>1, StaleCallsOK
<1>3. \A c \in calls' : CallOK(c)'
  BY <1>1, <1>2, CallsKept
<1>4. TypeOK'
  <2>1. pc' \in [Rows -> Steps] /\ res' \in [Rows -> Results]
        /\ again' \subseteq Rows /\ aborted' \subseteq Rows /\ supplied' \subseteq Rows
    BY <1>1 DEF TypeOK, Stepped
  <2>2. calls' \subseteq Call
    BY <1>2
  <2>3. lease' \in [Sessions -> Rows \cup {None, Owner}] /\ known' \subseteq Sessions
    BY <1>1 DEF TypeOK
  <2> QED BY <1>1, <2>1, <2>2, <2>3 DEF TypeOK, authority
<1>5. NoStaleAuthority' /\ SuccessWasSeen' /\ Stands /\ \A q \in Rows : RowInv(rows'[q])
  BY <1>1, RowsKept DEF authority
<1>6. LeaseInv'
  <2>1. \A s \in Sessions : lease'[s] \in Rows => rows[lease'[s]].status # "absent"
    BY <1>1, BrokerAssumption DEF IInv, LeaseInv, TypeOK
  <2> QED BY <2>1, LeaseKept
<1>7. ASSUME NEW q \in Rows, q # r PROVE Stage(q)'
  <2>1. pc'[q] = pc[q] /\ res'[q] = res[q] /\ fills'[q] = fills[q] /\ (q \in supplied => q \in supplied')
    BY <1>1, <1>7 DEF Stepped, TypeOK
  <2> QED BY <1>1, <2>1, StageKept
<1>8. Stage(r)'
  <2>1. pc'[r] = step /\ res'[r] = result
    BY <1>1 DEF Stepped, TypeOK
  <2>2. rows'[r].status # "absent" /\ rows'[r].session = rows[r].session
    BY <1>1 DEF Moves
  <2>3. pc'[r] = "fill" => r \in supplied'
    BY <2>1 DEF Stepped
  <2> QED BY <2>1, <2>2, <2>3 DEF Stage, Typed
<1> QED BY <1>3, <1>4, <1>5, <1>6, <1>7, <1>8 DEF IInv

\* What a step leaves moves on if what it wrote does.
LEMMA SettleKeeps ==
    ASSUME NEW r \in Rows, NEW new \in [Rows -> Row], NEW k,
           \A q \in Rows : Moves(rows[q], new[q], k), Settle(r, new)
    PROVE  /\ rows' \in [Rows -> Row] /\ \A q \in Rows : Moves(rows[q], rows'[q], k)
           /\ calls' \in {calls, StaleCalls(rows[r].session)}
           /\ lease' \in {lease, [lease EXCEPT ![rows[r].session] = None]}
           /\ rows'[r].status = new[r].status
<1>1. CASE pc[r] \in InLease /\ pc'[r] \notin InLease
  <2>1. /\ rows' = StaleRows(new, rows[r].session)
        /\ calls' = StaleCalls(rows[r].session)
        /\ lease' = [lease EXCEPT ![rows[r].session] = None]
    BY <1>1 DEF Settle
  <2>2. rows' \in [Rows -> Row] /\ \A q \in Rows : Moves(new[q], rows'[q], k)
    BY <2>1, StaleMoves
  <2>3. rows'[r].status = new[r].status
    BY <2>1 DEF StaleRows, Row
  <2> QED BY <2>1, <2>2, <2>3, MovesOn
<1>2. CASE ~(pc[r] \in InLease /\ pc'[r] \notin InLease)
  <2>1. rows' = new /\ UNCHANGED <<calls, lease>>
    BY <1>2 DEF Settle
  <2> QED BY <2>1
<1> QED BY <1>1, <1>2

\* Whatever is written down of a row that was typed, it is not waiting for an approval.
LEMMA TypedKept ==
    ASSUME IInv, NEW r \in Rows, NEW step, NEW result, Stepped(r, step, result),
           Moves(rows[r], rows'[r], known'), fills' = fills,
           \/ pc[r] \notin {"idle", "fill", "report", "retrieve", "catch"}
           \/ step \in {"idle", "report", "catch"}
           \/ step = "retrieve" /\ r \in supplied
           \/ fills[r] = 0
    PROVE  Typed(r)
<1>1. pc'[r] = step
  BY DEF Stepped, IInv, TypeOK
<1>2. Stage(r) /\ fills[r] \in Nat
  BY DEF IInv, TypeOK
<1>3. rows'[r].status \in {"absent", "pending", "approved"} => rows[r].status = rows'[r].status
  BY DEF Moves
<1>4. step = "retrieve" /\ r \in supplied => r \in supplied'
  BY DEF Stepped
<1> QED BY <1>1, <1>2, <1>3, <1>4 DEF Stage, Typed

LEMMA SelectKeeps ==
    ASSUME IInv, NEW r \in Rows, Select(r)
    PROVE  IInv' /\ Stands
<1> DEFINE row == Current[r]
           ok == row.status = "approved" /\ GrantValid(row)
           b == IF row.status = "approved" /\ ~ok THEN Set(row, "denied", FALSE) ELSE row
<1>1. TypeOK /\ row \in Row /\ pc[r] = "select"
  BY CurrentRows DEF IInv, Select
<1>2. UNCHANGED <<authority, calls, browser, fills>>
  BY DEF Select
<1>3. Moves(row, b, known')
  <2>1. CASE row.status = "approved" /\ ~ok
    BY <1>1, <2>1, SetMoves DEF Decided
  <2>2. CASE ~(row.status = "approved" /\ ~ok)
    BY <1>1, <2>2, StaysPut
  <2> QED BY <2>1, <2>2
<1>4. ASSUME NEW step \in {"inspect", "idle", "catch"}, NEW result \in {"none", "store"},
             Stepped(r, step, result),
             \A q \in Rows : Moves(rows[q], rows'[q], known'), rows' \in [Rows -> Row],
             upsets' \in 0..MaxUpsets
      PROVE  IInv' /\ Stands
  <2>1. step \in Steps /\ result \in Results
    BY DEF Steps, Results
  <2>2. Typed(r)
    BY <1>1, <1>2, <1>4, TypedKept
  <2> QED BY <1>1, <1>2, <1>4, <2>1, <2>2, ExecKeeps DEF browser, TypeOK
<1>5. CASE /\ rows' = [Current EXCEPT ![r] = b]
           /\ IF ok THEN Continue(r, "inspect", "none") ELSE Leave(r, "idle")
           /\ StoreWorks
  <2>1. \E step \in {"inspect", "idle"} : Stepped(r, step, "none")
    BY <1>5, ContinueStepped, LeaveStepped
  <2>2. upsets' \in 0..MaxUpsets
    BY <1>1, <1>5, UpsetType DEF StoreWorks
  <2>3. rows' \in [Rows -> Row] /\ \A q \in Rows : Moves(rows[q], rows'[q], known')
    BY <1>1, <1>3, <1>5, OneRow
  <2> QED BY <1>4, <2>1, <2>2, <2>3
<1>6. CASE Thrown(r) /\ UNCHANGED rows
  <2>1. Stepped(r, "catch", "store") /\ upsets' \in 0..MaxUpsets
    BY <1>1, <1>6, ContinueStepped, UpsetType DEF Thrown, StoreFails
  <2>2. rows' \in [Rows -> Row] /\ \A q \in Rows : Moves(rows[q], rows'[q], known')
    BY <1>1, <1>6, StaysPut DEF TypeOK
  <2> QED BY <1>4, <2>1, <2>2
<1> QED BY <1>5, <1>6 DEF Select

LEMMA InspectKeeps ==
    ASSUME IInv, NEW r \in Rows, Inspect(r)
    PROVE  IInv' /\ Stands
<1>1. TypeOK /\ pc[r] = "inspect" /\ UNCHANGED <<store, calls, browser, fills, upsets>>
  BY DEF IInv, Inspect
<1>2. PICK step \in {"catch", "changed", "enter"}, result \in {"gone", "other", "none"} :
         Stepped(r, step, result)
  BY ContinueStepped DEF Inspect
<1>3. rows' \in [Rows -> Row] /\ \A q \in Rows : Moves(rows[q], rows'[q], known')
  BY <1>1, StaysPut DEF TypeOK, store
<1>4. step \in Steps /\ result \in Results
  BY DEF Steps, Results
<1>5. Typed(r)
  BY <1>1, <1>2, <1>3, TypedKept
<1> QED BY <1>1, <1>2, <1>3, <1>4, <1>5, ExecKeeps DEF browser, store, TypeOK

LEMMA ChangedKeeps ==
    ASSUME IInv, NEW r \in Rows, Changed(r)
    PROVE  IInv' /\ Stands
<1> DEFINE b == IF rows[r].status = "approved" THEN Set(rows[r], "needs-user", FALSE) ELSE rows[r]
<1>1. TypeOK /\ rows[r] \in Row /\ pc[r] = "changed" /\ UNCHANGED <<authority, calls, browser, fills, upsets>>
  BY DEF IInv, TypeOK, Changed
<1>2. Moves(rows[r], b, known')
  BY <1>1, SetMoves, StaysPut DEF Decided
<1>3. rows' = [rows EXCEPT ![r] = b]
  BY <1>1 DEF Changed, TypeOK
<1>4. rows' \in [Rows -> Row] /\ \A q \in Rows : Moves(rows[q], rows'[q], known')
  BY <1>1, <1>2, <1>3, OneRow
<1>5. Stepped(r, "idle", "none") /\ "idle" \in Steps /\ "none" \in Results
  BY LeaveStepped DEF Changed, Steps, Results
<1>6. Typed(r)
  BY <1>1, <1>4, <1>5, TypedKept
<1> QED BY <1>1, <1>4, <1>5, <1>6, ExecKeeps DEF browser, TypeOK

LEMMA EnterKeeps ==
    ASSUME IInv, NEW r \in Rows, Enter(r)
    PROVE  IInv' /\ Stands
<1>1. TypeOK /\ pc[r] = "enter" /\ UNCHANGED <<store, calls, sess, known, fills, upsets>>
  BY DEF IInv, Enter
<1>2. PICK step \in {"catch", "authorize"}, result \in {"gone", "other", "change", "none"} :
         Stepped(r, step, result)
  BY ContinueStepped DEF Enter
<1>3. lease' \in {lease, [lease EXCEPT ![rows[r].session] = r]}
  BY DEF Enter
<1>4. rows' \in [Rows -> Row] /\ \A q \in Rows : Moves(rows[q], rows'[q], known')
  BY <1>1, StaysPut DEF TypeOK, store
<1>5. step \in Steps /\ result \in Results /\ result # "ok"
  BY DEF Steps, Results, InLease
<1>6. Typed(r)
  BY <1>1, <1>2, <1>4, TypedKept
<1> QED BY <1>1, <1>2, <1>3, <1>4, <1>5, <1>6, ExecKeeps DEF store, TypeOK

\* Inside the lease, where what is written goes through Settle.
LEMMA InLeaseKeeps ==
    ASSUME IInv, NEW r \in Rows, NEW step, NEW result, NEW new \in [Rows -> Row],
           step \in InLease \cup {"report", "catch"}, result \in Results,
           Stepped(r, step, result), pc[r] # "idle",
           \A q \in Rows : Moves(rows[q], new[q], known'), Settle(r, new),
           known' \in {known, known \cup {rows[r].session}},
           UNCHANGED <<authority, sess>>, upsets' \in 0..MaxUpsets,
           result = "ok" => rows[r].session \in known',
           \/ /\ fills' = fills
              /\ \/ pc[r] \notin {"idle", "fill", "report", "retrieve", "catch"}
                 \/ step \in {"idle", "report", "catch"}
                 \/ step = "retrieve" /\ r \in supplied
           \/ /\ step = "fill" /\ pc[r] = "recheck" /\ new[r].status = "authenticating"
              /\ fills' = [fills EXCEPT ![r] = fills[r] + 1]
    PROVE  IInv' /\ Stands
<1>1. TypeOK /\ step \in Steps /\ pc'[r] = step
  BY DEF IInv, Steps, Stepped, TypeOK
<1>2. /\ rows' \in [Rows -> Row] /\ \A q \in Rows : Moves(rows[q], rows'[q], known')
      /\ calls' \in {calls, StaleCalls(rows[r].session)}
      /\ lease' \in {lease, [lease EXCEPT ![rows[r].session] = None]}
      /\ rows'[r].status = new[r].status
  BY SettleKeeps
<1>3. fills' \in [Rows -> Nat] /\ \A q \in Rows : q # r => fills'[q] = fills[q]
  BY <1>1 DEF TypeOK
<1>4. Typed(r)
  <2>1. CASE fills' = fills
    <3>1. CASE fills[r] = 0
      BY <2>1, <3>1 DEF Typed
    <3>2. CASE fills[r] # 0
      <4>1. \/ pc[r] \notin {"idle", "fill", "report", "retrieve", "catch"}
            \/ step \in {"idle", "report", "catch"}
            \/ step = "retrieve" /\ r \in supplied
        BY <1>1, <2>1, <3>2 DEF TypeOK
      <4> QED BY <1>2, <2>1, <4>1, TypedKept
    <3> QED BY <3>1, <3>2
  <2>2. CASE fills' # fills
    <3>1. step = "fill" /\ pc[r] = "recheck" /\ new[r].status = "authenticating"
          /\ fills'[r] = fills[r] + 1
      BY <1>1, <2>2 DEF TypeOK
    <3>2. fills[r] = 0
      BY <1>1, <3>1 DEF IInv, Stage, TypeOK
    <3> QED BY <1>1, <1>2, <3>1, <3>2 DEF Typed
  <2> QED BY <2>1, <2>2
<1> QED BY <1>1, <1>2, <1>3, <1>4, ExecKeeps

LEMMA AuthorizeKeeps ==
    ASSUME IInv, NEW r \in Rows, Authorize(r)
    PROVE  IInv' /\ Stands
<1> DEFINE row == Current[r]
           ok == row.status = "approved" /\ GrantValid(row)
           b == IF ok THEN Set(row, "authenticating", FALSE)
                ELSE IF row.status = "approved" THEN Set(row, "denied", FALSE)
                ELSE row
           decided == [Current EXCEPT ![r] = b]
<1>1. TypeOK /\ row \in Row /\ pc[r] = "authorize" /\ UNCHANGED <<authority, sess, known, fills>>
  BY CurrentRows DEF IInv, Authorize
<1>2. Moves(row, b, known')
  <2>1. CASE ok
    BY <1>1, <2>1, SetMoves DEF Decided, Waiting
  <2>2. CASE ~ok /\ row.status = "approved"
    BY <1>1, <2>2, SetMoves DEF Decided
  <2>3. CASE ~ok /\ row.status # "approved"
    BY <1>1, <2>3, StaysPut
  <2> QED BY <2>1, <2>2, <2>3
<1>3. decided \in [Rows -> Row] /\ \A q \in Rows : Moves(rows[q], decided[q], known')
  <2> HIDE DEF b
  <2> QED BY <1>1, <1>2, OneRow
<1>4. rows \in [Rows -> Row] /\ \A q \in Rows : Moves(rows[q], rows[q], known')
  BY <1>1, StaysPut DEF TypeOK
<1>5. PICK new \in {rows, decided} : Settle(r, new)
  BY DEF Authorize
<1>6. upsets' \in 0..MaxUpsets
  BY <1>1, UpsetType DEF Authorize, StoreWorks, Thrown, StoreFails
<1>7. \E step \in {"retrieve", "report", "catch"}, result \in {"none", "quiet", "store"} :
         Stepped(r, step, result)
  BY ContinueStepped DEF Authorize, Thrown
<1> HIDE DEF decided
<1> QED BY <1>1, <1>3, <1>4, <1>5, <1>6, <1>7, InLeaseKeeps DEF InLease, Results

LEMMA RetrieveKeeps ==
    ASSUME IInv, NEW r \in Rows, Retrieve(r)
    PROVE  IInv' /\ Stands
<1>1. TypeOK /\ pc[r] = "retrieve" /\ UNCHANGED <<authority, sess, known, fills, upsets>>
      /\ Settle(r, rows)
  BY DEF IInv, Retrieve
<1>2. rows \in [Rows -> Row] /\ \A q \in Rows : Moves(rows[q], rows[q], known')
  BY <1>1, StaysPut DEF TypeOK
<1>3. upsets' \in 0..MaxUpsets
  BY <1>1, UpsetType
<1>4. CASE r \notin supplied
  <2>1. fills[r] = 0
    BY <1>1, <1>4 DEF IInv, Stage, TypeOK
  <2>2. PICK step \in {"recheck", "report"}, result \in {"none", "quiet"} : Stepped(r, step, result)
    BY <1>4, ContinueStepped DEF Retrieve
  <2>3. Typed(r)
    BY <1>1, <2>1 DEF Typed
  <2>4. step \in Steps /\ result \in Results /\ result # "ok"
    BY DEF Steps, InLease, Results
  <2>5. /\ rows' \in [Rows -> Row] /\ \A q \in Rows : Moves(rows[q], rows'[q], known')
        /\ calls' \in {calls, StaleCalls(rows[r].session)}
        /\ lease' \in {lease, [lease EXCEPT ![rows[r].session] = None]}
    BY <1>1, <1>2, SettleKeeps
  <2> QED BY <1>1, <1>3, <2>2, <2>3, <2>4, <2>5, ExecKeeps DEF TypeOK
<1>5. CASE r \in supplied
  <2>1. \E result \in {"ok", "typed"} : Stepped(r, "report", result) /\ (result = "ok" => rows[r].session \in known)
    BY <1>5, ContinueStepped DEF Retrieve
  <2> QED BY <1>1, <1>2, <1>3, <2>1, InLeaseKeeps DEF Results
<1> QED BY <1>4, <1>5

LEMMA RecheckKeeps ==
    ASSUME IInv, NEW r \in Rows, Recheck(r)
    PROVE  IInv' /\ Stands
<1> DEFINE ok == Current[r].status = "authenticating" /\ GrantValid(Current[r])
<1>1. TypeOK /\ pc[r] = "recheck" /\ UNCHANGED <<authority, sess, known>>
  BY DEF IInv, Recheck
<1>2. rows \in [Rows -> Row] /\ \A q \in Rows : Moves(rows[q], rows[q], known')
  BY <1>1, StaysPut DEF TypeOK
<1>3. Current \in [Rows -> Row] /\ \A q \in Rows : Moves(rows[q], Current[q], known')
  BY <1>1, CurrentRows, CurrentMoves
<1>4. upsets' \in 0..MaxUpsets
  BY <1>1, UpsetType DEF Recheck, StoreWorks, Thrown, StoreFails
<1>5. CASE /\ StoreWorks /\ ok
           /\ Continue(r, "fill", "none") /\ Settle(r, Current)
           /\ fills' = [fills EXCEPT ![r] = fills[r] + 1]
  <2>1. Stepped(r, "fill", "none") /\ Current[r].status = "authenticating"
    BY <1>5, ContinueStepped
  <2> QED BY <1>1, <1>3, <1>4, <1>5, <2>1, InLeaseKeeps DEF InLease, Results
<1>6. CASE /\ StoreWorks /\ ~ok
           /\ Continue(r, "report", "quiet") /\ Settle(r, Current)
           /\ fills' = [fills EXCEPT ![r] = fills[r]]
  <2>1. Stepped(r, "report", "quiet") /\ fills' = fills
    BY <1>1, <1>6, ContinueStepped DEF TypeOK
  <2> QED BY <1>1, <1>3, <1>4, <1>6, <2>1, InLeaseKeeps DEF Results
<1>7. CASE Thrown(r) /\ Settle(r, rows) /\ UNCHANGED fills
  <2>1. Stepped(r, "catch", "store")
    BY <1>7, ContinueStepped DEF Thrown
  <2> QED BY <1>1, <1>2, <1>4, <1>7, <2>1, InLeaseKeeps DEF Results
<1>8. ok \/ ~ok
  OBVIOUS
<1> QED BY <1>5, <1>6, <1>7, <1>8 DEF Recheck

LEMMA FillKeeps ==
    ASSUME IInv, NEW r \in Rows, Fill(r) \/ Interrupted(r)
    PROVE  IInv' /\ Stands
<1>1. TypeOK /\ UNCHANGED <<authority, sess, fills, upsets>> /\ Settle(r, rows) /\ pc[r] # "idle"
  BY DEF IInv, Fill, Interrupted
<1>2. rows \in [Rows -> Row] /\ \A q \in Rows : Moves(rows[q], rows[q], known')
  BY <1>1, StaysPut DEF TypeOK
<1>3. upsets' \in 0..MaxUpsets
  BY <1>1, UpsetType
<1>4. known' \in {known, known \cup {rows[r].session}}
  BY DEF Fill, Interrupted
<1>5. CASE Fill(r)
  <2>1. r \in supplied
    BY <1>5 DEF Fill, IInv, Stage
  <2>2. \E step \in {"report", "retrieve"}, result \in {"ok", "typed", "none"} :
           Stepped(r, step, result) /\ (result = "ok" => rows[r].session \in known')
    BY <1>5, ContinueStepped DEF Fill
  <2> QED BY <1>1, <1>2, <1>3, <1>4, <2>1, <2>2, InLeaseKeeps DEF InLease, Results
<1>6. CASE Interrupted(r)
  <2>1. Stepped(r, "catch", "abort")
    BY <1>6, ContinueStepped DEF Interrupted
  <2> QED BY <1>1, <1>2, <1>3, <1>4, <2>1, InLeaseKeeps DEF Results
<1> QED BY <1>5, <1>6

\* The last mutation of an execution.
LEMMA ReportedMoves ==
    ASSUME NEW a \in Row, a.status = "authenticating", NEW result, NEW told \in BOOLEAN, NEW k,
           result = "ok" => a.session \in k,
           NEW b \in Reported(a, result, told)
    PROVE  Moves(a, b, k)
<1>1. CASE result = "ok"
  BY <1>1, SetMoves DEF Reported, Decided
<1>2. CASE result = "typed"
  <2>1. Moves(a, Set(a, "needs-user", TRUE), k) /\ Set(a, "needs-user", TRUE) \in Row
    BY SetMoves DEF Decided, Moves
  <2>2. b = [Set(a, "needs-user", TRUE) EXCEPT !.told = told]
    BY <1>2 DEF Reported
  <2>3. Moves(Set(a, "needs-user", TRUE), b, k)
    BY <2>1, <2>2, MarkMoves
  <2> QED BY <2>1, <2>3, MovesOn
<1>3. CASE result \notin {"ok", "typed"}
  <2>1. b \in {Set(a, "needs-user", FALSE), Set(a, "failed", FALSE)}
    BY <1>3 DEF Reported
  <2> QED BY <2>1, SetMoves DEF Decided
<1> QED BY <1>1, <1>2, <1>3

LEMMA ReportKeeps ==
    ASSUME IInv, NEW r \in Rows, Report(r)
    PROVE  IInv' /\ Stands
<1>1. TypeOK /\ Current[r] \in Row /\ pc[r] = "report" /\ UNCHANGED <<authority, calls, browser, fills>>
  BY CurrentRows DEF IInv, Report
<1>2. CASE Thrown(r) /\ UNCHANGED rows
  <2>1. Stepped(r, "catch", "store") /\ upsets' \in 0..MaxUpsets
    BY <1>1, <1>2, ContinueStepped, UpsetType DEF Thrown, StoreFails
  <2>2. rows' \in [Rows -> Row] /\ \A q \in Rows : Moves(rows[q], rows'[q], known')
    BY <1>1, <1>2, StaysPut DEF TypeOK
  <2>3. Typed(r)
    BY <1>1, <2>1, <2>2, TypedKept
  <2> QED BY <1>1, <2>1, <2>2, <2>3, ExecKeeps DEF Steps, Results, browser, TypeOK
<1>3. CASE /\ \E told \in BOOLEAN :
                 \E row \in IF Current[r].status = "authenticating"
                            THEN Reported(Current[r], res[r], told) ELSE {Current[r]} :
                   rows' = [Current EXCEPT ![r] = row]
           /\ StoreWorks
           /\ Leave(r, "idle")
  <2>1. PICK told \in BOOLEAN :
           \E row \in IF Current[r].status = "authenticating"
                      THEN Reported(Current[r], res[r], told) ELSE {Current[r]} :
             rows' = [Current EXCEPT ![r] = row]
    BY <1>3
  <2>2. PICK row \in IF Current[r].status = "authenticating"
                    THEN Reported(Current[r], res[r], told) ELSE {Current[r]} :
             rows' = [Current EXCEPT ![r] = row]
    BY <2>1
  <2>3. res[r] = "ok" => Current[r].session \in known'
    <3>1. Current[r].session = rows[r].session
      BY <1>1, CurrentMoves DEF Moves
    <3> QED BY <1>1, <3>1 DEF IInv, Stage, browser
  <2>4. Moves(Current[r], row, known')
    <3>1. CASE Current[r].status = "authenticating"
      BY <1>1, <2>2, <2>3, <3>1, ReportedMoves
    <3>2. CASE Current[r].status # "authenticating"
      BY <1>1, <2>2, <3>2, StaysPut
    <3> QED BY <3>1, <3>2
  <2>5. rows' \in [Rows -> Row] /\ \A q \in Rows : Moves(rows[q], rows'[q], known')
    BY <1>1, <2>2, <2>4, OneRow
  <2>6. Stepped(r, "idle", "none") /\ upsets' \in 0..MaxUpsets
    BY <1>1, <1>3, LeaveStepped, UpsetType DEF StoreWorks
  <2>7. Typed(r)
    BY <1>1, <2>5, <2>6, TypedKept
  <2> QED BY <1>1, <2>5, <2>6, <2>7, ExecKeeps DEF Steps, Results, browser, TypeOK
<1> QED BY <1>2, <1>3 DEF Report

LEMMA CaughtMoves ==
    ASSUME NEW a \in Row, NEW r, NEW k
    PROVE  Moves(a, Caught(a, r), k)
<1>1. CASE a.status \notin {"approved", "authenticating"}
  BY <1>1, StaysPut DEF Caught
<1>2. CASE a.status \in {"approved", "authenticating"}
  <2>a. a.status \notin Decided \cup {"absent"}
    BY <1>2 DEF Decided
  <2>b. Moves(a, Set(a, "needs-user", TRUE), k)
    BY <2>a, SetMoves
  <2>c. Moves(a, Set(a, "needs-user", FALSE), k)
    BY <2>a, SetMoves
  <2>1. Moves(a, Set(a, "failed", FALSE), k)
    BY <2>a, SetMoves
  <2>2. Moves(a, [Set(a, "needs-user", TRUE) EXCEPT !.told = TRUE], k)
    <3> DEFINE x == Set(a, "needs-user", TRUE)
    <3>1. x \in Row
      BY <2>b DEF Moves
    <3> HIDE DEF x
    <3>2. Moves(x, [x EXCEPT !.told = TRUE], k)
      BY <3>1, MarkMoves
    <3> QED BY <2>b, <3>2, MovesOn DEF x
  <2>3. Moves(a, a, k)
    BY StaysPut
  <2>4. Caught(a, r) \in {a, Set(a, "needs-user", TRUE), Set(a, "needs-user", FALSE),
                         Set(a, "failed", FALSE),
                         [Set(a, "needs-user", TRUE) EXCEPT !.told = TRUE]}
    BY DEF Caught
  <2> QED BY <2>b, <2>c, <2>1, <2>2, <2>3, <2>4
<1> QED BY <1>1, <1>2

LEMMA CatchKeeps ==
    ASSUME IInv, NEW r \in Rows, Catch(r)
    PROVE  IInv' /\ Stands
<1> DEFINE caught == [rows EXCEPT ![r] = Caught(rows[r], r)]
<1>1. TypeOK /\ rows[r] \in Row /\ pc[r] = "catch" /\ UNCHANGED <<authority, calls, browser, fills>>
  BY DEF IInv, TypeOK, Catch
<1>2. rows' \in {rows, caught} /\ \E error \in BOOLEAN : Again(r, error)
  BY Zenon DEF Catch
<1>3. caught \in [Rows -> Row] /\ \A q \in Rows : Moves(rows[q], caught[q], known')
  BY <1>1, CaughtMoves, OneRow
<1>4. rows \in [Rows -> Row] /\ \A q \in Rows : Moves(rows[q], rows[q], known')
  BY <1>1, StaysPut DEF TypeOK
<1> HIDE DEF caught
<1>5. rows' \in [Rows -> Row] /\ \A q \in Rows : Moves(rows[q], rows'[q], known')
  BY <1>2, <1>3, <1>4
<1>6. upsets' \in 0..MaxUpsets
  BY <1>1, UpsetType DEF Catch, StoreWorks, StoreFails
<1>7. CASE rows'[r].status = "approved"
  <2>1. rows[r].status = "approved"
    BY <1>5, <1>7 DEF Moves
  <2>2. fills[r] = 0
    BY <1>1, <2>1 DEF IInv, Stage, TypeOK
  <2>3. \E step \in {"idle", "pause"} : Stepped(r, step, "none")
    BY <1>2, LeaveStepped DEF Again
  <2>4. Typed(r)
    BY <1>1, <2>2 DEF Typed
  <2> QED BY <1>1, <1>5, <1>6, <2>3, <2>4, ExecKeeps DEF Steps, Results, browser, TypeOK
<1>8. CASE rows'[r].status # "approved"
  <2>1. Stepped(r, "idle", "none")
    BY <1>2, <1>8, LeaveStepped DEF Again
  <2>2. Typed(r)
    BY <1>1, <1>5, <2>1, TypedKept
  <2> QED BY <1>1, <1>5, <1>6, <2>1, <2>2, ExecKeeps DEF Steps, Results, browser, TypeOK
<1> QED BY <1>7, <1>8

LEMMA AttemptKeeps ==
    ASSUME IInv, NEW r \in Rows, Attempt(r)
    PROVE  IInv' /\ Stands
<1>1. TypeOK /\ pc[r] = "pause"
      /\ UNCHANGED <<store, again, aborted, supplied, calls, browser, fills, upsets>>
  BY DEF IInv, Attempt
<1>2. rows' \in [Rows -> Row] /\ \A q \in Rows : Moves(rows[q], rows'[q], known')
  BY <1>1, StaysPut DEF TypeOK, store
<1>3. Stepped(r, "select", "none")
  BY <1>1 DEF Attempt, Goto, Stepped
<1>4. Typed(r)
  BY <1>1, <1>2, <1>3, TypedKept
<1> QED BY <1>1, <1>2, <1>3, <1>4, ExecKeeps DEF Steps, Results, browser, store, TypeOK

LEMMA ExecutionKeeps ==
    ASSUME IInv, Execution
    PROVE  IInv' /\ Stands
<1>1. PICK r \in Rows :
         \/ Select(r) \/ Inspect(r) \/ Changed(r) \/ Enter(r) \/ Authorize(r)
         \/ Retrieve(r) \/ Recheck(r) \/ Fill(r) \/ Interrupted(r) \/ Report(r)
         \/ Catch(r) \/ Attempt(r)
  BY DEF Execution
<1> QED BY <1>1, SelectKeeps, InspectKeeps, ChangedKeeps, EnterKeeps, AuthorizeKeeps,
           RetrieveKeeps, RecheckKeeps, FillKeeps, ReportKeeps, CatchKeeps, AttemptKeeps

-----------------------------------------------------------------------------
(* Calls and the environment.                                               *)

\* A row that a step makes or approves, rather than moves on.
Made(q) ==
    /\ rows'[q].status # "absent" /\ RowInv(rows'[q])
    /\ rows[q].status # "absent" => rows'[q].session = rows[q].session
    /\ rows[q].status \notin Decided
    /\ rows[q].next # None => rows'[q].next = rows[q].next
    /\ rows'[q].status \in Waiting =>
         /\ ~revoked' /\ rows'[q].version = enrolled'
         /\ rows'[q].policy # 0 => rows'[q].policy = live'
    /\ rows'[q].status = "succeeded" => rows'[q].session \in known'

\* A row that moves on has no authority but what it had.
Kept(q) ==
    /\ Moves(rows[q], rows'[q], known')
    /\ rows'[q].status \in Waiting =>
         /\ enrolled' = enrolled /\ revoked' = revoked
         /\ rows'[q].policy # 0 => live' = live

LEMMA StepKeeps ==
    ASSUME IInv, TypeOK', known \subseteq known',
           \A q \in Rows : Kept(q) \/ Made(q),
           \A q \in Rows : Stage(q)',
           \A c \in calls' : CallOK(c),
           \A s \in Sessions : lease'[s] \in Rows => rows[lease'[s]].status # "absent"
    PROVE  IInv' /\ Stands
<1>1. \A q \in Rows : rows[q].status # "absent" =>
         rows'[q].status # "absent" /\ rows'[q].session = rows[q].session
  BY DEF Kept, Made, Moves
<1>2. NoStaleAuthority'
  <2> SUFFICES ASSUME NEW q \in Rows, rows'[q].status \in Waiting
               PROVE  /\ ~revoked' /\ rows'[q].version = enrolled'
                      /\ rows'[q].policy # 0 => rows'[q].policy = live'
    BY DEF NoStaleAuthority, Waiting
  <2> QED BY DEF IInv, NoStaleAuthority, Kept, Made, Moves, Waiting
<1>3. SuccessWasSeen'
  <2> SUFFICES ASSUME NEW q \in Rows, rows'[q].status = "succeeded"
               PROVE  rows'[q].session \in known'
    BY DEF SuccessWasSeen
  <2> QED BY DEF IInv, SuccessWasSeen, Kept, Made, Moves
<1>4. Stands
  <2> SUFFICES ASSUME NEW q \in Rows
               PROVE  /\ rows[q].status \in Decided => rows'[q].status = rows[q].status
                      /\ rows[q].next # None => rows'[q].next = rows[q].next
    BY DEF Stands
  <2> QED BY DEF Kept, Made, Moves
<1>5. \A q \in Rows : RowInv(rows'[q])
  <2> SUFFICES ASSUME NEW q \in Rows PROVE RowInv(rows'[q])
    OBVIOUS
  <2>1. CASE Kept(q)
    BY <2>1 DEF IInv, RowInv, Kept, Moves
  <2>2. CASE Made(q)
    BY <2>2 DEF Made
  <2> QED BY <2>1, <2>2
<1>6. LeaseInv'
  BY <1>1 DEF LeaseInv
<1>7. \A c \in calls' : CallOK(c)'
  BY <1>1 DEF CallOK, TypeOK, Call
<1> QED BY <1>2, <1>3, <1>4, <1>5, <1>6, <1>7 DEF IInv

\* A step that leaves the executions alone and moves rows on.
LEMMA QuietKeeps ==
    ASSUME IInv, rows' \in [Rows -> Row], \A q \in Rows : Kept(q),
           enrolled' \in 0..MaxVersion, policies' \in 0..MaxPolicies,
           live' \in 0..policies', revoked' \in BOOLEAN,
           UNCHANGED <<pc, res, again, supplied, fills>>, aborted' \subseteq Rows,
           known \subseteq known', known' \subseteq Sessions,
           calls' \subseteq Call, \A c \in calls' : CallOK(c),
           sess' \in [Sessions -> {"new", "open", "closed"}],
           lease' \in [Sessions -> Rows \cup {None, Owner}],
           \A s \in Sessions : lease'[s] \in Rows => rows[lease'[s]].status # "absent",
           upsets' \in 0..MaxUpsets
    PROVE  IInv' /\ Stands
<1>1. TypeOK'
  BY DEF IInv, TypeOK
<1>2. \A q \in Rows : Stage(q)'
  <2> SUFFICES ASSUME NEW q \in Rows PROVE Stage(q)'
    OBVIOUS
  <2> QED BY StageKept DEF Kept
<1> QED BY <1>1, <1>2, StepKeeps

\* What a step has when it leaves the authority, the calls and the browser alone.
LEMMA AuthoritySame ==
    ASSUME TypeOK, UNCHANGED authority
    PROVE  /\ enrolled' \in 0..MaxVersion /\ policies' \in 0..MaxPolicies
           /\ live' \in 0..policies' /\ revoked' \in BOOLEAN
           /\ \A q \in Rows : Moves(rows[q], rows'[q], known') => Kept(q)
BY DEF TypeOK, authority, Kept

LEMMA CallsSame ==
    ASSUME IInv, calls' \subseteq calls
    PROVE  calls' \subseteq Call /\ \A c \in calls' : CallOK(c)
BY DEF IInv, TypeOK

LEMMA BrowserSame ==
    ASSUME IInv, UNCHANGED lease
    PROVE  /\ lease' \in [Sessions -> Rows \cup {None, Owner}]
           /\ \A s \in Sessions : lease'[s] \in Rows => rows[lease'[s]].status # "absent"
BY DEF IInv, TypeOK, LeaseInv

\* A call begins.
LEMMA BeginKeeps ==
    ASSUME IInv, NEW c \in Call, CallOK(c), calls' = calls \cup {c},
           UNCHANGED <<store, running, browser, fills, upsets>>
    PROVE  IInv' /\ Stands
<1>1. TypeOK /\ rows' \in [Rows -> Row]
  BY DEF IInv, TypeOK, store
<1>2. \A q \in Rows : Moves(rows[q], rows'[q], known')
  BY <1>1, StaysPut DEF store, TypeOK
<1>3. calls' \subseteq Call /\ \A d \in calls' : CallOK(d)
  BY DEF IInv, TypeOK
<1>4. upsets' \in 0..MaxUpsets /\ aborted' \subseteq Rows /\ known' \subseteq Sessions
      /\ sess' \in [Sessions -> {"new", "open", "closed"}]
  BY <1>1 DEF TypeOK, running, browser
<1>5. UNCHANGED authority /\ UNCHANGED <<pc, res, again, supplied, fills, lease, known>>
  BY DEF store, running, browser
<1> QED BY <1>1, <1>2, <1>3, <1>4, <1>5, AuthoritySame, BrowserSame, QuietKeeps

LEMMA BeginRequestKeeps ==
    ASSUME IInv, NEW s \in Sessions, BeginRequest(s)
    PROVE  IInv' /\ Stands
<1>1. PICK p \in Purposes(s) :
         calls' = calls \cup {[op |-> "request", session |-> s, row |-> None,
                               version |-> enrolled, purpose |-> p, rows |-> {},
                               fresh |-> TRUE]}
  BY DEF BeginRequest
<1> DEFINE c == [op |-> "request", session |-> s, row |-> None, version |-> enrolled,
                 purpose |-> p, rows |-> {}, fresh |-> TRUE]
<1>2. p \in {"login", "in"} /\ (p = "in" => s \in known)
  BY DEF Purposes
<1>3. c \in Call /\ CallOK(c)
  BY <1>2 DEF Call, CallOK, IInv, TypeOK
<1>4. UNCHANGED <<store, running, browser, fills, upsets>>
  BY DEF BeginRequest
<1> HIDE DEF c
<1>5. calls' = calls \cup {c}
  BY <1>1 DEF c
<1> QED BY <1>3, <1>4, <1>5, BeginKeeps

LEMMA BeginRetryKeeps ==
    ASSUME IInv, NEW r \in Rows, BeginRetry(r)
    PROVE  IInv' /\ Stands
<1> DEFINE c == [op |-> "retry", session |-> rows[r].session, row |-> r,
                 version |-> enrolled, purpose |-> "login", rows |-> {}, fresh |-> TRUE]
<1>1. rows[r].session \in Sessions /\ rows[r].status # "absent"
  BY DEF BeginRetry, Retryable, IInv, RowInv
<1>2. c \in Call /\ CallOK(c)
  BY <1>1 DEF Call, CallOK, IInv, TypeOK
<1>3. UNCHANGED <<store, running, browser, fills, upsets>> /\ calls' = calls \cup {c}
  BY DEF BeginRetry
<1> HIDE DEF c
<1> QED BY <1>2, <1>3, BeginKeeps

LEMMA BeginCompleteKeeps ==
    ASSUME IInv, NEW s \in Sessions, BeginComplete(s)
    PROVE  IInv' /\ Stands
<1> DEFINE candidates == {r \in RowsIn(s) : rows[r].status \in Completable}
           c == [op |-> "complete", session |-> s, row |-> None, version |-> enrolled,
                 purpose |-> "in", rows |-> candidates, fresh |-> TRUE]
<1>1. s \in known
  BY DEF BeginComplete, Purposes
<1>2. candidates \subseteq Rows
      /\ \A r \in candidates : rows[r].status # "absent" /\ rows[r].session = s
  BY DEF RowsIn, Completable
<1>3. UNCHANGED <<store, running, browser, fills, upsets>> /\ calls' = calls \cup {c}
  BY DEF BeginComplete
<1> HIDE DEF candidates
<1>4. c \in Call /\ CallOK(c)
  BY <1>1, <1>2 DEF Call, CallOK, IInv, TypeOK
<1> HIDE DEF c
<1> QED BY <1>3, <1>4, BeginKeeps

LEMMA EndCallKeeps ==
    ASSUME IInv, NEW c \in calls, EndCall(c)
    PROVE  IInv' /\ Stands
<1>1. TypeOK /\ rows' \in [Rows -> Row] /\ calls' \subseteq calls
  BY DEF IInv, TypeOK, store, EndCall
<1>2. \A q \in Rows : Moves(rows[q], rows'[q], known')
  BY <1>1, StaysPut DEF store, TypeOK, EndCall
<1>3. upsets' \in 0..MaxUpsets /\ aborted' \subseteq Rows /\ known' \subseteq Sessions
      /\ sess' \in [Sessions -> {"new", "open", "closed"}]
  BY <1>1 DEF TypeOK, running, browser, EndCall
<1>4. UNCHANGED authority /\ UNCHANGED <<pc, res, again, supplied, fills, lease, known>>
  BY DEF store, running, browser, EndCall
<1> QED BY <1>1, <1>2, <1>3, <1>4, AuthoritySame, CallsSame, BrowserSame, QuietKeeps

\* A step of the store: rows move on, calls and browsers stay.
LEMMA OwnerKeeps ==
    ASSUME IInv, rows' \in [Rows -> Row], \A q \in Rows : Kept(q),
           enrolled' \in 0..MaxVersion, policies' \in 0..MaxPolicies,
           live' \in 0..policies', revoked' \in BOOLEAN,
           UNCHANGED <<pc, res, again, supplied, calls, browser, fills>>,
           aborted' \subseteq Rows, upsets' \in 0..MaxUpsets
    PROVE  IInv' /\ Stands
<1>1. UNCHANGED <<known, lease>> /\ known' \subseteq Sessions /\ calls' \subseteq calls
      /\ sess' \in [Sessions -> {"new", "open", "closed"}]
  BY DEF IInv, TypeOK, browser
<1> QED BY <1>1, CallsSame, BrowserSame, QuietKeeps

LEMMA AbortType ==
    ASSUME TypeOK, NEW S, NEW n \in Nat, Abort(S, n)
    PROVE  aborted' \subseteq Rows /\ upsets' \in 0..MaxUpsets
<1>1. aborted' \in {aborted, aborted \cup (S \cap ActiveRows)}
      /\ \E m \in {n, n + 1} : Upset(m)
  BY DEF Abort
<1>2. PICK m \in {n, n + 1} : Upset(m)
  BY <1>1
<1> QED BY <1>1, <1>2, UpsetType DEF TypeOK, ActiveRows

LEMMA PollKeeps ==
    ASSUME IInv, Poll
    PROVE  IInv' /\ Stands
<1>1. TypeOK /\ rows' = Current /\ UNCHANGED authority
  BY DEF IInv, Poll
<1>2. rows' \in [Rows -> Row] /\ \A q \in Rows : Moves(rows[q], rows'[q], known')
  BY <1>1, CurrentRows, CurrentMoves
<1>3. UNCHANGED <<pc, res, again, supplied, calls, browser, fills>> /\ aborted' \subseteq Rows
      /\ upsets' \in 0..MaxUpsets
  BY <1>1 DEF Poll, running, TypeOK
<1> QED BY <1>1, <1>2, <1>3, AuthoritySame, OwnerKeeps

LEMMA CancelKeeps ==
    ASSUME IInv, NEW r \in Rows, Cancel(r)
    PROVE  IInv' /\ Stands
<1> DEFINE row == Current[r]
           b == IF row.status = "authenticating" \/ (row.status = "needs-user" /\ Running(r))
                THEN Set(row, "needs-user", TRUE)
                ELSE IF row.status \in Open THEN Set(row, "cancelled", FALSE) ELSE row
<1>1. TypeOK /\ row \in Row /\ UNCHANGED authority /\ rows' = [Current EXCEPT ![r] = b]
  BY CurrentRows DEF IInv, Cancel
<1>2. Moves(row, b, known')
  <2>1. CASE row.status \in Open
    <3>1. row.status \notin Decided \cup {"absent"}
      BY <2>1 DEF Open, Decided
    <3>2. Moves(row, Set(row, "needs-user", TRUE), known')
      BY <1>1, <3>1, SetMoves
    <3>3. Moves(row, Set(row, "cancelled", FALSE), known')
      BY <1>1, <3>1, SetMoves
    <3> QED BY <2>1, <3>2, <3>3
  <2>2. CASE row.status \notin Open
    <3>1. row.status \notin {"authenticating", "needs-user"}
      BY <2>2 DEF Open
    <3> QED BY <1>1, <2>2, <3>1, StaysPut
  <2> QED BY <2>1, <2>2
<1> HIDE DEF b
<1>3. rows' \in [Rows -> Row] /\ \A q \in Rows : Moves(rows[q], rows'[q], known')
  BY <1>1, <1>2, OneRow
<1>4. UNCHANGED <<pc, res, again, supplied, calls, browser, fills>>
  BY DEF Cancel
<1>5. aborted' \subseteq Rows /\ upsets' \in 0..MaxUpsets
  BY <1>1, AbortType DEF Cancel
<1> QED BY <1>1, <1>3, <1>4, <1>5, AuthoritySame, OwnerKeeps

LEMMA DenyKeeps ==
    ASSUME IInv, NEW r \in Rows, Deny(r)
    PROVE  IInv' /\ Stands
<1> DEFINE b == Set(Current[r], "denied", MayHaveSubmitted(r, Current[r]))
<1>1. TypeOK /\ Current[r] \in Row /\ UNCHANGED authority /\ rows' = [Current EXCEPT ![r] = b]
  BY CurrentRows DEF IInv, Deny
<1>2. MayHaveSubmitted(r, Current[r]) \in BOOLEAN
  BY Zenon DEF MayHaveSubmitted
<1>3. Current[r].status \notin Decided \cup {"absent"}
  BY DEF Deny, Open, Decided
<1>4. Moves(Current[r], b, known')
  BY <1>1, <1>2, <1>3, SetMoves
<1> HIDE DEF b
<1>5. rows' \in [Rows -> Row] /\ \A q \in Rows : Moves(rows[q], rows'[q], known')
  BY <1>1, <1>4, OneRow
<1>6. UNCHANGED <<pc, res, again, supplied, calls, browser, fills>>
  BY DEF Deny
<1>7. aborted' \subseteq Rows /\ upsets' \in 0..MaxUpsets
  <2>1. PICK S \in {{}, {r}} : Abort(S, 0)
    BY DEF Deny
  <2> QED BY <1>1, <2>1, AbortType
<1> QED BY <1>1, <1>5, <1>6, <1>7, AuthoritySame, OwnerKeeps

LEMMA CommitCompleteKeeps ==
    ASSUME IInv, NEW c \in calls, CommitComplete(c)
    PROVE  IInv' /\ Stands
<1> DEFINE done == {r \in c.rows : /\ rows[r].version = c.version
                                   /\ rows[r].status \in Completable
                                   /\ ~Running(r)}
<1>1. TypeOK /\ UNCHANGED <<authority, running, browser, fills, upsets>>
      /\ rows' = [r \in Rows |-> IF r \in done THEN Set(rows[r], "succeeded", FALSE) ELSE rows[r]]
      /\ calls' \subseteq calls
  BY DEF IInv, CommitComplete
<1>2. c.session \in known /\ \A r \in c.rows : rows[r].session = c.session
  BY DEF CommitComplete, IInv, CallOK
<1>3. \A q \in Rows : Moves(rows[q], rows'[q], known')
  <2> SUFFICES ASSUME NEW q \in Rows PROVE Moves(rows[q], rows'[q], known')
    OBVIOUS
  <2>1. rows[q] \in Row
    BY <1>1 DEF TypeOK
  <2>2. CASE q \in done
    <3>1. rows[q].status \notin Decided \cup {"absent"} /\ rows[q].session \in known'
      BY <1>1, <1>2, <2>2 DEF Completable, Decided, browser
    <3>2. Moves(rows[q], Set(rows[q], "succeeded", FALSE), known')
      BY <2>1, <3>1, SetMoves
    <3> QED BY <1>1, <2>2, <3>2
  <2>3. CASE q \notin done
    BY <1>1, <2>1, <2>3, StaysPut
  <2> QED BY <2>2, <2>3
<1>4. rows' \in [Rows -> Row]
  <2>1. \A q \in Rows : rows'[q] \in Row
    BY <1>3 DEF Moves
  <2> QED BY <1>1, <2>1
<1>5. UNCHANGED <<pc, res, again, supplied, fills, known, lease>>
      /\ aborted' \subseteq Rows /\ known' \subseteq Sessions /\ upsets' \in 0..MaxUpsets
      /\ sess' \in [Sessions -> {"new", "open", "closed"}]
  BY <1>1 DEF running, browser, TypeOK
<1> HIDE DEF done
<1> QED BY <1>1, <1>3, <1>4, <1>5, AuthoritySame, CallsSame, BrowserSame, QuietKeeps


\* What a policy authorized, and what expired, is settled when the policy goes.
LEMMA UnauthorizedKept ==
    ASSUME IInv, NEW q \in Rows, NEW k
    PROVE  /\ Moves(rows[q], Unauthorized(Current[q]), k)
           /\ Unauthorized(Current[q]).status \in Waiting => Unauthorized(Current[q]).policy = 0
<1> DEFINE new == Unauthorized(Current[q])
<1>1. Current[q] \in Row /\ Moves(rows[q], Current[q], k)
  BY CurrentRows, CurrentMoves DEF IInv
<1>2. Moves(Current[q], new, k)
  BY <1>1, UnauthorizedMoves
<1>3. Moves(rows[q], new, k)
  BY <1>1, <1>2, MovesOn
<1>4. Current[q].granted /\ Current[q].policy = live /\ live # 0
        => new.status \notin {"approved", "authenticating"}
  BY <1>1, UnauthorizedMoves
<1> HIDE DEF new
<1>5. ASSUME new.status \in Waiting, new.policy # 0
      PROVE  FALSE
  <2>1. rows[q].status \in Waiting /\ rows[q].policy = new.policy
        /\ Current[q].policy = new.policy /\ (rows[q].granted => Current[q].granted)
        /\ (rows[q].status \in Bound => new.status \in Bound)
    BY <1>1, <1>2, <1>3, <1>5 DEF Moves
  <2>2. rows[q].granted /\ rows[q].status \in Bound /\ rows[q].policy = live
    BY <1>5, <2>1 DEF IInv, RowInv, NoStaleAuthority, Waiting
  <2>3. new.status \in {"approved", "authenticating"}
    BY <1>5, <2>1, <2>2 DEF Waiting, Bound
  <2> QED BY <1>4, <1>5, <2>1, <2>2, <2>3
<1> QED BY <1>3, <1>5 DEF new

LEMMA RevokePolicyKeeps ==
    ASSUME IInv, RevokePolicy
    PROVE  IInv' /\ Stands
<1>1. TypeOK /\ live # 0 /\ live' = 0 /\ UNCHANGED <<enrolled, policies, revoked>>
      /\ rows' = [r \in Rows |-> Unauthorized(Current[r])]
  BY DEF IInv, RevokePolicy
<1>2. \A q \in Rows : Kept(q)
  BY <1>1, UnauthorizedKept DEF Kept
<1>3. rows' \in [Rows -> Row]
  <2>1. \A q \in Rows : rows'[q] \in Row
    BY <1>2 DEF Kept, Moves
  <2> QED BY <1>1, <2>1
<1>4. UNCHANGED <<pc, res, again, supplied, calls, browser, fills>>
  BY DEF RevokePolicy
<1>5. aborted' \subseteq Rows /\ upsets' \in 0..MaxUpsets
  BY <1>1, AbortType DEF RevokePolicy
<1>6. enrolled' \in 0..MaxVersion /\ policies' \in 0..MaxPolicies /\ live' \in 0..policies'
      /\ revoked' \in BOOLEAN
  BY <1>1 DEF TypeOK
<1> QED BY <1>2, <1>3, <1>4, <1>5, <1>6, OwnerKeeps

\* Where every row that waits is settled, the authority may change as it likes.
LEMMA AllSettled ==
    ASSUME IInv, rows' \in [Rows -> Row], \A q \in Rows : Moves(rows[q], rows'[q], known'),
           \A q \in Rows : rows'[q].status \notin Waiting,
           enrolled' \in 0..MaxVersion, policies' \in 0..MaxPolicies,
           live' \in 0..policies', revoked' \in BOOLEAN,
           UNCHANGED <<pc, res, again, supplied, calls, browser, fills>>,
           aborted' \subseteq Rows, upsets' \in 0..MaxUpsets
    PROVE  IInv' /\ Stands
<1>1. \A q \in Rows : Kept(q)
  BY DEF Kept
<1> QED BY <1>1, OwnerKeeps

LEMMA RevokeRequesterKeeps ==
    ASSUME IInv, RevokeRequester
    PROVE  IInv' /\ Stands
<1> DEFINE row(r) == Unauthorized(rows[r])
           b(r) == CASE row(r).status = "authenticating" -> Set(row(r), "needs-user", TRUE)
                     [] row(r).status \in {"pending", "approved"} -> Set(row(r), "denied", FALSE)
                     [] row(r).status = "needs-user" /\ ~Running(r) ->
                          Set(row(r), "denied", row(r).uncertain)
                     [] OTHER -> row(r)
<1>1. TypeOK /\ revoked' = TRUE /\ live' = 0 /\ UNCHANGED <<enrolled, policies>>
      /\ rows' = [r \in Rows |-> b(r)]
  BY DEF IInv, RevokeRequester
<1>2. ASSUME NEW q \in Rows
      PROVE  Moves(rows[q], b(q), known') /\ b(q).status \notin Waiting
  <2>1. rows[q] \in Row /\ Moves(rows[q], row(q), known') /\ row(q) \in Row
    BY <1>1, UnauthorizedMoves DEF TypeOK, Moves
  <2> HIDE DEF row
  <2>2. row(q).uncertain \in BOOLEAN
    BY <2>1 DEF Row
  <2>3. CASE row(q).status = "authenticating"
    <3>1. row(q).status \notin Decided \cup {"absent"}
      BY <2>3 DEF Decided
    <3>2. Moves(row(q), Set(row(q), "needs-user", TRUE), known')
          /\ Set(row(q), "needs-user", TRUE).status = "needs-user"
      BY <2>1, <3>1, SetMoves, SetFields DEF Statuses, Open
    <3> QED BY <2>1, <2>3, <3>2, MovesOn DEF Waiting
  <2>4. CASE row(q).status \in {"pending", "approved"}
    <3>1. row(q).status \notin Decided \cup {"absent"}
      BY <2>4 DEF Decided
    <3>2. Moves(row(q), Set(row(q), "denied", FALSE), known')
          /\ Set(row(q), "denied", FALSE).status = "denied"
      BY <2>1, <3>1, SetMoves, SetFields DEF Statuses, Closed
    <3> QED BY <2>1, <2>4, <3>2, MovesOn DEF Waiting
  <2>5. CASE row(q).status = "needs-user" /\ ~Running(q)
    <3>1. row(q).status \notin Decided \cup {"absent"}
      BY <2>5 DEF Decided
    <3>2. Moves(row(q), Set(row(q), "denied", row(q).uncertain), known')
          /\ Set(row(q), "denied", row(q).uncertain).status = "denied"
      BY <2>1, <2>2, <3>1, SetMoves, SetFields DEF Statuses, Closed
    <3> QED BY <2>1, <2>5, <3>2, MovesOn DEF Waiting
  <2>6. CASE row(q).status \notin Waiting /\ ~(row(q).status = "needs-user" /\ ~Running(q))
    BY <2>1, <2>6 DEF Waiting
  <2> QED BY <2>3, <2>4, <2>5, <2>6 DEF Waiting
<1> HIDE DEF b
<1>3. \A q \in Rows : Moves(rows[q], rows'[q], known') /\ rows'[q].status \notin Waiting
  BY <1>1, <1>2
<1>4. rows' \in [Rows -> Row]
  <2>1. \A q \in Rows : rows'[q] \in Row
    BY <1>3 DEF Moves
  <2> QED BY <1>1, <2>1
<1>5. UNCHANGED <<pc, res, again, supplied, calls, browser, fills>>
  BY DEF RevokeRequester
<1>6. aborted' \subseteq Rows /\ upsets' \in 0..MaxUpsets
  BY <1>1, AbortType DEF RevokeRequester
<1>7. enrolled' \in 0..MaxVersion /\ policies' \in 0..MaxPolicies /\ live' \in 0..policies'
      /\ revoked' \in BOOLEAN
  BY <1>1 DEF TypeOK
<1> QED BY <1>3, <1>4, <1>5, <1>6, <1>7, AllSettled

LEMMA PutEnrollmentKeeps ==
    ASSUME IInv, PutEnrollment
    PROVE  IInv' /\ Stands
<1> DEFINE row(r) == Unauthorized(rows[r])
           b(r) == CASE row(r).status = "authenticating" -> Set(row(r), "needs-user", TRUE)
                     [] row(r).status \in {"pending", "approved"} -> Set(row(r), "denied", FALSE)
                     [] OTHER -> row(r)
<1>1. TypeOK /\ enrolled < MaxVersion /\ enrolled' = enrolled + 1 /\ live' = 0
      /\ UNCHANGED <<revoked, policies>> /\ rows' = [r \in Rows |-> b(r)]
  BY DEF IInv, PutEnrollment
<1>2. ASSUME NEW q \in Rows
      PROVE  Moves(rows[q], b(q), known') /\ b(q).status \notin Waiting
  <2>1. rows[q] \in Row /\ Moves(rows[q], row(q), known') /\ row(q) \in Row
    BY <1>1, UnauthorizedMoves DEF TypeOK, Moves
  <2> HIDE DEF row
  <2>2. CASE row(q).status = "authenticating"
    <3>1. row(q).status \notin Decided \cup {"absent"}
      BY <2>2 DEF Decided
    <3>2. Moves(row(q), Set(row(q), "needs-user", TRUE), known')
          /\ Set(row(q), "needs-user", TRUE).status = "needs-user"
      BY <2>1, <3>1, SetMoves, SetFields DEF Statuses, Open
    <3> QED BY <2>1, <2>2, <3>2, MovesOn DEF Waiting
  <2>3. CASE row(q).status \in {"pending", "approved"}
    <3>1. row(q).status \notin Decided \cup {"absent"}
      BY <2>3 DEF Decided
    <3>2. Moves(row(q), Set(row(q), "denied", FALSE), known')
          /\ Set(row(q), "denied", FALSE).status = "denied"
      BY <2>1, <3>1, SetMoves, SetFields DEF Statuses, Closed
    <3> QED BY <2>1, <2>3, <3>2, MovesOn DEF Waiting
  <2>4. CASE row(q).status \notin Waiting
    BY <2>1, <2>4 DEF Waiting
  <2> QED BY <2>2, <2>3, <2>4 DEF Waiting
<1> HIDE DEF b
<1>3. \A q \in Rows : Moves(rows[q], rows'[q], known') /\ rows'[q].status \notin Waiting
  BY <1>1, <1>2
<1>4. rows' \in [Rows -> Row]
  <2>1. \A q \in Rows : rows'[q] \in Row
    BY <1>3 DEF Moves
  <2> QED BY <1>1, <2>1
<1>5. UNCHANGED <<pc, res, again, supplied, calls, browser, fills>>
  BY DEF PutEnrollment
<1>6. aborted' \subseteq Rows /\ upsets' \in 0..MaxUpsets
  BY <1>1, AbortType DEF PutEnrollment
<1>7. enrolled' \in 0..MaxVersion /\ policies' \in 0..MaxPolicies /\ live' \in 0..policies'
      /\ revoked' \in BOOLEAN
  BY <1>1, BrokerAssumption DEF TypeOK
<1> QED BY <1>3, <1>4, <1>5, <1>6, <1>7, AllSettled

LEMMA RetireProviderKeeps ==
    ASSUME IInv, RetireProvider
    PROVE  IInv' /\ Stands
<1> DEFINE b(r) == IF ~NeedsAttention(rows[r]) THEN rows[r]
                   ELSE IF rows[r].status = "authenticating" \/ rows[r].told
                   THEN Set(rows[r], "needs-user", TRUE)
                   ELSE Set(rows[r], "cancelled", FALSE)
<1>1. TypeOK /\ enrolled' = 0 /\ live' = 0 /\ UNCHANGED <<revoked, policies>>
      /\ rows' = [r \in Rows |-> b(r)]
  BY DEF IInv, RetireProvider
<1>2. ASSUME NEW q \in Rows
      PROVE  Moves(rows[q], b(q), known') /\ b(q).status \notin Waiting
  <2>1. rows[q] \in Row
    BY <1>1 DEF TypeOK
  <2>2. CASE NeedsAttention(rows[q])
    <3>1. rows[q].status \notin Decided \cup {"absent"}
      BY <2>2 DEF NeedsAttention, Open, Decided
    <3>2. Moves(rows[q], Set(rows[q], "needs-user", TRUE), known')
          /\ Set(rows[q], "needs-user", TRUE).status = "needs-user"
      BY <2>1, <3>1, SetMoves, SetFields DEF Statuses, Open
    <3>3. Moves(rows[q], Set(rows[q], "cancelled", FALSE), known')
          /\ Set(rows[q], "cancelled", FALSE).status = "cancelled"
      BY <2>1, <3>1, SetMoves, SetFields DEF Statuses, Closed
    <3> QED BY <2>2, <3>2, <3>3 DEF Waiting
  <2>3. CASE ~NeedsAttention(rows[q])
    BY <2>1, <2>3, StaysPut DEF NeedsAttention, Open, Waiting
  <2> QED BY <2>2, <2>3
<1> HIDE DEF b
<1>3. \A q \in Rows : Moves(rows[q], rows'[q], known') /\ rows'[q].status \notin Waiting
  BY <1>1, <1>2
<1>4. rows' \in [Rows -> Row]
  <2>1. \A q \in Rows : rows'[q] \in Row
    BY <1>3 DEF Moves
  <2> QED BY <1>1, <2>1
<1>5. UNCHANGED <<pc, res, again, supplied, calls, browser, fills>>
  BY DEF RetireProvider
<1>6. aborted' \subseteq Rows /\ upsets' \in 0..MaxUpsets
  BY <1>1, AbortType DEF RetireProvider
<1>7. enrolled' \in 0..MaxVersion /\ policies' \in 0..MaxPolicies /\ live' \in 0..policies'
      /\ revoked' \in BOOLEAN
  BY <1>1, BrokerAssumption DEF TypeOK
<1> QED BY <1>3, <1>4, <1>5, <1>6, <1>7, AllSettled

LEMMA TimeoutKeeps ==
    ASSUME IInv, NEW r \in Rows, Timeout(r)
    PROVE  IInv' /\ Stands
<1>1. TypeOK /\ rows' = rows /\ UNCHANGED authority
      /\ UNCHANGED <<pc, res, again, supplied, calls, browser, fills>>
  BY DEF IInv, Timeout, store
<1>2. rows' \in [Rows -> Row] /\ \A q \in Rows : Moves(rows[q], rows'[q], known')
  BY <1>1, StaysPut DEF TypeOK
<1>3. aborted' \subseteq Rows /\ upsets' \in 0..MaxUpsets
  BY <1>1, UpsetType DEF Timeout, TypeOK
<1> QED BY <1>1, <1>2, <1>3, AuthoritySame, OwnerKeeps

LEMMA LapseKeeps ==
    ASSUME IInv, NEW r \in Rows, Lapse(r)
    PROVE  IInv' /\ Stands
<1>1. TypeOK /\ rows[r] \in Row /\ UNCHANGED <<authority, running, calls, browser, fills>>
  BY DEF IInv, Lapse, TypeOK
<1>2. rows' = [rows EXCEPT ![r] = [rows[r] EXCEPT !.over = TRUE]]
  BY <1>1 DEF Lapse, TypeOK
<1>3. Moves(rows[r], [rows[r] EXCEPT !.over = TRUE], known')
  BY <1>1, MarkMoves
<1>4. rows' \in [Rows -> Row] /\ \A q \in Rows : Moves(rows[q], rows'[q], known')
  BY <1>1, <1>2, <1>3, OneRow
<1>5. aborted' \subseteq Rows /\ upsets' \in 0..MaxUpsets
  BY <1>1, UpsetType DEF Lapse, TypeOK, running
<1>6. UNCHANGED <<pc, res, again, supplied, calls, browser, fills>>
  BY <1>1 DEF running
<1> QED BY <1>1, <1>4, <1>5, <1>6, AuthoritySame, OwnerKeeps

\* A step of a browser session that leaves the executions alone.
LEMMA SessionKeeps ==
    ASSUME IInv, NEW s \in Sessions, UNCHANGED <<authority, running, fills, upsets>>,
           \/ rows' = rows /\ calls' = calls
           \/ rows' = StaleRows(rows, s) /\ calls' = StaleCalls(s),
           known' \in {known, known \cup {s}},
           sess' \in [Sessions -> {"new", "open", "closed"}],
           lease' \in {lease, [lease EXCEPT ![s] = Owner], [lease EXCEPT ![s] = None]}
    PROVE  IInv' /\ Stands
<1>1. TypeOK /\ upsets' \in 0..MaxUpsets /\ aborted' \subseteq Rows
      /\ UNCHANGED <<pc, res, again, supplied, fills>>
  BY DEF IInv, TypeOK, running
<1>2. rows' \in [Rows -> Row] /\ \A q \in Rows : Moves(rows[q], rows'[q], known')
  BY <1>1, StaysPut, StaleMoves DEF TypeOK
<1>3. calls' \subseteq Call /\ \A c \in calls' : CallOK(c)
  <2>1. \A c \in calls : c \in Call /\ CallOK(c)
    BY DEF IInv, TypeOK
  <2>2. \A c \in StaleCalls(s) : c \in Call /\ CallOK(c)
    BY <1>1, <2>1, StaleCallsOK
  <2> QED BY <2>1, <2>2
<1>4. lease' \in [Sessions -> Rows \cup {None, Owner}]
      /\ \A t \in Sessions : lease'[t] \in Rows => rows[lease'[t]].status # "absent"
  BY <1>1, BrokerAssumption DEF IInv, TypeOK, LeaseInv
<1>5. known \subseteq known' /\ known' \subseteq Sessions
  BY <1>1 DEF TypeOK
<1> QED BY <1>1, <1>2, <1>3, <1>4, <1>5, AuthoritySame, QuietKeeps

LEMMA SessionsKeep ==
    ASSUME IInv, NEW s \in Sessions,
           OpenSession(s) \/ AgentOperates(s) \/ StartTakeover(s) \/ FinishTakeover(s)
    PROVE  IInv' /\ Stands
<1>1. sess \in [Sessions -> {"new", "open", "closed"}]
  BY DEF IInv, TypeOK
<1>2. CASE OpenSession(s)
  BY <1>1, <1>2, SessionKeeps DEF OpenSession, store
<1>3. CASE AgentOperates(s)
  BY <1>1, <1>3, SessionKeeps DEF AgentOperates
<1>4. CASE StartTakeover(s)
  BY <1>1, <1>4, SessionKeeps DEF StartTakeover, store
<1>5. CASE FinishTakeover(s)
  BY <1>1, <1>5, SessionKeeps DEF FinishTakeover
<1> QED BY <1>2, <1>3, <1>4, <1>5

LEMMA CloseSessionKeeps ==
    ASSUME IInv, NEW s \in Sessions, CloseSession(s)
    PROVE  IInv' /\ Stands
<1> DEFINE holders == {r \in RowsIn(s) : lease[s] = r}
<1>1. /\ TypeOK /\ Upset(1) /\ UNCHANGED <<authority, again, aborted, supplied, known, fills>>
      /\ sess' = [sess EXCEPT ![s] = "closed"] /\ lease' = [lease EXCEPT ![s] = None]
      /\ rows' = StaleRows(rows, s) /\ calls' = StaleCalls(s)
      /\ pc' = [r \in Rows |-> IF r \in holders THEN "report" ELSE pc[r]]
      /\ res' = [r \in Rows |-> IF r \notin holders THEN res[r]
                                ELSE IF r \in supplied THEN "typed" ELSE "quiet"]
  BY DEF IInv, CloseSession
<1>2. rows' \in [Rows -> Row] /\ \A q \in Rows : Moves(rows[q], rows'[q], known')
  BY <1>1, StaleMoves DEF TypeOK
<1>3. calls' \subseteq Call /\ \A c \in calls' : CallOK(c)
  <2>1. \A c \in StaleCalls(s) : c \in Call /\ CallOK(c)
    BY <1>1, StaleCallsOK DEF IInv
  <2> QED BY <1>1, <2>1
<1>4. \A r \in holders : r \in Rows /\ rows[r].status # "absent"
  BY DEF IInv, LeaseInv, RowsIn
<1> HIDE DEF holders
<1>5. pc' \in [Rows -> Steps] /\ res' \in [Rows -> Results]
  BY <1>1 DEF TypeOK, Steps, Results
<1>6. TypeOK'
  BY <1>1, <1>2, <1>3, <1>5, AuthoritySame, UpsetType DEF TypeOK
<1>7. ASSUME NEW q \in Rows PROVE Stage(q)'
  <2>1. CASE q \in holders
    <3>1. pc'[q] = "report" /\ res'[q] \in {"typed", "quiet"} /\ fills'[q] = fills[q]
      BY <1>1, <2>1
    <3>2. rows'[q].status # "absent" /\ Stage(q)
          /\ (rows'[q].status \in {"absent", "pending", "approved"} => rows[q].status = rows'[q].status)
      BY <1>2, <1>4, <2>1 DEF Moves, IInv
    <3> QED BY <3>1, <3>2 DEF Stage
  <2>2. CASE q \notin holders
    <3>1. pc'[q] = pc[q] /\ res'[q] = res[q]
      BY <1>1, <2>2
    <3> QED BY <1>1, <1>2, <3>1, StageKept
  <2> QED BY <2>1, <2>2
<1>8. \A t \in Sessions : lease'[t] \in Rows => rows[lease'[t]].status # "absent"
  BY <1>1, BrokerAssumption DEF IInv, TypeOK, LeaseInv
<1> QED BY <1>1, <1>2, <1>3, <1>6, <1>7, <1>8, AuthoritySame, StepKeeps

LEMMA RestartKeeps ==
    ASSUME IInv, Restart
    PROVE  IInv' /\ Stands
<1> DEFINE interrupted == [r \in Rows |-> IF rows[r].status = "authenticating"
                                          THEN Expired(rows[r]) ELSE Current[r]]
           resumed == {r \in Rows : interrupted[r].status = "approved"}
<1>1. /\ TypeOK /\ Upset(1) /\ UNCHANGED <<authority, known, fills>>
      /\ rows' = [r \in Rows |-> [interrupted[r] EXCEPT !.fresh = FALSE]]
      /\ pc' = [r \in Rows |-> IF r \in resumed THEN "select" ELSE "idle"]
      /\ res' = [r \in Rows |-> "none"] /\ again' = resumed /\ aborted' = {} /\ supplied' = {}
      /\ calls' = {} /\ sess' = [s \in Sessions |-> IF sess[s] = "open" THEN "closed" ELSE sess[s]]
      /\ lease' = [s \in Sessions |-> None]
  BY DEF IInv, Restart
<1>2. \A q \in Rows : Moves(rows[q], interrupted[q], known')
  <2> SUFFICES ASSUME NEW q \in Rows PROVE Moves(rows[q], interrupted[q], known')
    OBVIOUS
  <2>1. rows[q] \in Row
    BY <1>1 DEF TypeOK
  <2>2. CASE rows[q].status = "authenticating"
    <3>1. rows[q].status \notin Decided \cup {"absent"}
      BY <2>2 DEF Decided
    <3>2. Moves(rows[q], Set(rows[q], "needs-user", TRUE), known')
      BY <2>1, <3>1, SetMoves
    <3> QED BY <2>2, <3>2 DEF Expired
  <2>3. CASE rows[q].status # "authenticating"
    BY <1>1, <2>3, CurrentMoves
  <2> QED BY <2>2, <2>3
<1> HIDE DEF interrupted
<1>3. ASSUME NEW q \in Rows
      PROVE  Moves(rows[q], rows'[q], known') /\ rows'[q].status = interrupted[q].status
  <2>1. interrupted[q] \in Row
    BY <1>2 DEF Moves
  <2>2. Moves(interrupted[q], [interrupted[q] EXCEPT !.fresh = FALSE], known')
    BY <2>1, MarkMoves
  <2>3. rows'[q] = [interrupted[q] EXCEPT !.fresh = FALSE]
    BY <1>1
  <2> QED BY <1>2, <2>1, <2>2, <2>3, MovesOn DEF Row
<1>4. rows' \in [Rows -> Row]
  <2>1. \A q \in Rows : rows'[q] \in Row
    BY <1>3 DEF Moves
  <2> QED BY <1>1, <2>1
<1>5. TypeOK'
  <2>1. pc' \in [Rows -> Steps] /\ res' \in [Rows -> Results]
    BY <1>1 DEF Steps, Results
  <2>2. sess' \in [Sessions -> {"new", "open", "closed"}]
    BY <1>1 DEF TypeOK
  <2> QED BY <1>1, <1>4, <2>1, <2>2, AuthoritySame, UpsetType DEF TypeOK
<1>6. ASSUME NEW q \in Rows PROVE Stage(q)'
  <2>1. pc'[q] \in {"select", "idle"} /\ (pc'[q] = "select" <=> rows'[q].status = "approved")
        /\ res'[q] = "none" /\ fills'[q] = fills[q]
    BY <1>1, <1>3
  <2>2. Stage(q) /\ (rows'[q].status \in {"absent", "pending", "approved"}
                       => rows[q].status = rows'[q].status)
    BY <1>3 DEF Moves, IInv
  <2>3. fills[q] > 0 => pc'[q] = "idle" /\ rows'[q].status \notin {"absent", "pending", "approved"}
                        /\ fills[q] = 1
    BY <2>1, <2>2 DEF Stage
  <2> QED BY <2>1, <2>3 DEF Stage
<1>7. \A s \in Sessions : lease'[s] \notin Rows
  BY <1>1, BrokerAssumption
<1> QED BY <1>1, <1>3, <1>5, <1>6, <1>7, AuthoritySame, StepKeeps

\* Launch begins an execution of r only if its row is now approved.
LEMMA LaunchFields ==
    ASSUME TypeOK, NEW r \in Rows, Launch(r)
    PROVE  /\ pc' \in {pc, [pc EXCEPT ![r] = "select"]}
           /\ pc' # pc => rows'[r].status = "approved"
           /\ again' \subseteq Rows /\ upsets' \in 0..MaxUpsets
<1>1. upsets' \in 0..MaxUpsets
  BY UpsetType DEF Launch, StoreWorks, StoreFails
<1>2. pc' \in {pc, [pc EXCEPT ![r] = "select"]} /\ (pc' # pc => rows'[r].status = "approved")
  BY DEF Launch
<1>3. again' \in {again, again \cup {r}}
  BY DEF Launch
<1> QED BY <1>1, <1>2, <1>3 DEF TypeOK

\* A row that has not been typed is made or approved, and perhaps executed.
LEMMA LaunchKeeps ==
    ASSUME IInv, NEW r \in Rows, Launch(r), rows' \in [Rows -> Row],
           rows[r].status \in {"absent", "pending"}, Made(r),
           \A q \in Rows : q # r => Kept(q),
           UNCHANGED <<enrolled, revoked, res, supplied, browser, fills>>,
           policies' \in 0..MaxPolicies, live' \in 0..policies',
           aborted' \subseteq Rows, calls' \subseteq calls
    PROVE  IInv' /\ Stands
<1>1. TypeOK /\ Stage(r) /\ fills[r] \in Nat
  BY DEF IInv, TypeOK
<1>2. /\ pc' \in {pc, [pc EXCEPT ![r] = "select"]}
      /\ again' \subseteq Rows /\ upsets' \in 0..MaxUpsets
  BY <1>1, LaunchFields
<1>3. pc' \in [Rows -> Steps] /\ \A q \in Rows : q # r => pc'[q] = pc[q]
  BY <1>1, <1>2 DEF TypeOK, Steps
<1>4. calls' \subseteq Call /\ \A c \in calls' : CallOK(c)
  BY CallsSame
<1>5. TypeOK'
  BY <1>1, <1>2, <1>3, <1>4 DEF TypeOK, browser
<1>6. Stage(r)'
  <2>1. fills'[r] = 0
    BY <1>1 DEF Stage
  <2>2. pc'[r] \in {pc[r], "select"}
    BY <1>1, <1>2 DEF TypeOK
  <2>3. rows'[r].status # "absent"
        /\ (res'[r] = "ok" => rows[r].status # "absent" /\ rows'[r].session = rows[r].session
                              /\ rows[r].session \in known)
    BY <1>1 DEF Made, Stage
  <2>4. pc'[r] = "fill" => r \in supplied'
    BY <1>1, <2>2 DEF Stage
  <2> QED BY <2>1, <2>3, <2>4 DEF Stage, browser
<1>7. ASSUME NEW q \in Rows, q # r PROVE Stage(q)'
  <2>1. pc'[q] = pc[q]
    BY <1>3, <1>7
  <2> QED BY <1>7, <2>1, StageKept DEF Kept, browser
<1>8. \A s \in Sessions : lease'[s] \in Rows => rows[lease'[s]].status # "absent"
  BY BrowserSame DEF browser
<1>9. known \subseteq known' /\ \A q \in Rows : Kept(q) \/ Made(q)
  BY DEF browser
<1> QED BY <1>4, <1>5, <1>6, <1>7, <1>8, <1>9, StepKeeps

LEMMA CommitRequestKeeps ==
    ASSUME IInv, NEW c \in calls, NEW r \in Rows, CommitRequest(c, r)
    PROVE  IInv' /\ Stands
<1>1. /\ TypeOK /\ c \in Call /\ CallOK(c) /\ rows[r].status = "absent" /\ ~revoked
      /\ c.version = enrolled /\ Launch(r) /\ calls' \subseteq calls
      /\ UNCHANGED <<authority, res, aborted, supplied, browser, fills>>
  BY DEF IInv, TypeOK, CommitRequest, StillAllowed
<1>2. PICK status \in {"succeeded", "needs-user", "approved", "pending"}, policy \in {0, live} :
         /\ rows' = [Current EXCEPT ![r] = NewRow(c, status, policy)]
         /\ status = "succeeded" => c.purpose = "in"
         /\ policy # 0 => status = "approved"
  <2>1. PICK new \in IF c.purpose = "in" THEN {NewRow(c, "succeeded", 0)}
                     ELSE {NewRow(c, "needs-user", 0),
                           NewRow(c, IF live # 0 THEN "approved" ELSE "pending", live)} :
           rows' = [Current EXCEPT ![r] = new]
    BY DEF CommitRequest
  <2>2. CASE c.purpose = "in"
    BY <2>1, <2>2
  <2>3. CASE c.purpose # "in"
    BY <2>1, <2>3
  <2> QED BY <2>2, <2>3
<1>3. status \in Statuses /\ policy \in 0..MaxPolicies
  <2>1. status \in Statuses
    BY DEF Statuses, Open, Closed
  <2>2. policy \in 0..MaxPolicies
    BY <1>1, BrokerAssumption DEF TypeOK
  <2> QED BY <2>1, <2>2
<1> DEFINE b == NewRow(c, status, policy)
<1>4. /\ b \in Row /\ b.status = status /\ b.session = c.session /\ b.next = None
      /\ b.version = c.version /\ b.policy = policy
      /\ policy # 0 => b.granted
  BY <1>1, <1>3, NewRowFields
<1> HIDE DEF b
<1>5. Current \in [Rows -> Row] /\ \A q \in Rows : Moves(rows[q], Current[q], known')
  BY <1>1, CurrentRows, CurrentMoves
<1>6. rows' \in [Rows -> Row] /\ rows'[r] = b /\ \A q \in Rows : q # r => rows'[q] = Current[q]
  BY <1>2, <1>4, <1>5 DEF b
<1>7. \A q \in Rows : q # r => Kept(q)
  BY <1>1, <1>5, <1>6, AuthoritySame
<1>8. Made(r)
  <2>1. RowInv(b)
    BY <1>1, <1>2, <1>4 DEF RowInv, Call, Bound
  <2>2. rows[r].next = None
    BY <1>1 DEF IInv, RowInv
  <2>3. status = "succeeded" => c.session \in known
    BY <1>1, <1>2 DEF CallOK
  <2> QED BY <1>1, <1>2, <1>4, <1>6, <2>1, <2>2, <2>3 DEF Made, Decided, authority, browser
<1> QED BY <1>1, <1>6, <1>7, <1>8, LaunchKeeps DEF authority, TypeOK

LEMMA ApproveOnceKeeps ==
    ASSUME IInv, NEW r \in Rows, ApproveOnce(r)
    PROVE  IInv' /\ Stands
<1> DEFINE b == Granted(Current[r], 0)
<1>1. /\ TypeOK /\ Current[r].status = "pending" /\ ~revoked /\ enrolled = Current[r].version
      /\ Launch(r) /\ UNCHANGED <<authority, res, aborted, supplied, calls, browser, fills>>
  BY DEF IInv, ApproveOnce, MayApprove
<1>2. Current \in [Rows -> Row] /\ \A q \in Rows : Moves(rows[q], Current[q], known')
  BY <1>1, CurrentRows, CurrentMoves
<1>3. /\ b \in Row /\ b.status = "approved" /\ b.session = Current[r].session
      /\ b.next = Current[r].next /\ b.version = Current[r].version /\ b.policy = 0
  BY <1>2, GrantedFields, BrokerAssumption
<1>4. rows' = [Current EXCEPT ![r] = b]
  BY <1>2 DEF ApproveOnce
<1> HIDE DEF b
<1>5. rows' \in [Rows -> Row] /\ rows'[r] = b /\ \A q \in Rows : q # r => rows'[q] = Current[q]
  BY <1>2, <1>3, <1>4
<1>6. \A q \in Rows : q # r => Kept(q)
  BY <1>1, <1>2, <1>5, AuthoritySame
<1>7. rows[r].status = "pending" /\ rows[r].session = b.session /\ rows[r].next = b.next
  BY <1>1, <1>2, <1>3 DEF Moves
<1>8. Made(r)
  <2>1. RowInv(b)
    BY <1>3, <1>7 DEF IInv, RowInv
  <2> QED BY <1>1, <1>3, <1>5, <1>7, <2>1 DEF Made, Decided, authority
<1> QED BY <1>1, <1>5, <1>6, <1>7, <1>8, LaunchKeeps DEF authority, TypeOK

LEMMA ApproveAlwaysKeeps ==
    ASSUME IInv, NEW r \in Rows, NEW covers \in BOOLEAN, ApproveAlways(r, covers)
    PROVE  IInv' /\ Stands
<1> DEFINE b == IF covers THEN Granted(Current[r], policies + 1)
                ELSE Set(Current[r], "needs-user", FALSE)
<1>1. /\ TypeOK /\ Current[r].status = "pending" /\ ~revoked /\ enrolled = Current[r].version
      /\ policies < MaxPolicies /\ policies' = policies + 1
      /\ live' = IF covers THEN policies + 1 ELSE 0
      /\ Launch(r) /\ UNCHANGED <<enrolled, revoked, res, supplied, calls, browser, fills>>
  BY DEF IInv, ApproveAlways, MayApprove
<1>2. rows' = [q \in Rows |-> IF q # r THEN Unauthorized(Current[q]) ELSE b]
  BY <1>1 DEF ApproveAlways
<1>3. Current[r] \in Row /\ Moves(rows[r], Current[r], known')
  BY <1>1, CurrentRows, CurrentMoves
<1>4. policies' \in 0..MaxPolicies /\ live' \in 0..policies' /\ policies' # 0
  BY <1>1, BrokerAssumption DEF TypeOK
<1>5. /\ b \in Row /\ b.session = Current[r].session /\ b.next = Current[r].next
      /\ b.version = Current[r].version
      /\ b.policy # 0 => covers
      /\ covers => b.status = "approved" /\ b.policy = policies' /\ b.granted
      /\ ~covers => b.status = "needs-user"
  <2>1. CASE covers
    <3>1. b = Granted(Current[r], policies')
      BY <1>1, <2>1
    <3> HIDE DEF b
    <3> QED BY <1>3, <1>4, <2>1, <3>1, GrantedFields
  <2>2. CASE ~covers
    <3>1. "needs-user" \in Statuses /\ "needs-user" \notin Bound
      BY DEF Statuses, Open, Bound
    <3>2. b = Set(Current[r], "needs-user", FALSE)
      BY <2>2
    <3> HIDE DEF b
    <3> QED BY <1>3, <2>2, <3>1, <3>2, SetFields
  <2> QED BY <2>1, <2>2
<1> HIDE DEF b
<1>6. \A q \in Rows : q # r => Kept(q)
  <2> SUFFICES ASSUME NEW q \in Rows, q # r PROVE Kept(q)
    OBVIOUS
  <2>1. rows'[q] = Unauthorized(Current[q])
    BY <1>2
  <2> QED BY <1>1, <2>1, UnauthorizedKept DEF Kept
<1>7. rows' \in [Rows -> Row] /\ rows'[r] = b
  <2>1. \A q \in Rows : rows'[q] \in Row
    BY <1>2, <1>5, <1>6 DEF Kept, Moves
  <2> QED BY <1>2, <2>1
<1>8. rows[r].status = "pending" /\ rows[r].session = b.session /\ rows[r].next = b.next
  BY <1>1, <1>3, <1>5 DEF Moves
<1>9. Made(r)
  <2>1. RowInv(b)
    BY <1>5, <1>8 DEF IInv, RowInv, Bound
  <2>2. b.status \in {"approved", "needs-user"}
        /\ (b.status \in Waiting => b.policy = live' /\ ~revoked' /\ b.version = enrolled')
    BY <1>1, <1>5 DEF Waiting
  <2> QED BY <1>7, <1>8, <2>1, <2>2 DEF Made, Decided
<1>10. aborted' \subseteq Rows
  BY <1>1 DEF ApproveAlways, TypeOK, ActiveRows
<1> QED BY <1>1, <1>4, <1>6, <1>7, <1>8, <1>9, <1>10, LaunchKeeps

LEMMA CommitRetryKeeps ==
    ASSUME IInv, NEW c \in calls, NEW n \in Rows, CommitRetry(c, n)
    PROVE  IInv' /\ Stands
<1> DEFINE row == Current[c.row]
           dropped == [Set(row, "cancelled", FALSE) EXCEPT !.next = n]
<1>1. /\ TypeOK /\ c \in Call /\ c.row \in Rows /\ rows[c.row].status # "absent"
      /\ rows[n].status = "absent" /\ ~revoked /\ c.version = enrolled
      /\ row.next = None /\ Retryable(row) /\ calls' \subseteq calls
      /\ UNCHANGED <<authority, running, browser, fills, upsets>>
  BY DEF IInv, TypeOK, CommitRetry, CallOK, StillAllowed
<1>2. PICK status \in {"pending", "needs-user"} :
         rows' = [Current EXCEPT ![c.row] = dropped, ![n] = NewRow(c, status, 0)]
  BY DEF CommitRetry
<1>3. Current \in [Rows -> Row] /\ \A q \in Rows : Moves(rows[q], Current[q], known')
  BY <1>1, CurrentRows, CurrentMoves
<1> DEFINE b == NewRow(c, status, 0)
<1>4. /\ b \in Row /\ b.status = status /\ b.session = c.session /\ b.next = None
      /\ b.version = c.version /\ b.policy = 0
  BY <1>1, NewRowFields, BrokerAssumption DEF Statuses, Open
<1>5. /\ dropped \in Row /\ dropped.status = "cancelled" /\ dropped.session = row.session
      /\ dropped.policy = 0
  <2> DEFINE x == Set(row, "cancelled", FALSE)
  <2>1. x \in Row /\ x.status = "cancelled" /\ x.session = row.session /\ x.policy = 0
    <3>1. "cancelled" \in Statuses /\ "cancelled" \notin Bound
      BY DEF Statuses, Closed, Bound
    <3>2. row \in Row
      BY <1>1, <1>3
    <3> HIDE DEF row
    <3> QED BY <3>1, <3>2, SetFields
  <2> HIDE DEF x
  <2>2. dropped = [x EXCEPT !.next = n]
    BY DEF x
  <2> QED BY <2>1, <2>2 DEF Row
<1> HIDE DEF b, dropped
<1>6. /\ rows' \in [Rows -> Row] /\ rows'[c.row] = dropped /\ rows'[n] = b
      /\ \A q \in Rows : q \notin {n, c.row} => rows'[q] = Current[q]
  BY <1>1, <1>2, <1>3, <1>4, <1>5 DEF b
<1>7. \A q \in Rows : q \notin {n, c.row} => Kept(q)
  BY <1>1, <1>3, <1>6, AuthoritySame
<1>8. Made(n)
  <2>1. RowInv(b) /\ rows[n].next = None
    BY <1>1, <1>4 DEF RowInv, Call, IInv
  <2> QED BY <1>1, <1>4, <1>6, <2>1 DEF Made, Decided, authority
<1>9. rows[c.row].session = row.session /\ rows[c.row].next = None
      /\ rows[c.row].status \notin Decided
  <2>1. row.status \notin Decided
    BY <1>1 DEF Retryable, Decided
  <2> QED BY <1>1, <1>3, <2>1 DEF Moves
<1>10. Made(c.row)
  <2>1. RowInv(dropped)
    BY <1>1, <1>5, <1>9 DEF RowInv, IInv
  <2> QED BY <1>1, <1>5, <1>6, <1>9, <2>1 DEF Made, Waiting
<1>11. UNCHANGED <<pc, res, again, aborted, supplied, fills, lease, known, sess, upsets>>
  BY <1>1 DEF running, browser
<1>12. calls' \subseteq Call /\ \A d \in calls' : CallOK(d)
  BY <1>1, CallsSame
<1>13. TypeOK'
  BY <1>1, <1>6, <1>11, <1>12, AuthoritySame DEF TypeOK
<1>14. ASSUME NEW q \in Rows PROVE Stage(q)'
  <2>1. Stage(q) /\ fills[q] \in Nat
    BY <1>1 DEF IInv, TypeOK
  <2>2. CASE q = n
    <3>1. fills[q] = 0 /\ res[q] # "ok" /\ pc[q] = "idle"
      BY <1>1, <2>1, <2>2 DEF Stage
    <3>2. rows'[q].status # "absent"
      BY <1>8, <2>2 DEF Made
    <3> QED BY <1>11, <3>1, <3>2 DEF Stage
  <2>3. CASE q = c.row
    <3>1. rows'[q].status = "cancelled" /\ rows'[q].session = rows[q].session
      BY <1>5, <1>6, <1>9, <2>3
    <3> QED BY <1>11, <2>1, <3>1 DEF Stage
  <2>4. CASE q \notin {n, c.row}
    BY <1>7, <1>11, <2>4, StageKept DEF Kept
  <2> QED BY <2>2, <2>3, <2>4
<1>15. \A s \in Sessions : lease'[s] \in Rows => rows[lease'[s]].status # "absent"
  BY <1>11, BrowserSame
<1> QED BY <1>7, <1>8, <1>10, <1>11, <1>12, <1>13, <1>14, <1>15, StepKeeps

LEMMA CallsKeep ==
    ASSUME IInv, Calls
    PROVE  IInv' /\ Stands
<1>1. CASE \E s \in Sessions : BeginRequest(s) \/ BeginComplete(s)
  BY <1>1, BeginRequestKeeps, BeginCompleteKeeps
<1>2. CASE \E c \in calls, r \in Rows : CommitRequest(c, r) \/ CommitRetry(c, r)
  BY <1>2, CommitRequestKeeps, CommitRetryKeeps
<1>3. CASE \E c \in calls : CommitComplete(c) \/ EndCall(c)
  BY <1>3, CommitCompleteKeeps, EndCallKeeps
<1>4. CASE \E r \in Rows : Cancel(r) \/ Deny(r) \/ ApproveOnce(r) \/ BeginRetry(r)
  BY <1>4, CancelKeeps, DenyKeeps, ApproveOnceKeeps, BeginRetryKeeps
<1>5. CASE \E r \in Rows, covers \in BOOLEAN : ApproveAlways(r, covers)
  BY <1>5, ApproveAlwaysKeeps
<1>6. CASE Poll \/ RevokePolicy \/ RevokeRequester \/ PutEnrollment \/ RetireProvider
  BY <1>6, PollKeeps, RevokePolicyKeeps, RevokeRequesterKeeps, PutEnrollmentKeeps,
     RetireProviderKeeps
<1> QED BY <1>1, <1>2, <1>3, <1>4, <1>5, <1>6 DEF Calls

LEMMA EnvironmentKeeps ==
    ASSUME IInv, Environment
    PROVE  IInv' /\ Stands
<1>1. CASE \E r \in Rows : Timeout(r) \/ Lapse(r)
  BY <1>1, TimeoutKeeps, LapseKeeps
<1>2. CASE \E s \in Sessions : OpenSession(s) \/ CloseSession(s) \/ AgentOperates(s)
                               \/ StartTakeover(s) \/ FinishTakeover(s)
  BY <1>2, SessionsKeep, CloseSessionKeeps
<1>3. CASE Restart
  BY <1>3, RestartKeeps
<1> QED BY <1>1, <1>2, <1>3 DEF Environment

-----------------------------------------------------------------------------
(* The invariant and what follows from it.                                  *)

LEMMA IInvInit == Init => IInv
<1> SUFFICES ASSUME Init PROVE IInv
  OBVIOUS
<1>1. Absent \in Row /\ Absent.status = "absent" /\ Absent.next = None /\ Absent.policy = 0
  BY BrokerAssumption DEF Absent, Row, Statuses
<1>2. \A r \in Rows : rows[r] = Absent
  BY DEF Init
<1>3. TypeOK
  <2>1. rows \in [Rows -> Row] /\ calls \subseteq Call /\ fills \in [Rows -> Nat]
    BY <1>1 DEF Init
  <2>2. pc \in [Rows -> Steps] /\ res \in [Rows -> Results]
    BY DEF Init, Steps, Results
  <2>3. /\ enrolled \in 0..MaxVersion /\ policies \in 0..MaxPolicies /\ live \in 0..policies
        /\ revoked \in BOOLEAN /\ upsets \in 0..MaxUpsets
    <3>1. MaxVersion \in Nat /\ MaxVersion > 0 /\ MaxPolicies \in Nat /\ MaxUpsets \in Nat
      BY BrokerAssumption
    <3>2. enrolled = 1 /\ policies = 0 /\ live = 0 /\ upsets = 0 /\ revoked = FALSE
      BY DEF Init
    <3>3. enrolled \in 0..MaxVersion /\ policies \in 0..MaxPolicies
      BY <3>1, <3>2
    <3>4. live \in 0..policies /\ upsets \in 0..MaxUpsets
      BY <3>1, <3>2
    <3> QED BY <3>2, <3>3, <3>4
  <2>4. /\ again \subseteq Rows /\ aborted \subseteq Rows /\ supplied \subseteq Rows
        /\ known \subseteq Sessions
    BY DEF Init
  <2>5. /\ sess \in [Sessions -> {"new", "open", "closed"}]
        /\ lease \in [Sessions -> Rows \cup {None, Owner}]
    BY DEF Init
  <2> QED BY <2>1, <2>2, <2>3, <2>4, <2>5 DEF TypeOK
<1>4. NoStaleAuthority /\ SuccessWasSeen
  BY <1>1, <1>2 DEF NoStaleAuthority, SuccessWasSeen
<1>5. LeaseInv
  BY BrokerAssumption DEF Init, LeaseInv
<1>6. \A r \in Rows : RowInv(rows[r]) /\ Stage(r)
  BY <1>1, <1>2 DEF Init, RowInv, Stage
<1>7. \A c \in calls : CallOK(c)
  BY DEF Init
<1> QED BY <1>3, <1>4, <1>5, <1>6, <1>7 DEF IInv

LEMMA StepInv == IInv /\ [Next]_vars => IInv' /\ Stands
<1> SUFFICES ASSUME IInv, [Next]_vars PROVE IInv' /\ Stands
  OBVIOUS
<1>1. CASE Next
  BY <1>1, ExecutionKeeps, CallsKeep, EnvironmentKeeps DEF Next
<1>2. CASE UNCHANGED vars
  <2>1. UNCHANGED <<rows, enrolled, live, policies, revoked, pc, res, again, aborted, supplied,
                    calls, sess, known, lease, fills, upsets>>
    BY <1>2 DEF vars, store, authority, running, browser
  <2>2. TypeOK' /\ NoStaleAuthority' /\ SuccessWasSeen' /\ LeaseInv'
    BY <2>1 DEF IInv, TypeOK, NoStaleAuthority, SuccessWasSeen, LeaseInv
  <2>3. (\A r \in Rows : RowInv(rows[r]) /\ Stage(r))'
    BY <2>1 DEF IInv, Stage
  <2>4. (\A c \in calls : CallOK(c))'
    BY <2>1 DEF IInv, CallOK
  <2>5. Stands
    BY <2>1 DEF Stands
  <2> QED BY <2>2, <2>3, <2>4, <2>5 DEF IInv
<1> QED BY <1>1, <1>2

LEMMA Invariance == Spec => []IInv
<1>1. IInv /\ [Next]_vars => IInv'
  BY StepInv
<1> QED BY IInvInit, <1>1, PTL DEF Spec

\* Every variable of the broker keeps its type, whatever the requests, the
\* sessions and the bounds (auth/broker.js, auth/browser/controller.js).
THEOREM BrokerTypeCorrect == Spec => []TypeOK
<1>1. IInv => TypeOK
  BY DEF IInv
<1> QED BY Invariance, <1>1, PTL

\* What the owner withdrew authorizes nothing: a row that waits, is approved or
\* is authenticating stands on the enrollment, requester and policy of now.
THEOREM AuthorityIsCurrent == Spec => []NoStaleAuthority
<1>1. IInv => NoStaleAuthority
  BY DEF IInv
<1> QED BY Invariance, <1>1, PTL

\* One request types credentials at most once, through every retry of its
\* execution, every store failure and every restart of the process.
THEOREM OnceTyped == Spec => []TypedOnce
<1>1. IInv => TypedOnce
  <2> SUFFICES ASSUME IInv, NEW r \in Rows PROVE fills[r] <= 1
    BY DEF TypedOnce
  <2>1. Stage(r) /\ fills[r] \in Nat
    BY DEF IInv, TypeOK
  <2> QED BY <2>1 DEF Stage
<1> QED BY Invariance, <1>1, PTL

\* A request succeeds only in a session where the site accepted a login.
THEOREM SuccessIsSeen == Spec => []SuccessWasSeen
<1>1. IInv => SuccessWasSeen
  BY DEF IInv
<1> QED BY Invariance, <1>1, PTL

\* No late answer, late mutation or restart reopens or rewrites a row that was
\* denied, cancelled or done, nor the request that replaced it.
THEOREM DecisionsKept == Spec => DecisionsStand
<1>1. IInv /\ [Next]_vars =>
        [\A r \in Rows :
           /\ rows[r].status \in {"denied", "cancelled", "succeeded"} =>
                rows'[r].status = rows[r].status
           /\ rows[r].next # None => rows'[r].next = rows[r].next]_vars
  BY StepInv DEF Stands, Decided
<1> QED BY Invariance, <1>1, PTL DEF Spec, DecisionsStand

-----------------------------------------------------------------------------
(* One ceremony of a page, and what is said of what was typed.  A second    *)
(* invariant, proved on top of the first: the lease belongs to the step its *)
(* holder stands at, only one row of a session is open, and a row whose     *)
(* credentials were typed never stops saying so.                            *)

\* A row whose credentials were typed succeeded, is cancelled, or says it is uncertain.
Accounts(a) ==
    /\ a.status \notin {"absent", "pending", "approved"}
    /\ a.status \in {"succeeded", "authenticating", "cancelled"} \/ a.uncertain

\* Only a row that waits for its owner says that credentials were supplied.
ToldWaits(a) == a.told => a.status = "needs-user"

\* An execution that typed still holds the credentials it supplied, and knows what of it.
Knows(r) ==
    fills[r] > 0 =>
      /\ Running(r) => r \in supplied
      /\ pc[r] = "report" => res[r] \in {"ok", "typed"}

LeaseHeld ==
    \A r \in Rows, s \in Sessions :
       lease[s] = r <=> rows[r].session = s /\ pc[r] \in InLease

OpenAlone ==
    \A q, r \in Rows :
       q # r /\ rows[q].session = rows[r].session /\ rows[q].status \in Open
         => rows[r].status \notin Open

RetryOf(c) == c.op = "retry" => c.row \in Rows /\ rows[c.row].status # "absent"
                                /\ rows[c.row].session = c.session

CeremonyInv ==
    /\ \A r \in Rows : /\ fills[r] > 0 => Accounts(rows[r])
                       /\ ToldWaits(rows[r])
                       /\ Knows(r)
    /\ LeaseHeld /\ OpenAlone
    /\ \A c \in calls : RetryOf(c)

\* A row turns from a to b: it stays where it is, is not opened again, and does not
\* forget that credentials were typed n times, if they were.
Turns(a, b, n) ==
    /\ b.session = a.session
    /\ b.status \in Open => a.status \in Open
    /\ n > 0 /\ Accounts(a) => Accounts(b)
    /\ ToldWaits(a) => ToldWaits(b)

\* A row that a step makes: no other row of its session is open if it is.
Begun(n) ==
    /\ rows[n].status = "absent" /\ ToldWaits(rows'[n])
    /\ rows'[n].status \in Open =>
         \A q \in Rows \ {n} : rows'[q].session = rows'[n].session => rows'[q].status \notin Open

LEMMA TurnsSame == ASSUME NEW a, NEW n PROVE Turns(a, a, n)
BY DEF Turns

LEMMA TurnsOn ==
    ASSUME NEW a, NEW b, NEW c, NEW n, Turns(a, b, n), Turns(b, c, n)
    PROVE  Turns(a, c, n)
BY DEF Turns

LEMMA MarkTurns ==
    ASSUME NEW a \in Row, NEW n
    PROVE  /\ Turns(a, [a EXCEPT !.fresh = FALSE], n)
           /\ Turns(a, [a EXCEPT !.over = TRUE], n)
           /\ a.status = "needs-user" => \A told \in BOOLEAN : Turns(a, [a EXCEPT !.told = told], n)
           /\ \A q : a.status = "cancelled" => Turns(a, [a EXCEPT !.next = q], n)
BY DEF Turns, Accounts, ToldWaits, Row

\* What setState makes of the two flags of a row.
LEMMA SetFlags ==
    ASSUME NEW a \in Row, NEW status \in Statuses, NEW uncertain \in BOOLEAN
    PROVE  LET b == Set(a, status, uncertain) IN
           /\ b.uncertain = uncertain
           /\ b.told => a.told /\ status \in {"needs-user", "failed"}
<1> DEFINE told == a.told /\ status \in {"needs-user", "failed"}
           granted == a.granted /\ status \in {"approved", "authenticating", "expired", "denied"}
           over == a.over /\ status \in Waiting
           fresh == a.fresh /\ status \in {"approved", "succeeded"}
           policy == IF status \in {"approved", "authenticating", "expired", "denied"}
                        /\ status # "expired" THEN a.policy ELSE 0
           version == IF status \notin {"denied", "cancelled"} THEN a.version ELSE 0
<1>1. Set(a, status, uncertain) =
        [a EXCEPT !.status = status, !.uncertain = uncertain, !.told = told,
                  !.granted = granted, !.policy = policy, !.version = version,
                  !.over = over, !.fresh = fresh]
  BY DEF Set
<1>2. told \in BOOLEAN /\ (told => a.told /\ status \in {"needs-user", "failed"})
  BY Zenon
<1> HIDE DEF told, granted, over, fresh, policy, version
<1>3. Set(a, status, uncertain).uncertain = uncertain
  BY <1>1 DEF Row
<1>4. Set(a, status, uncertain).told = told
  BY <1>1 DEF Row
<1> QED BY <1>2, <1>3, <1>4

LEMMA SetTurns ==
    ASSUME NEW a \in Row, NEW n, NEW uncertain \in BOOLEAN,
           NEW status \in {"needs-user", "denied", "cancelled", "expired", "failed",
                           "authenticating", "succeeded"},
           status \in {"needs-user", "authenticating"} => a.status \in Open,
           status = "failed" => a.status \in {"approved", "authenticating"},
           n > 0 /\ Accounts(a) =>
             status \in {"succeeded", "authenticating", "cancelled"} \/ uncertain
    PROVE  Turns(a, Set(a, status, uncertain), n)
<1> DEFINE b == Set(a, status, uncertain)
<1>1. status \in Statuses
  BY DEF Statuses, Open, Closed
<1>2. b.status = status /\ b.session = a.session
  BY <1>1, SetFields
<1>3. b.uncertain = uncertain /\ (b.told => a.told /\ status \in {"needs-user", "failed"})
  BY <1>1, SetFlags
<1> HIDE DEF b
<1>4. n > 0 /\ Accounts(a) => Accounts(b)
  BY <1>2, <1>3 DEF Accounts
<1>5. ToldWaits(a) => ToldWaits(b)
  BY <1>2, <1>3 DEF ToldWaits
<1> QED BY <1>2, <1>4, <1>5 DEF Turns, Open, b

LEMMA CurrentTurns ==
    ASSUME TypeOK, NEW r \in Rows
    PROVE  Turns(rows[r], Current[r], fills[r])
<1>1. rows[r] \in Row
  BY DEF TypeOK
<1>2. CASE rows[r].over /\ rows[r].status \in Waiting
  <2>1. Current[r] = Expired(rows[r])
    BY <1>2 DEF Current
  <2>2. CASE rows[r].status = "authenticating"
    <3>1. Turns(rows[r], Set(rows[r], "needs-user", TRUE), fills[r])
      BY <1>1, <2>2, SetTurns DEF Open
    <3> QED BY <2>1, <2>2, <3>1 DEF Expired
  <2>3. CASE rows[r].status # "authenticating"
    <3>1. ~Accounts(rows[r])
      BY <1>2, <2>3 DEF Accounts, Waiting
    <3>2. Turns(rows[r], Set(rows[r], "expired", FALSE), fills[r])
      BY <1>1, <3>1, SetTurns
    <3> QED BY <2>1, <2>3, <3>2 DEF Expired
  <2> QED BY <2>2, <2>3
<1>3. CASE ~(rows[r].over /\ rows[r].status \in Waiting)
  <2>1. Current[r] = rows[r]
    BY <1>3 DEF Current
  <2> QED BY <2>1, TurnsSame
<1> QED BY <1>2, <1>3

LEMMA UnauthorizedTurns ==
    ASSUME NEW a \in Row, NEW n
    PROVE  Turns(a, Unauthorized(a), n)
<1>1. a.status = "approved" => Turns(a, Set(a, "denied", FALSE), n)
  BY SetTurns DEF Accounts
<1>2. a.status = "authenticating" => Turns(a, Set(a, "needs-user", TRUE), n)
  BY SetTurns DEF Open
<1> QED BY <1>1, <1>2, TurnsSame DEF Unauthorized

LEMMA StaleTurns ==
    ASSUME NEW rs \in [Rows -> Row], NEW s
    PROVE  \A r \in Rows : \A n : Turns(rs[r], StaleRows(rs, s)[r], n)
BY MarkTurns, TurnsSame DEF StaleRows

LEMMA OneRowTurns ==
    ASSUME TypeOK, NEW r \in Rows, NEW b
    PROVE  /\ Turns(Current[r], b, fills[r]) =>
                \A q \in Rows : Turns(rows[q], [Current EXCEPT ![r] = b][q], fills[q])
           /\ Turns(rows[r], b, fills[r]) =>
                \A q \in Rows : Turns(rows[q], [rows EXCEPT ![r] = b][q], fills[q])
<1>1. ASSUME Turns(Current[r], b, fills[r]), NEW q \in Rows
      PROVE  Turns(rows[q], [Current EXCEPT ![r] = b][q], fills[q])
  <2>1. Turns(rows[q], Current[q], fills[q]) /\ Current \in [Rows -> Row]
    BY CurrentTurns, CurrentRows
  <2> QED BY <1>1, <2>1, TurnsOn
<1>2. ASSUME Turns(rows[r], b, fills[r]), NEW q \in Rows
      PROVE  Turns(rows[q], [rows EXCEPT ![r] = b][q], fills[q])
  BY <1>2, TurnsSame DEF TypeOK
<1> QED BY <1>1, <1>2

LEMMA StaleRetries ==
    ASSUME TypeOK, \A c \in calls : RetryOf(c), NEW s
    PROVE  \A c \in StaleCalls(s) : RetryOf(c)
<1> SUFFICES ASSUME NEW c \in calls PROVE RetryOf([c EXCEPT !.fresh = FALSE])
  BY DEF StaleCalls
<1>1. c \in Call
  BY DEF TypeOK
<1> QED BY <1>1 DEF RetryOf, Call

-----------------------------------------------------------------------------
(* What a step has to keep.                                                 *)

LEMMA CeremonyKept ==
    ASSUME IInv, CeremonyInv, IInv',
           \A q \in Rows : Turns(rows[q], rows'[q], fills[q]) \/ Begun(q),
           \A q \in Rows : fills'[q] > 0 => fills[q] > 0 \/ rows'[q].status = "authenticating",
           \A q \in Rows : Knows(q)', LeaseHeld', \A c \in calls' : RetryOf(c)
    PROVE  CeremonyInv'
<1>1. ASSUME NEW q \in Rows PROVE fills'[q] > 0 => Accounts(rows'[q])
  <2>1. CASE Begun(q)
    <3>1. Stage(q) /\ fills[q] \in Nat
      BY DEF IInv, TypeOK
    <3>2. ~(fills[q] > 0)
      BY <2>1, <3>1 DEF Begun, Stage
    <3> QED BY <3>2 DEF Accounts
  <2>2. CASE Turns(rows[q], rows'[q], fills[q])
    BY <2>2 DEF CeremonyInv, Turns, Accounts
  <2> QED BY <2>1, <2>2
<1>2. ASSUME NEW q \in Rows PROVE ToldWaits(rows'[q])
  BY DEF CeremonyInv, Turns, Begun
<1>3. OpenAlone'
  <2> SUFFICES ASSUME NEW p \in Rows, NEW q \in Rows, p # q, rows'[p].session = rows'[q].session,
                      rows'[p].status \in Open, rows'[q].status \in Open
               PROVE  FALSE
    BY DEF OpenAlone
  <2>1. ~Begun(p) /\ ~Begun(q)
    BY DEF Begun
  <2>2. Turns(rows[p], rows'[p], fills[p]) /\ Turns(rows[q], rows'[q], fills[q])
    BY <2>1
  <2> QED BY <2>2 DEF Turns, CeremonyInv, OpenAlone
<1>4. ASSUME NEW c \in calls' PROVE RetryOf(c)'
  <2>1. CASE c.op = "retry"
    <3>1. c.row \in Rows /\ rows[c.row].status # "absent" /\ rows[c.row].session = c.session
      BY <2>1, <1>4 DEF RetryOf
    <3>2. Turns(rows[c.row], rows'[c.row], fills[c.row])
      BY <3>1 DEF Begun
    <3>3. CallOK(c)'
      BY <1>4 DEF IInv
    <3> QED BY <2>1, <3>1, <3>2, <3>3 DEF RetryOf, Turns, CallOK
  <2>2. CASE c.op # "retry"
    BY <2>2 DEF RetryOf
  <2> QED BY <2>1, <2>2
<1> QED BY <1>1, <1>2, <1>3, <1>4 DEF CeremonyInv

\* A step that leaves the executions alone.
LEMMA QuietTurns ==
    ASSUME IInv, CeremonyInv, IInv', \A q \in Rows : Turns(rows[q], rows'[q], fills[q]),
           UNCHANGED <<pc, res, supplied, fills>>,
           \A s \in Sessions : lease'[s] = lease[s] \/ (lease'[s] \notin Rows /\ lease[s] \notin Rows),
           \A c \in calls' : RetryOf(c)
    PROVE  CeremonyInv'
<1>1. \A q \in Rows : Knows(q)'
  BY DEF CeremonyInv, Knows, Running
<1>2. LeaseHeld'
  BY DEF CeremonyInv, LeaseHeld, Turns
<1> QED BY <1>1, <1>2, CeremonyKept

\* A step of the execution of r, which holds the lease only inside of it.
LEMMA ExecTurns ==
    ASSUME IInv, CeremonyInv, IInv', NEW r \in Rows, NEW step, NEW result,
           Stepped(r, step, result), pc[r] # "idle",
           \A q \in Rows : Turns(rows[q], rows'[q], fills[q]),
           calls' \in {calls, StaleCalls(rows[r].session)},
           \/ lease' = lease /\ (pc[r] \in InLease <=> step \in InLease)
           \/ /\ lease' = [lease EXCEPT ![rows[r].session] = None]
              /\ pc[r] \in InLease /\ step \notin InLease
           \/ /\ lease' = [lease EXCEPT ![rows[r].session] = r] /\ lease[rows[r].session] = None
              /\ pc[r] \notin InLease /\ step \in InLease,
           \/ fills' = fills
           \/ /\ fills' = [fills EXCEPT ![r] = fills[r] + 1] /\ step = "fill"
              /\ rows'[r].status = "authenticating",
           step = "report" => result \in {"ok", "typed"} \/ fills[r] = 0
    PROVE  CeremonyInv'
<1>1. /\ TypeOK /\ Stage(r) /\ fills[r] \in Nat /\ rows[r].session \in Sessions
      /\ pc' = [pc EXCEPT ![r] = step] /\ res' = [res EXCEPT ![r] = result]
  BY DEF IInv, TypeOK, Stage, RowInv, Stepped
<1>2. \A c \in calls' : RetryOf(c)
  <2>1. \A c \in calls : RetryOf(c)
    BY DEF CeremonyInv
  <2> QED BY <1>1, <2>1, StaleRetries
<1>3. \A q \in Rows : fills'[q] > 0 => fills[q] > 0 \/ rows'[q].status = "authenticating"
  BY <1>1 DEF TypeOK
<1>4. ASSUME NEW q \in Rows PROVE Knows(q)'
  <2>1. CASE q # r
    <3>1. pc'[q] = pc[q] /\ res'[q] = res[q] /\ fills'[q] = fills[q] /\ (q \in supplied => q \in supplied')
      BY <1>1, <2>1 DEF TypeOK, Stepped
    <3> QED BY <3>1 DEF CeremonyInv, Knows, Running
  <2>2. CASE q = r
    <3>1. pc'[r] = step /\ res'[r] = result
      BY <1>1 DEF TypeOK
    <3>2. CASE fills' = fills
      <4>1. fills[r] > 0 /\ step \notin {"idle", "pause"} => r \in supplied'
        BY <1>1 DEF CeremonyInv, Knows, Running, Stepped, Stage
      <4> QED BY <1>1, <2>2, <3>1, <3>2, <4>1 DEF Knows, Running
    <3>3. CASE step = "fill"
      BY <2>2, <3>1, <3>3 DEF Knows, Running, Stepped
    <3> QED BY <3>2, <3>3
  <2> QED BY <2>1, <2>2
<1>5. LeaseHeld'
  <2> SUFFICES ASSUME NEW q \in Rows, NEW s \in Sessions
               PROVE  lease'[s] = q <=> rows'[q].session = s /\ pc'[q] \in InLease
    BY DEF LeaseHeld
  <2>1. rows'[q].session = rows[q].session
    BY DEF Turns
  <2>2. lease[s] = q <=> rows[q].session = s /\ pc[q] \in InLease
    BY DEF CeremonyInv, LeaseHeld
  <2>3. lease[s] = r <=> rows[r].session = s /\ pc[r] \in InLease
    BY DEF CeremonyInv, LeaseHeld
  <2>4. pc'[q] = IF q = r THEN step ELSE pc[q]
    BY <1>1 DEF TypeOK
  <2>5. lease \in [Sessions -> Rows \cup {None, Owner}]
    BY <1>1 DEF TypeOK
  <2> QED BY <1>1, <2>1, <2>2, <2>3, <2>4, <2>5, BrokerAssumption
<1> QED BY <1>2, <1>3, <1>4, <1>5, CeremonyKept

\* Inside the lease, where what is written goes through Settle.
LEMMA SettleTurns ==
    ASSUME IInv, CeremonyInv, IInv', NEW r \in Rows, NEW step, NEW result,
           NEW new \in [Rows -> Row], Stepped(r, step, result), pc[r] # "idle",
           \A q \in Rows : Turns(rows[q], new[q], fills[q]), Settle(r, new),
           pc[r] \in InLease \/ step \notin InLease,
           \/ fills' = fills
           \/ /\ fills' = [fills EXCEPT ![r] = fills[r] + 1] /\ step = "fill"
              /\ new[r].status = "authenticating",
           step = "report" => result \in {"ok", "typed"} \/ fills[r] = 0
    PROVE  CeremonyInv'
<1>1. pc'[r] = step
  BY DEF IInv, TypeOK, Stepped
<1>2. CASE pc[r] \in InLease /\ step \notin InLease
  <2>1. /\ rows' = StaleRows(new, rows[r].session) /\ calls' = StaleCalls(rows[r].session)
        /\ lease' = [lease EXCEPT ![rows[r].session] = None]
    BY <1>1, <1>2 DEF Settle
  <2>2. \A q \in Rows : Turns(new[q], rows'[q], fills[q])
    BY <2>1, StaleTurns
  <2>3. \A q \in Rows : Turns(rows[q], rows'[q], fills[q])
    BY <2>2, TurnsOn
  <2>4. fills' = fills
    BY <1>2 DEF InLease
  <2> QED BY <1>2, <2>1, <2>3, <2>4, ExecTurns
<1>3. CASE ~(pc[r] \in InLease /\ step \notin InLease)
  <2>1. rows' = new /\ calls' = calls /\ lease' = lease
    BY <1>1, <1>3 DEF Settle
  <2>2. pc[r] \in InLease <=> step \in InLease
    BY <1>3
  <2> QED BY <2>1, <2>2, ExecTurns
<1> QED BY <1>2, <1>3

-----------------------------------------------------------------------------
(* Executions, once more.                                                   *)

LEMMA RowsStay ==
    ASSUME UNCHANGED rows
    PROVE  \A q \in Rows : Turns(rows[q], rows'[q], fills[q])
BY TurnsSame

LEMMA SelectTurns ==
    ASSUME IInv, CeremonyInv, IInv', NEW r \in Rows, Select(r)
    PROVE  CeremonyInv'
<1> DEFINE row == Current[r]
           ok == row.status = "approved" /\ GrantValid(row)
           b == IF row.status = "approved" /\ ~ok THEN Set(row, "denied", FALSE) ELSE row
<1>1. /\ TypeOK /\ row \in Row /\ pc[r] = "select" /\ "select" \notin InLease
      /\ calls' = calls /\ lease' = lease /\ fills' = fills
  BY CurrentRows DEF IInv, Select, browser, InLease
<1>2. Turns(row, b, fills[r])
  <2>1. row.status = "approved" => Turns(row, Set(row, "denied", FALSE), fills[r])
    BY <1>1, SetTurns DEF Accounts
  <2> QED BY <2>1, TurnsSame
<1>3. \A q \in Rows : Turns(rows[q], rows'[q], fills[q])
  <2>1. rows' = [Current EXCEPT ![r] = b] \/ UNCHANGED rows
    BY DEF Select
  <2> HIDE DEF b
  <2> QED BY <1>1, <1>2, <2>1, OneRowTurns, RowsStay
<1>4. \E step \in {"inspect", "idle", "catch"}, result \in {"none", "store"} :
         Stepped(r, step, result)
  BY ContinueStepped, LeaveStepped DEF Select, Thrown
<1>5. {"inspect", "idle", "catch"} \cap (InLease \cup {"report"}) = {}
  BY DEF InLease
<1> QED BY <1>1, <1>3, <1>4, <1>5, ExecTurns

LEMMA InspectTurns ==
    ASSUME IInv, CeremonyInv, IInv', NEW r \in Rows, Inspect(r)
    PROVE  CeremonyInv'
<1>1. /\ pc[r] = "inspect" /\ "inspect" \notin InLease
      /\ rows' = rows /\ calls' = calls /\ lease' = lease /\ fills' = fills
  BY DEF Inspect, store, browser, InLease
<1>2. \E step \in {"catch", "changed", "enter"}, result \in {"gone", "other", "none"} :
         Stepped(r, step, result)
  BY ContinueStepped DEF Inspect
<1>3. {"catch", "changed", "enter"} \cap (InLease \cup {"report"}) = {}
  BY DEF InLease
<1> QED BY <1>1, <1>2, <1>3, RowsStay, ExecTurns

LEMMA ChangedTurns ==
    ASSUME IInv, CeremonyInv, IInv', NEW r \in Rows, Changed(r)
    PROVE  CeremonyInv'
<1> DEFINE b == IF rows[r].status = "approved" THEN Set(rows[r], "needs-user", FALSE) ELSE rows[r]
<1>1. /\ TypeOK /\ rows[r] \in Row /\ pc[r] = "changed" /\ "changed" \notin InLease
      /\ calls' = calls /\ lease' = lease /\ fills' = fills
  BY DEF IInv, TypeOK, Changed, browser, InLease
<1>2. Turns(rows[r], b, fills[r])
  <2>1. rows[r].status = "approved" => Turns(rows[r], Set(rows[r], "needs-user", FALSE), fills[r])
    BY <1>1, SetTurns DEF Accounts, Open
  <2> QED BY <2>1, TurnsSame
<1>3. rows' = [rows EXCEPT ![r] = b]
  BY <1>1 DEF Changed, TypeOK
<1>4. \A q \in Rows : Turns(rows[q], rows'[q], fills[q])
  BY <1>1, <1>2, <1>3, OneRowTurns
<1>5. Stepped(r, "idle", "none") /\ "idle" \notin InLease
  BY LeaveStepped DEF Changed, InLease
<1> QED BY <1>1, <1>4, <1>5, ExecTurns

LEMMA EnterTurns ==
    ASSUME IInv, CeremonyInv, IInv', NEW r \in Rows, Enter(r)
    PROVE  CeremonyInv'
<1>1. /\ pc[r] = "enter" /\ "enter" \notin InLease
      /\ rows' = rows /\ calls' = calls /\ fills' = fills
  BY DEF Enter, store, InLease
<1>2. \A q \in Rows : Turns(rows[q], rows'[q], fills[q])
  BY <1>1, RowsStay
<1>3. CASE lease' = lease /\ \E result \in {"gone", "other", "change"} : Continue(r, "catch", result)
  <2>1. \E result \in {"gone", "other", "change"} : Stepped(r, "catch", result)
    BY <1>3, ContinueStepped
  <2>2. "catch" \notin InLease
    BY DEF InLease
  <2> QED BY <1>1, <1>2, <1>3, <2>1, <2>2, ExecTurns
<1>4. CASE /\ lease[rows[r].session] = None
           /\ lease' = [lease EXCEPT ![rows[r].session] = r]
           /\ Continue(r, "authorize", "none")
  <2>1. Stepped(r, "authorize", "none") /\ "authorize" \in InLease
    BY <1>4, ContinueStepped DEF InLease
  <2> QED BY <1>1, <1>2, <1>4, <2>1, ExecTurns
<1> QED BY <1>3, <1>4 DEF Enter, Inspectable

LEMMA AuthorizeTurns ==
    ASSUME IInv, CeremonyInv, IInv', NEW r \in Rows, Authorize(r)
    PROVE  CeremonyInv'
<1> DEFINE row == Current[r]
           ok == row.status = "approved" /\ GrantValid(row)
           b == IF ok THEN Set(row, "authenticating", FALSE)
                ELSE IF row.status = "approved" THEN Set(row, "denied", FALSE)
                ELSE row
           decided == [Current EXCEPT ![r] = b]
<1>1. /\ TypeOK /\ row \in Row /\ pc[r] = "authorize" /\ "authorize" \in InLease
      /\ fills' = fills /\ fills[r] \in Nat
  BY CurrentRows DEF IInv, Authorize, InLease, TypeOK
<1>2. fills[r] = 0
  BY <1>1 DEF IInv, Stage
<1>3. Turns(row, b, fills[r])
  <2>1. row.status = "approved" => Turns(row, Set(row, "denied", FALSE), fills[r])
    BY <1>1, SetTurns DEF Accounts
  <2>2. row.status = "approved" => Turns(row, Set(row, "authenticating", FALSE), fills[r])
    BY <1>1, SetTurns DEF Open
  <2> QED BY <2>1, <2>2, TurnsSame
<1>4. b \in Row
  <2>1. Moves(row, Set(row, "denied", FALSE), known) \/ row.status # "approved"
    BY <1>1, SetMoves DEF Decided
  <2>2. Moves(row, Set(row, "authenticating", FALSE), known) \/ row.status # "approved"
    BY <1>1, SetMoves DEF Decided, Waiting
  <2> QED BY <1>1, <2>1, <2>2 DEF Moves
<1>5. decided \in [Rows -> Row] /\ \A q \in Rows : Turns(rows[q], decided[q], fills[q])
  <2> HIDE DEF b
  <2> QED BY <1>1, <1>3, <1>4, OneRowTurns, CurrentRows
<1>6. rows \in [Rows -> Row] /\ \A q \in Rows : Turns(rows[q], rows[q], fills[q])
  BY <1>1, TurnsSame DEF TypeOK
<1>7. \E new \in {rows, decided} : Settle(r, new)
  BY DEF Authorize
<1>8. \E step, result : Stepped(r, step, result)
  BY ContinueStepped DEF Authorize, Thrown
<1> HIDE DEF decided
<1> QED BY <1>1, <1>2, <1>5, <1>6, <1>7, <1>8, SettleTurns

LEMMA RetrieveTurns ==
    ASSUME IInv, CeremonyInv, IInv', NEW r \in Rows, Retrieve(r)
    PROVE  CeremonyInv'
<1>1. /\ TypeOK /\ pc[r] = "retrieve" /\ "retrieve" \in InLease /\ fills[r] \in Nat
      /\ fills' = fills /\ Settle(r, rows)
  BY DEF IInv, Retrieve, InLease, TypeOK
<1>2. rows \in [Rows -> Row] /\ \A q \in Rows : Turns(rows[q], rows[q], fills[q])
  BY <1>1, TurnsSame DEF TypeOK
<1>3. \E step, result : Stepped(r, step, result)
                        /\ (r \in supplied => result \in {"ok", "typed"})
  BY ContinueStepped DEF Retrieve
<1>4. r \notin supplied => fills[r] = 0
  BY <1>1 DEF IInv, Stage
<1> QED BY <1>1, <1>2, <1>3, <1>4, SettleTurns

LEMMA RecheckTurns ==
    ASSUME IInv, CeremonyInv, IInv', NEW r \in Rows, Recheck(r)
    PROVE  CeremonyInv'
<1> DEFINE ok == Current[r].status = "authenticating" /\ GrantValid(Current[r])
<1>1. /\ TypeOK /\ pc[r] = "recheck" /\ "recheck" \in InLease /\ fills[r] \in Nat
  BY DEF IInv, Recheck, InLease, TypeOK
<1>2. rows \in [Rows -> Row] /\ \A q \in Rows : Turns(rows[q], rows[q], fills[q])
  BY <1>1, TurnsSame DEF TypeOK
<1>3. Current \in [Rows -> Row] /\ \A q \in Rows : Turns(rows[q], Current[q], fills[q])
  BY <1>1, CurrentRows, CurrentTurns
<1>4. fills[r] = 0
  BY <1>1 DEF IInv, Stage
<1>5. CASE /\ ok /\ Continue(r, "fill", "none") /\ Settle(r, Current)
           /\ fills' = [fills EXCEPT ![r] = fills[r] + 1]
  <2>1. Stepped(r, "fill", "none") /\ Current[r].status = "authenticating"
    BY <1>5, ContinueStepped
  <2> QED BY <1>1, <1>3, <1>5, <2>1, SettleTurns
<1>6. CASE /\ ~ok /\ Continue(r, "report", "quiet") /\ Settle(r, Current)
           /\ fills' = [fills EXCEPT ![r] = fills[r]]
  <2>1. Stepped(r, "report", "quiet") /\ fills' = fills
    BY <1>1, <1>6, ContinueStepped DEF TypeOK
  <2> QED BY <1>1, <1>3, <1>4, <1>6, <2>1, SettleTurns
<1>7. CASE Thrown(r) /\ Settle(r, rows) /\ UNCHANGED fills
  <2>1. Stepped(r, "catch", "store")
    BY <1>7, ContinueStepped DEF Thrown
  <2> QED BY <1>1, <1>2, <1>7, <2>1, SettleTurns
<1>8. ok \/ ~ok
  OBVIOUS
<1> QED BY <1>5, <1>6, <1>7, <1>8 DEF Recheck

LEMMA FillTurns ==
    ASSUME IInv, CeremonyInv, IInv', NEW r \in Rows, Fill(r)
    PROVE  CeremonyInv'
<1>1. /\ TypeOK /\ pc[r] = "fill" /\ "fill" \in InLease
      /\ fills' = fills /\ Settle(r, rows)
  BY DEF IInv, Fill, InLease
<1>2. rows \in [Rows -> Row] /\ \A q \in Rows : Turns(rows[q], rows[q], fills[q])
  BY <1>1, TurnsSame DEF TypeOK
<1>3. \E step, result : Stepped(r, step, result) /\ (step = "report" => result \in {"ok", "typed"})
  BY ContinueStepped DEF Fill
<1> QED BY <1>1, <1>2, <1>3, SettleTurns

LEMMA InterruptedTurns ==
    ASSUME IInv, CeremonyInv, IInv', NEW r \in Rows, Interrupted(r)
    PROVE  CeremonyInv'
<1>1. /\ TypeOK /\ pc[r] # "idle" /\ "catch" \notin InLease
      /\ fills' = fills /\ Settle(r, rows)
  BY DEF IInv, Interrupted, InLease
<1>2. rows \in [Rows -> Row] /\ \A q \in Rows : Turns(rows[q], rows[q], fills[q])
  BY <1>1, TurnsSame DEF TypeOK
<1>3. Stepped(r, "catch", "abort")
  BY ContinueStepped DEF Interrupted
<1> QED BY <1>1, <1>2, <1>3, SettleTurns

\* The last mutation of an execution: what it knows of what it typed is written down.
LEMMA ReportedTurns ==
    ASSUME NEW a \in Row, a.status = "authenticating", NEW result, NEW told \in BOOLEAN, NEW n,
           n > 0 => result \in {"ok", "typed"}, NEW b \in Reported(a, result, told)
    PROVE  Turns(a, b, n)
<1>1. CASE result = "ok"
  <2>1. Turns(a, Set(a, "succeeded", FALSE), n)
    BY SetTurns
  <2> QED BY <1>1, <2>1 DEF Reported
<1>2. CASE result = "typed"
  <2> DEFINE x == Set(a, "needs-user", TRUE)
  <2>1. Turns(a, x, n)
    BY SetTurns DEF Open
  <2>2. x \in Row /\ x.status = "needs-user"
    BY SetFields DEF Statuses, Open
  <2>3. b = [x EXCEPT !.told = told]
    BY <1>2 DEF Reported
  <2> HIDE DEF x
  <2>4. Turns(x, b, n)
    BY <2>2, <2>3, MarkTurns
  <2> QED BY <2>1, <2>4, TurnsOn
<1>3. CASE result \notin {"ok", "typed"}
  <2>1. b \in {Set(a, "needs-user", FALSE), Set(a, "failed", FALSE)}
    BY <1>3 DEF Reported
  <2>2. Turns(a, Set(a, "needs-user", FALSE), n)
    BY <1>3, SetTurns DEF Open
  <2>3. Turns(a, Set(a, "failed", FALSE), n)
    BY <1>3, SetTurns
  <2> QED BY <2>1, <2>2, <2>3
<1> QED BY <1>1, <1>2, <1>3

LEMMA ReportTurns ==
    ASSUME IInv, CeremonyInv, IInv', NEW r \in Rows, Report(r)
    PROVE  CeremonyInv'
<1>1. /\ TypeOK /\ Current[r] \in Row /\ pc[r] = "report"
      /\ {"report", "catch", "idle"} \cap InLease = {}
      /\ calls' = calls /\ lease' = lease /\ fills' = fills
  BY CurrentRows DEF IInv, Report, browser, InLease
<1>2. fills[r] > 0 => res[r] \in {"ok", "typed"}
  BY <1>1 DEF CeremonyInv, Knows
<1>3. CASE Thrown(r) /\ UNCHANGED rows
  <2>1. Stepped(r, "catch", "store")
    BY <1>3, ContinueStepped DEF Thrown
  <2> QED BY <1>1, <1>3, <2>1, RowsStay, ExecTurns
<1>4. ASSUME NEW told \in BOOLEAN,
             NEW row \in IF Current[r].status = "authenticating"
                         THEN Reported(Current[r], res[r], told) ELSE {Current[r]},
             rows' = [Current EXCEPT ![r] = row], Leave(r, "idle")
      PROVE  CeremonyInv'
  <2>1. Turns(Current[r], row, fills[r])
    <3>1. CASE Current[r].status = "authenticating"
      BY <1>1, <1>2, <1>4, <3>1, ReportedTurns
    <3>2. CASE Current[r].status # "authenticating"
      BY <1>4, <3>2, TurnsSame
    <3> QED BY <3>1, <3>2
  <2>2. \A q \in Rows : Turns(rows[q], rows'[q], fills[q])
    BY <1>1, <1>4, <2>1, OneRowTurns
  <2>3. Stepped(r, "idle", "none")
    BY <1>4, LeaveStepped
  <2> QED BY <1>1, <2>2, <2>3, ExecTurns
<1> QED BY <1>3, <1>4 DEF Report

LEMMA CaughtTurns ==
    ASSUME NEW a \in Row, NEW r, NEW n, n > 0 => r \in supplied
    PROVE  Turns(a, Caught(a, r), n)
<1>1. CASE a.status \notin {"approved", "authenticating"}
  BY <1>1, TurnsSame DEF Caught
<1>2. CASE a.status \in {"approved", "authenticating"} /\ r \in supplied
  <2> DEFINE x == Set(a, "needs-user", TRUE)
  <2>1. Turns(a, x, n)
    BY <1>2, SetTurns DEF Open
  <2>2. x \in Row /\ x.status = "needs-user"
    BY SetFields DEF Statuses, Open
  <2>3. Caught(a, r) = [x EXCEPT !.told = TRUE]
    BY <1>2 DEF Caught
  <2> HIDE DEF x
  <2>4. Turns(x, Caught(a, r), n)
    BY <2>2, <2>3, MarkTurns
  <2> QED BY <2>1, <2>4, TurnsOn
<1>3. CASE a.status \in {"approved", "authenticating"} /\ r \notin supplied
  <2>1. Caught(a, r) \in {a, Set(a, "needs-user", TRUE), Set(a, "needs-user", FALSE),
                         Set(a, "failed", FALSE)}
    BY <1>3 DEF Caught
  <2>2. Turns(a, Set(a, "needs-user", TRUE), n)
    BY <1>3, SetTurns DEF Open
  <2>3. Turns(a, Set(a, "needs-user", FALSE), n)
    BY <1>3, SetTurns DEF Open
  <2>4. Turns(a, Set(a, "failed", FALSE), n)
    BY <1>3, SetTurns
  <2> QED BY <2>1, <2>2, <2>3, <2>4, TurnsSame
<1> QED BY <1>1, <1>2, <1>3

LEMMA CatchTurns ==
    ASSUME IInv, CeremonyInv, IInv', NEW r \in Rows, Catch(r)
    PROVE  CeremonyInv'
<1> DEFINE caught == [rows EXCEPT ![r] = Caught(rows[r], r)]
<1>1. /\ TypeOK /\ rows[r] \in Row /\ pc[r] = "catch"
      /\ {"catch", "idle", "pause"} \cap InLease = {}
      /\ calls' = calls /\ lease' = lease /\ fills' = fills
  BY DEF IInv, TypeOK, Catch, browser, InLease
<1>2. rows' \in {rows, caught} /\ \E error \in BOOLEAN : Again(r, error)
  BY Zenon DEF Catch
<1>3. fills[r] > 0 => r \in supplied
  BY <1>1 DEF CeremonyInv, Knows, Running
<1>4. \A q \in Rows : Turns(rows[q], rows'[q], fills[q])
  BY <1>1, <1>2, <1>3, CaughtTurns, OneRowTurns, RowsStay
<1>5. \E step \in {"idle", "pause"} : Stepped(r, step, "none")
  BY <1>2, LeaveStepped DEF Again
<1> QED BY <1>1, <1>4, <1>5, ExecTurns

LEMMA AttemptTurns ==
    ASSUME IInv, CeremonyInv, IInv', NEW r \in Rows, Attempt(r)
    PROVE  CeremonyInv'
<1>1. /\ pc[r] = "pause" /\ {"pause", "select"} \cap InLease = {}
      /\ rows' = rows /\ calls' = calls /\ lease' = lease /\ fills' = fills
  BY DEF Attempt, store, browser, InLease
<1>2. Stepped(r, "select", "none")
  BY DEF Attempt, Goto, Stepped
<1> QED BY <1>1, <1>2, RowsStay, ExecTurns

LEMMA ExecutionTurns ==
    ASSUME IInv, CeremonyInv, IInv', Execution
    PROVE  CeremonyInv'
<1>1. PICK r \in Rows :
         \/ Select(r) \/ Inspect(r) \/ Changed(r) \/ Enter(r) \/ Authorize(r)
         \/ Retrieve(r) \/ Recheck(r) \/ Fill(r) \/ Interrupted(r) \/ Report(r)
         \/ Catch(r) \/ Attempt(r)
  BY DEF Execution
<1> QED BY <1>1, SelectTurns, InspectTurns, ChangedTurns, EnterTurns, AuthorizeTurns,
           RetrieveTurns, RecheckTurns, FillTurns, InterruptedTurns, ReportTurns, CatchTurns,
           AttemptTurns

-----------------------------------------------------------------------------
(* Calls and the environment, once more.                                    *)

\* Retries that a step leaves, or begins, are of rows of their session.
LEMMA CallTurns ==
    ASSUME IInv, CeremonyInv, IInv',
           \/ calls' \subseteq calls
           \/ \E s : calls' = StaleCalls(s)
           \/ \E c : RetryOf(c) /\ calls' = calls \cup {c}
    PROVE  \A c \in calls' : RetryOf(c)
<1>1. TypeOK /\ \A c \in calls : RetryOf(c)
  BY DEF IInv, CeremonyInv
<1> QED BY <1>1, StaleRetries

\* A call begins or ends.
LEMMA CallsTurn ==
    ASSUME IInv, CeremonyInv, IInv', UNCHANGED <<store, running, browser, fills>>,
           calls' \subseteq calls \/ \E c : RetryOf(c) /\ calls' = calls \cup {c}
    PROVE  CeremonyInv'
<1>1. \A c \in calls' : RetryOf(c)
  BY CallTurns
<1>2. UNCHANGED <<rows, pc, res, supplied, fills, lease>>
  BY DEF store, running, browser
<1> QED BY <1>1, <1>2, RowsStay, QuietTurns

LEMMA BeginTurns ==
    ASSUME IInv, CeremonyInv, IInv',
           \/ \E s \in Sessions : BeginRequest(s) \/ BeginComplete(s)
           \/ \E r \in Rows : BeginRetry(r)
           \/ \E c \in calls : EndCall(c)
    PROVE  CeremonyInv'
<1>1. ASSUME NEW s \in Sessions, BeginRequest(s)
      PROVE  CeremonyInv'
  <2>1. \E c : RetryOf(c) /\ calls' = calls \cup {c}
    BY <1>1 DEF BeginRequest, RetryOf
  <2> QED BY <1>1, <2>1, CallsTurn DEF BeginRequest
<1>2. ASSUME NEW s \in Sessions, BeginComplete(s)
      PROVE  CeremonyInv'
  <2>1. \E c : RetryOf(c) /\ calls' = calls \cup {c}
    BY <1>2 DEF BeginComplete, RetryOf
  <2> QED BY <1>2, <2>1, CallsTurn DEF BeginComplete
<1>3. ASSUME NEW r \in Rows, BeginRetry(r)
      PROVE  CeremonyInv'
  <2>1. rows[r].status # "absent"
    BY <1>3 DEF BeginRetry, Retryable
  <2>2. \E c : RetryOf(c) /\ calls' = calls \cup {c}
    BY <1>3, <2>1 DEF BeginRetry, RetryOf
  <2> QED BY <1>3, <2>2, CallsTurn DEF BeginRetry
<1>4. ASSUME NEW c \in calls, EndCall(c)
      PROVE  CeremonyInv'
  <2>1. calls' \subseteq calls
    BY <1>4 DEF EndCall
  <2> QED BY <1>4, <2>1, CallsTurn DEF EndCall
<1> QED BY <1>1, <1>2, <1>3, <1>4

\* A step of the store that leaves the executions and the browser alone.
LEMMA StoreTurns ==
    ASSUME IInv, CeremonyInv, IInv', \A q \in Rows : Turns(rows[q], rows'[q], fills[q]),
           UNCHANGED <<pc, res, supplied, fills, lease>>, calls' \subseteq calls
    PROVE  CeremonyInv'
BY CallTurns, QuietTurns

LEMMA PollTurns ==
    ASSUME IInv, CeremonyInv, IInv', Poll
    PROVE  CeremonyInv'
<1>1. \A q \in Rows : Turns(rows[q], rows'[q], fills[q])
  BY CurrentTurns DEF IInv, Poll
<1> QED BY <1>1, StoreTurns DEF Poll, running, browser

LEMMA CancelTurns ==
    ASSUME IInv, CeremonyInv, IInv', NEW r \in Rows, Cancel(r)
    PROVE  CeremonyInv'
<1> DEFINE row == Current[r]
           b == IF row.status = "authenticating" \/ (row.status = "needs-user" /\ Running(r))
                THEN Set(row, "needs-user", TRUE)
                ELSE IF row.status \in Open THEN Set(row, "cancelled", FALSE) ELSE row
<1>1. TypeOK /\ row \in Row /\ rows' = [Current EXCEPT ![r] = b]
  BY CurrentRows DEF IInv, Cancel
<1>2. Turns(row, b, fills[r])
  <2>1. row.status \in {"authenticating", "needs-user"}
          => Turns(row, Set(row, "needs-user", TRUE), fills[r])
    BY <1>1, SetTurns DEF Open
  <2>2. Turns(row, Set(row, "cancelled", FALSE), fills[r])
    BY <1>1, SetTurns
  <2> QED BY <2>1, <2>2, TurnsSame
<1> HIDE DEF b
<1>3. \A q \in Rows : Turns(rows[q], rows'[q], fills[q])
  BY <1>1, <1>2, OneRowTurns
<1> QED BY <1>3, StoreTurns DEF Cancel, browser

LEMMA DenyTurns ==
    ASSUME IInv, CeremonyInv, IInv', NEW r \in Rows, Deny(r)
    PROVE  CeremonyInv'
<1> DEFINE b == Set(Current[r], "denied", MayHaveSubmitted(r, Current[r]))
<1>1. /\ TypeOK /\ Current[r] \in Row /\ rows' = [Current EXCEPT ![r] = b]
      /\ Current[r].status \in Open \cup {"failed"}
  BY CurrentRows DEF IInv, Deny
<1>2. MayHaveSubmitted(r, Current[r]) \in BOOLEAN
  BY Zenon DEF MayHaveSubmitted
<1>3. Accounts(Current[r]) => MayHaveSubmitted(r, Current[r])
  BY <1>1 DEF Accounts, MayHaveSubmitted, Open
<1>4. Turns(Current[r], b, fills[r])
  BY <1>1, <1>2, <1>3, SetTurns
<1> HIDE DEF b
<1>5. \A q \in Rows : Turns(rows[q], rows'[q], fills[q])
  BY <1>1, <1>4, OneRowTurns
<1> QED BY <1>5, StoreTurns DEF Deny, browser

LEMMA CommitCompleteTurns ==
    ASSUME IInv, CeremonyInv, IInv', NEW c \in calls, CommitComplete(c)
    PROVE  CeremonyInv'
<1>1. \A q \in Rows : Turns(rows[q], rows'[q], fills[q])
  <2> SUFFICES ASSUME NEW q \in Rows PROVE Turns(rows[q], rows'[q], fills[q])
    OBVIOUS
  <2>1. rows[q] \in Row
    BY DEF IInv, TypeOK
  <2>2. Turns(rows[q], Set(rows[q], "succeeded", FALSE), fills[q])
    BY <2>1, SetTurns
  <2>3. rows'[q] \in {Set(rows[q], "succeeded", FALSE), rows[q]}
    BY DEF CommitComplete
  <2> QED BY <2>2, <2>3, TurnsSame
<1> QED BY <1>1, StoreTurns DEF CommitComplete, running, browser

LEMMA RevokePolicyTurns ==
    ASSUME IInv, CeremonyInv, IInv', RevokePolicy
    PROVE  CeremonyInv'
<1>1. \A q \in Rows : Turns(rows[q], rows'[q], fills[q])
  <2> SUFFICES ASSUME NEW q \in Rows PROVE Turns(rows[q], rows'[q], fills[q])
    OBVIOUS
  <2>1. Current[q] \in Row /\ Turns(rows[q], Current[q], fills[q])
    BY CurrentRows, CurrentTurns DEF IInv
  <2>2. Turns(Current[q], Unauthorized(Current[q]), fills[q])
    BY <2>1, UnauthorizedTurns
  <2>3. rows'[q] = Unauthorized(Current[q])
    BY DEF RevokePolicy
  <2> QED BY <2>1, <2>2, <2>3, TurnsOn
<1> QED BY <1>1, StoreTurns DEF RevokePolicy, browser

\* What a revocation, a new enrollment or a retirement makes of a row.
LEMMA WithdrawnTurns ==
    ASSUME NEW a \in Row, NEW n
    PROVE  /\ a.status = "authenticating" => Turns(a, Set(a, "needs-user", TRUE), n)
           /\ a.status \in {"pending", "approved"} => Turns(a, Set(a, "denied", FALSE), n)
           /\ a.status = "needs-user" => Turns(a, Set(a, "denied", a.uncertain), n)
           /\ a.status = "needs-user" => Turns(a, Set(a, "needs-user", TRUE), n)
           /\ Turns(a, Set(a, "cancelled", FALSE), n)
<1>1. a.status = "authenticating" => Turns(a, Set(a, "needs-user", TRUE), n)
  BY SetTurns DEF Open
<1>2. a.status \in {"pending", "approved"} => Turns(a, Set(a, "denied", FALSE), n)
  BY SetTurns DEF Accounts
<1>3. a.status = "needs-user" => Turns(a, Set(a, "denied", a.uncertain), n)
  <2>1. a.uncertain \in BOOLEAN
    BY DEF Row
  <2>2. a.status = "needs-user" => (Accounts(a) => a.uncertain)
    BY DEF Accounts
  <2> QED BY <2>1, <2>2, SetTurns
<1>4. a.status = "needs-user" => Turns(a, Set(a, "needs-user", TRUE), n)
  BY SetTurns DEF Open
<1>5. Turns(a, Set(a, "cancelled", FALSE), n)
  BY SetTurns
<1> QED BY <1>1, <1>2, <1>3, <1>4, <1>5

LEMMA RevokeRequesterTurns ==
    ASSUME IInv, CeremonyInv, IInv', RevokeRequester
    PROVE  CeremonyInv'
<1>1. \A q \in Rows : Turns(rows[q], rows'[q], fills[q])
  <2> SUFFICES ASSUME NEW q \in Rows PROVE Turns(rows[q], rows'[q], fills[q])
    OBVIOUS
  <2> DEFINE row == Unauthorized(rows[q])
  <2>1. rows[q] \in Row /\ row \in Row
    BY UnauthorizedMoves DEF IInv, TypeOK, Moves
  <2>2. Turns(rows[q], row, fills[q])
    BY <2>1, UnauthorizedTurns
  <2>3. rows'[q] = CASE row.status = "authenticating" -> Set(row, "needs-user", TRUE)
                     [] row.status \in {"pending", "approved"} -> Set(row, "denied", FALSE)
                     [] row.status = "needs-user" /\ ~Running(q) -> Set(row, "denied", row.uncertain)
                     [] OTHER -> row
    BY DEF RevokeRequester
  <2> HIDE DEF row
  <2>4. Turns(row, rows'[q], fills[q])
    BY <2>1, <2>3, WithdrawnTurns, TurnsSame
  <2> QED BY <2>2, <2>4, TurnsOn
<1> QED BY <1>1, StoreTurns DEF RevokeRequester, browser

LEMMA PutEnrollmentTurns ==
    ASSUME IInv, CeremonyInv, IInv', PutEnrollment
    PROVE  CeremonyInv'
<1>1. \A q \in Rows : Turns(rows[q], rows'[q], fills[q])
  <2> SUFFICES ASSUME NEW q \in Rows PROVE Turns(rows[q], rows'[q], fills[q])
    OBVIOUS
  <2> DEFINE row == Unauthorized(rows[q])
  <2>1. rows[q] \in Row /\ row \in Row
    BY UnauthorizedMoves DEF IInv, TypeOK, Moves
  <2>2. Turns(rows[q], row, fills[q])
    BY <2>1, UnauthorizedTurns
  <2>3. rows'[q] = CASE row.status = "authenticating" -> Set(row, "needs-user", TRUE)
                     [] row.status \in {"pending", "approved"} -> Set(row, "denied", FALSE)
                     [] OTHER -> row
    BY DEF PutEnrollment
  <2> HIDE DEF row
  <2>4. Turns(row, rows'[q], fills[q])
    BY <2>1, <2>3, WithdrawnTurns, TurnsSame
  <2> QED BY <2>2, <2>4, TurnsOn
<1> QED BY <1>1, StoreTurns DEF PutEnrollment, browser

LEMMA RetireProviderTurns ==
    ASSUME IInv, CeremonyInv, IInv', RetireProvider
    PROVE  CeremonyInv'
<1>1. \A q \in Rows : Turns(rows[q], rows'[q], fills[q])
  <2> SUFFICES ASSUME NEW q \in Rows PROVE Turns(rows[q], rows'[q], fills[q])
    OBVIOUS
  <2>1. rows[q] \in Row /\ ToldWaits(rows[q])
    BY DEF IInv, TypeOK, CeremonyInv
  <2>2. rows[q].told => rows[q].status = "needs-user"
    BY <2>1 DEF ToldWaits
  <2>3. rows'[q] = IF ~NeedsAttention(rows[q]) THEN rows[q]
                   ELSE IF rows[q].status = "authenticating" \/ rows[q].told
                   THEN Set(rows[q], "needs-user", TRUE)
                   ELSE Set(rows[q], "cancelled", FALSE)
    BY DEF RetireProvider
  <2> QED BY <2>1, <2>2, <2>3, WithdrawnTurns, TurnsSame
<1> QED BY <1>1, StoreTurns DEF RetireProvider, browser

\* An approval, and what of it is executed at once.
LEMMA GrantedTurns ==
    ASSUME NEW a \in Row, a.status = "pending", NEW policy \in 0..MaxPolicies, NEW n
    PROVE  Turns(a, Granted(a, policy), n)
<1> DEFINE x == Set(a, "approved", FALSE)
<1>1. /\ x \in Row /\ x.status = "approved" /\ x.session = a.session
      /\ ~x.told
  <2>1. "approved" \in Statuses /\ "approved" \notin {"needs-user", "failed"}
    BY DEF Statuses, Open
  <2>2. x \in Row /\ x.status = "approved" /\ x.session = a.session
    BY <2>1, SetFields
  <2>3. ~x.told
    BY <2>1, SetFlags
  <2> QED BY <2>2, <2>3
<1> HIDE DEF x
<1>2. Granted(a, policy) = [x EXCEPT !.granted = TRUE, !.policy = policy]
  BY DEF Granted, x
<1>3. /\ Granted(a, policy).session = a.session
      /\ Granted(a, policy).told <=> x.told
  BY <1>1, <1>2 DEF Row
<1> QED BY <1>1, <1>3 DEF Turns, Accounts, ToldWaits, Open

LEMMA LaunchTurns ==
    ASSUME IInv, CeremonyInv, IInv', NEW r \in Rows, Launch(r),
           \A q \in Rows : q # r => Turns(rows[q], rows'[q], fills[q]),
           Turns(rows[r], rows'[r], fills[r]) \/ Begun(r),
           UNCHANGED <<res, supplied, lease, fills>>, calls' \subseteq calls
    PROVE  CeremonyInv'
<1>1. TypeOK /\ TypeOK' /\ Stage(r) /\ Stage(r)'
  BY DEF IInv
<1>2. \A c \in calls' : RetryOf(c)
  BY CallTurns
<1>3. \/ pc' = pc
      \/ /\ pc' = [pc EXCEPT ![r] = "select"] /\ rows'[r].status = "approved" /\ ~Running(r)
  BY DEF Launch
<1>4. ASSUME NEW q \in Rows PROVE Knows(q)'
  <2>1. CASE pc'[q] = pc[q]
    BY <2>1 DEF CeremonyInv, Knows, Running
  <2>2. CASE pc'[q] # pc[q]
    <3>1. q = r /\ rows'[r].status = "approved"
      BY <1>1, <1>3, <2>2 DEF TypeOK
    <3> QED BY <1>1, <3>1 DEF Stage, Knows
  <2> QED BY <2>1, <2>2
<1>5. LeaseHeld'
  <2> SUFFICES ASSUME NEW q \in Rows, NEW s \in Sessions
               PROVE  lease'[s] = q <=> rows'[q].session = s /\ pc'[q] \in InLease
    BY DEF LeaseHeld
  <2>1. lease[s] = q <=> rows[q].session = s /\ pc[q] \in InLease
    BY DEF CeremonyInv, LeaseHeld
  <2>2. pc'[q] \in InLease <=> pc[q] \in InLease
    BY <1>1, <1>3 DEF TypeOK, Running, InLease
  <2>3. CASE Turns(rows[q], rows'[q], fills[q])
    BY <2>1, <2>2, <2>3 DEF Turns
  <2>4. CASE Begun(q)
    <3>1. pc[q] = "idle"
      BY <2>4 DEF Begun, IInv, Stage
    <3> QED BY <2>1, <2>2, <3>1 DEF InLease
  <2> QED BY <2>3, <2>4
<1> QED BY <1>2, <1>4, <1>5, CeremonyKept

LEMMA ApproveOnceTurns ==
    ASSUME IInv, CeremonyInv, IInv', NEW r \in Rows, ApproveOnce(r)
    PROVE  CeremonyInv'
<1>1. /\ TypeOK /\ Current \in [Rows -> Row] /\ Current[r].status = "pending" /\ Launch(r)
      /\ UNCHANGED <<res, supplied, calls, browser, fills>>
      /\ rows' = [Current EXCEPT ![r] = Granted(Current[r], 0)]
  BY CurrentRows DEF IInv, ApproveOnce, MayApprove
<1>2. Turns(Current[r], Granted(Current[r], 0), fills[r])
  BY <1>1, GrantedTurns, BrokerAssumption
<1>3. \A q \in Rows : Turns(rows[q], rows'[q], fills[q])
  BY <1>1, <1>2, OneRowTurns
<1> QED BY <1>1, <1>3, LaunchTurns DEF browser

LEMMA ApproveAlwaysTurns ==
    ASSUME IInv, CeremonyInv, IInv', NEW r \in Rows, NEW covers \in BOOLEAN,
           ApproveAlways(r, covers)
    PROVE  CeremonyInv'
<1>1. /\ TypeOK /\ Current \in [Rows -> Row] /\ Current[r].status = "pending" /\ Launch(r)
      /\ UNCHANGED <<res, supplied, calls, browser, fills>>
      /\ policies' \in 0..MaxPolicies
  BY CurrentRows DEF IInv, ApproveAlways, MayApprove, TypeOK
<1>2. rows' = [q \in Rows |->
                 IF q # r THEN Unauthorized(Current[q])
                 ELSE IF covers THEN Granted(Current[r], policies')
                 ELSE Set(Current[r], "needs-user", FALSE)]
  BY DEF ApproveAlways
<1>3. ASSUME NEW q \in Rows PROVE Turns(rows[q], rows'[q], fills[q])
  <2>1. Turns(rows[q], Current[q], fills[q])
    BY <1>1, CurrentTurns
  <2>2. Turns(Current[q], rows'[q], fills[q])
    <3>1. CASE q # r
      BY <1>1, <1>2, <3>1, UnauthorizedTurns
    <3>2. CASE q = r /\ covers
      BY <1>1, <1>2, <3>2, GrantedTurns
    <3>3. CASE q = r /\ ~covers
      <4>1. Turns(Current[r], Set(Current[r], "needs-user", FALSE), fills[r])
        BY <1>1, SetTurns DEF Open, Accounts
      <4> QED BY <1>2, <3>3, <4>1
    <3> QED BY <3>1, <3>2, <3>3
  <2> QED BY <2>1, <2>2, TurnsOn
<1> QED BY <1>1, <1>3, LaunchTurns DEF browser

\* A new row was told nothing.
LEMMA NewRowTold ==
    ASSUME NEW c, NEW status, NEW policy
    PROVE  ~NewRow(c, status, policy).told /\ NewRow(c, status, policy).session = c.session
BY DEF NewRow, Absent

LEMMA CommitRequestTurns ==
    ASSUME IInv, CeremonyInv, IInv', NEW c \in calls, NEW r \in Rows, CommitRequest(c, r)
    PROVE  CeremonyInv'
<1>1. /\ TypeOK /\ Current \in [Rows -> Row] /\ rows[r].status = "absent"
      /\ \A q \in Rows : ~Existing(c, Current[q])
      /\ Launch(r) /\ calls' \subseteq calls
      /\ UNCHANGED <<res, supplied, browser, fills>>
  BY CurrentRows DEF IInv, CommitRequest
<1>2. PICK status \in {"succeeded", "needs-user", "approved", "pending"}, policy \in {0, live} :
         rows' = [Current EXCEPT ![r] = NewRow(c, status, policy)]
  <2>1. PICK new \in IF c.purpose = "in" THEN {NewRow(c, "succeeded", 0)}
                     ELSE {NewRow(c, "needs-user", 0),
                           NewRow(c, IF live # 0 THEN "approved" ELSE "pending", live)} :
           rows' = [Current EXCEPT ![r] = new]
    BY DEF CommitRequest
  <2> QED BY <2>1
<1>3. /\ ~rows'[r].told /\ rows'[r].session = c.session
      /\ \A q \in Rows : q # r => rows'[q] = Current[q]
  BY <1>1, <1>2, NewRowTold
<1>4. Begun(r)
  BY <1>1, <1>3 DEF Begun, ToldWaits, Existing
<1>5. \A q \in Rows : q # r => Turns(rows[q], rows'[q], fills[q])
  BY <1>1, <1>3, CurrentTurns
<1> QED BY <1>1, <1>4, <1>5, LaunchTurns DEF browser

LEMMA CommitRetryTurns ==
    ASSUME IInv, CeremonyInv, IInv', NEW c \in calls, NEW n \in Rows, CommitRetry(c, n)
    PROVE  CeremonyInv'
<1> DEFINE row == Current[c.row]
           dropped == [Set(row, "cancelled", FALSE) EXCEPT !.next = n]
<1>1. /\ TypeOK /\ Current \in [Rows -> Row] /\ rows[n].status = "absent" /\ c.row \in Rows
      /\ rows[c.row].status # "absent" /\ rows[c.row].session = c.session
      /\ \A q \in RowsIn(row.session) \ {c.row} : Current[q].status \notin Open
      /\ calls' \subseteq calls /\ UNCHANGED <<pc, res, supplied, lease, fills>>
  BY CurrentRows DEF IInv, CeremonyInv, RetryOf, CommitRetry, running, browser
<1>2. PICK status \in {"pending", "needs-user"} :
         rows' = [Current EXCEPT ![c.row] = dropped, ![n] = NewRow(c, status, 0)]
  BY DEF CommitRetry
<1>3. row \in Row /\ row.session = c.session /\ Turns(rows[c.row], row, fills[c.row])
  BY <1>1, CurrentTurns DEF Turns
<1>4. dropped.status = "cancelled" /\ Turns(row, dropped, fills[c.row])
  <2> DEFINE x == Set(row, "cancelled", FALSE)
  <2>1. x \in Row /\ x.status = "cancelled" /\ Turns(row, x, fills[c.row])
    BY <1>3, SetFields, SetTurns DEF Statuses, Closed
  <2> HIDE DEF x
  <2>2. dropped = [x EXCEPT !.next = n]
    BY DEF x
  <2>3. Turns(x, dropped, fills[c.row])
    BY <2>1, <2>2, MarkTurns
  <2>4. dropped.status = "cancelled"
    BY <2>1, <2>2 DEF Row
  <2>5. Turns(row, dropped, fills[c.row])
    BY <2>1, <2>3, TurnsOn
  <2> QED BY <2>4, <2>5
<1>5. Turns(rows[c.row], dropped, fills[c.row])
  BY <1>3, <1>4, TurnsOn
<1> HIDE DEF row, dropped
<1>6. /\ ~rows'[n].told /\ rows'[n].session = c.session /\ rows'[c.row] = dropped
      /\ \A q \in Rows : q \notin {n, c.row} => rows'[q] = Current[q]
  BY <1>1, <1>2, NewRowTold
<1>7. Begun(n)
  <2> SUFFICES ASSUME NEW q \in Rows, q # n, rows'[q].session = c.session
               PROVE  rows'[q].status \notin Open
    BY <1>1, <1>6 DEF Begun, ToldWaits
  <2>1. CASE q = c.row
    BY <1>4, <1>6, <2>1 DEF Open
  <2>2. CASE q # c.row
    <3>1. rows'[q] = Current[q] /\ rows[q].session = Current[q].session
      BY <1>1, <1>6, <2>2, CurrentTurns DEF Turns
    <3> QED BY <1>1, <1>3, <2>2, <3>1 DEF RowsIn, row
  <2> QED BY <2>1, <2>2
<1>8. \A q \in Rows : q # n => Turns(rows[q], rows'[q], fills[q])
  <2> SUFFICES ASSUME NEW q \in Rows, q # n PROVE Turns(rows[q], rows'[q], fills[q])
    OBVIOUS
  <2>1. CASE q = c.row
    BY <1>5, <1>6, <2>1
  <2>2. CASE q # c.row
    BY <1>1, <1>6, <2>2, CurrentTurns
  <2> QED BY <2>1, <2>2
<1>9. \A c2 \in calls' : RetryOf(c2)
  BY <1>1, CallTurns
<1>10. \A q \in Rows : Knows(q)'
  BY <1>1 DEF CeremonyInv, Knows, Running
<1>11. LeaseHeld'
  <2> SUFFICES ASSUME NEW q \in Rows, NEW s \in Sessions
               PROVE  lease'[s] = q <=> rows'[q].session = s /\ pc'[q] \in InLease
    BY DEF LeaseHeld
  <2>1. lease[s] = q <=> rows[q].session = s /\ pc[q] \in InLease
    BY DEF CeremonyInv, LeaseHeld
  <2>2. CASE q = n
    <3>1. pc[q] = "idle"
      BY <1>1, <2>2 DEF IInv, Stage
    <3> QED BY <1>1, <2>1, <3>1 DEF InLease
  <2>3. CASE q # n
    BY <1>1, <1>8, <2>1, <2>3 DEF Turns
  <2> QED BY <2>2, <2>3
<1> QED BY <1>1, <1>7, <1>8, <1>9, <1>10, <1>11, CeremonyKept

LEMMA CallsTurnAll ==
    ASSUME IInv, CeremonyInv, IInv', Calls
    PROVE  CeremonyInv'
<1>1. CASE \E s \in Sessions : BeginRequest(s) \/ BeginComplete(s)
  BY <1>1, BeginTurns
<1>2. CASE \E c \in calls, r \in Rows : CommitRequest(c, r) \/ CommitRetry(c, r)
  BY <1>2, CommitRequestTurns, CommitRetryTurns
<1>3. CASE \E c \in calls : CommitComplete(c) \/ EndCall(c)
  BY <1>3, CommitCompleteTurns, BeginTurns
<1>4. CASE \E r \in Rows : Cancel(r) \/ Deny(r) \/ ApproveOnce(r) \/ BeginRetry(r)
  BY <1>4, CancelTurns, DenyTurns, ApproveOnceTurns, BeginTurns
<1>5. CASE \E r \in Rows, covers \in BOOLEAN : ApproveAlways(r, covers)
  BY <1>5, ApproveAlwaysTurns
<1>6. CASE Poll \/ RevokePolicy \/ RevokeRequester \/ PutEnrollment \/ RetireProvider
  BY <1>6, PollTurns, RevokePolicyTurns, RevokeRequesterTurns, PutEnrollmentTurns,
     RetireProviderTurns
<1> QED BY <1>1, <1>2, <1>3, <1>4, <1>5, <1>6 DEF Calls

LEMMA TimeTurns ==
    ASSUME IInv, CeremonyInv, IInv', NEW r \in Rows, Timeout(r) \/ Lapse(r)
    PROVE  CeremonyInv'
<1>1. CASE Timeout(r)
  BY <1>1, RowsStay, StoreTurns DEF Timeout, store, browser
<1>2. CASE Lapse(r)
  <2>1. TypeOK /\ rows[r] \in Row /\ rows' = [rows EXCEPT ![r] = [rows[r] EXCEPT !.over = TRUE]]
    BY <1>2 DEF IInv, TypeOK, Lapse
  <2>2. \A q \in Rows : Turns(rows[q], rows'[q], fills[q])
    BY <2>1, MarkTurns, OneRowTurns
  <2> QED BY <1>2, <2>2, StoreTurns DEF Lapse, running, browser
<1> QED BY <1>1, <1>2

LEMMA SessionsTurn ==
    ASSUME IInv, CeremonyInv, IInv', NEW s \in Sessions,
           OpenSession(s) \/ AgentOperates(s) \/ StartTakeover(s) \/ FinishTakeover(s)
    PROVE  CeremonyInv'
<1>1. TypeOK /\ rows \in [Rows -> Row] /\ lease \in [Sessions -> Rows \cup {None, Owner}]
  BY DEF IInv, TypeOK
<1>2. \/ UNCHANGED <<rows, calls>>
      \/ rows' = StaleRows(rows, s) /\ calls' = StaleCalls(s)
  BY DEF OpenSession, AgentOperates, StartTakeover, FinishTakeover, store
<1>3. \A q \in Rows : Turns(rows[q], rows'[q], fills[q])
  BY <1>1, <1>2, RowsStay, StaleTurns
<1>4. \A c \in calls' : RetryOf(c)
  BY <1>2, CallTurns
<1>5. UNCHANGED <<pc, res, supplied, fills>>
  BY DEF OpenSession, AgentOperates, StartTakeover, FinishTakeover, running
<1>6. \/ lease' = lease
      \/ lease[s] = None /\ lease' = [lease EXCEPT ![s] = Owner]
      \/ lease[s] = Owner /\ lease' = [lease EXCEPT ![s] = None]
  BY DEF OpenSession, AgentOperates, StartTakeover, FinishTakeover, Inspectable
<1>7. \A t \in Sessions : lease'[t] = lease[t] \/ (lease'[t] \notin Rows /\ lease[t] \notin Rows)
  BY <1>1, <1>6, BrokerAssumption
<1> QED BY <1>3, <1>4, <1>5, <1>7, QuietTurns

LEMMA CloseSessionTurns ==
    ASSUME IInv, CeremonyInv, IInv', NEW s \in Sessions, CloseSession(s)
    PROVE  CeremonyInv'
<1> DEFINE holders == {r \in RowsIn(s) : lease[s] = r}
<1>1. /\ TypeOK /\ rows' = StaleRows(rows, s) /\ calls' = StaleCalls(s)
      /\ lease' = [lease EXCEPT ![s] = None] /\ UNCHANGED <<supplied, fills>>
      /\ pc' = [r \in Rows |-> IF r \in holders THEN "report" ELSE pc[r]]
      /\ res' = [r \in Rows |-> IF r \notin holders THEN res[r]
                                ELSE IF r \in supplied THEN "typed" ELSE "quiet"]
  BY DEF IInv, CloseSession
<1>2. \A q \in Rows : Turns(rows[q], rows'[q], fills[q])
  BY <1>1, StaleTurns DEF TypeOK
<1>3. \A c \in calls' : RetryOf(c)
  BY <1>1, CallTurns
<1>4. \A q \in Rows : q \in holders <=> lease[s] = q
  BY DEF CeremonyInv, LeaseHeld, RowsIn
<1>5. \A q \in Rows : lease[s] = q <=> rows[q].session = s /\ pc[q] \in InLease
  BY DEF CeremonyInv, LeaseHeld
<1> HIDE DEF holders
<1>6. ASSUME NEW q \in Rows PROVE Knows(q)'
  <2>1. CASE q \in holders
    <3>1. pc[q] \in InLease
      BY <1>4, <1>5, <2>1
    <3>2. fills[q] > 0 => q \in supplied
      BY <3>1 DEF CeremonyInv, Knows, Running, InLease
    <3> QED BY <1>1, <2>1, <3>2 DEF Knows
  <2>2. CASE q \notin holders
    <3>1. pc'[q] = pc[q] /\ res'[q] = res[q]
      BY <1>1, <2>2
    <3> QED BY <1>1, <3>1 DEF CeremonyInv, Knows, Running
  <2> QED BY <2>1, <2>2
<1>7. LeaseHeld'
  <2> SUFFICES ASSUME NEW q \in Rows, NEW t \in Sessions
               PROVE  lease'[t] = q <=> rows'[q].session = t /\ pc'[q] \in InLease
    BY DEF LeaseHeld
  <2>1. lease[t] = q <=> rows[q].session = t /\ pc[q] \in InLease
    BY DEF CeremonyInv, LeaseHeld
  <2>2. rows'[q].session = rows[q].session
    BY <1>2 DEF Turns
  <2>3. pc'[q] = IF q \in holders THEN "report" ELSE pc[q]
    BY <1>1
  <2>4. lease'[t] = IF t = s THEN None ELSE lease[t]
    BY <1>1 DEF TypeOK
  <2> QED BY <1>4, <1>5, <2>1, <2>2, <2>3, <2>4, BrokerAssumption DEF InLease
<1> QED BY <1>1, <1>2, <1>3, <1>6, <1>7, CeremonyKept

LEMMA RestartTurns ==
    ASSUME IInv, CeremonyInv, IInv', Restart
    PROVE  CeremonyInv'
<1> DEFINE interrupted == [r \in Rows |-> IF rows[r].status = "authenticating"
                                          THEN Expired(rows[r]) ELSE Current[r]]
           resumed == {r \in Rows : interrupted[r].status = "approved"}
<1>1. /\ TypeOK /\ rows' = [r \in Rows |-> [interrupted[r] EXCEPT !.fresh = FALSE]]
      /\ pc' = [r \in Rows |-> IF r \in resumed THEN "select" ELSE "idle"]
      /\ calls' = {} /\ lease' = [s \in Sessions |-> None] /\ fills' = fills
  BY DEF IInv, Restart
<1>2. ASSUME NEW q \in Rows
      PROVE  interrupted[q] \in Row /\ Turns(rows[q], interrupted[q], fills[q])
  <2>1. rows[q] \in Row /\ Current[q] \in Row /\ Turns(rows[q], Current[q], fills[q])
    BY <1>1, CurrentRows, CurrentTurns DEF TypeOK
  <2>2. CASE rows[q].status = "authenticating"
    <3>1. Turns(rows[q], Set(rows[q], "needs-user", TRUE), fills[q])
          /\ Set(rows[q], "needs-user", TRUE) \in Row
      BY <2>1, <2>2, SetTurns, SetFields DEF Open, Statuses
    <3> QED BY <2>2, <3>1 DEF Expired
  <2>3. CASE rows[q].status # "authenticating"
    BY <2>1, <2>3
  <2> QED BY <2>2, <2>3
<1>3. ASSUME NEW q \in Rows
      PROVE  Turns(rows[q], rows'[q], fills[q]) /\ (q \in resumed => rows'[q].status = "approved")
  <2> DEFINE x == interrupted[q]
  <2>1. x \in Row /\ Turns(rows[q], x, fills[q]) /\ rows'[q] = [x EXCEPT !.fresh = FALSE]
    BY <1>1, <1>2
  <2>2. q \in resumed => x.status = "approved"
    OBVIOUS
  <2> HIDE DEF x
  <2>3. Turns(x, rows'[q], fills[q]) /\ rows'[q].status = x.status
    BY <2>1, MarkTurns DEF Row
  <2> QED BY <2>1, <2>2, <2>3, TurnsOn
<1> HIDE DEF interrupted, resumed
<1>4. ASSUME NEW q \in Rows PROVE Knows(q)'
  <2>1. Stage(q)'
    BY DEF IInv
  <2>2. pc'[q] = "select" => rows'[q].status = "approved"
    BY <1>1, <1>3
  <2>3. pc'[q] \in {"select", "idle"}
    BY <1>1
  <2> QED BY <2>1, <2>2, <2>3 DEF Knows, Stage, Running
<1>5. LeaseHeld'
  BY <1>1, BrokerAssumption DEF LeaseHeld, InLease
<1> QED BY <1>1, <1>3, <1>4, <1>5, CeremonyKept

LEMMA EnvironmentTurns ==
    ASSUME IInv, CeremonyInv, IInv', Environment
    PROVE  CeremonyInv'
<1>1. CASE \E r \in Rows : Timeout(r) \/ Lapse(r)
  BY <1>1, TimeTurns
<1>2. CASE \E s \in Sessions : OpenSession(s) \/ CloseSession(s) \/ AgentOperates(s)
                               \/ StartTakeover(s) \/ FinishTakeover(s)
  BY <1>2, SessionsTurn, CloseSessionTurns
<1>3. CASE Restart
  BY <1>3, RestartTurns
<1> QED BY <1>1, <1>2, <1>3 DEF Environment

LEMMA CeremonyInit == Init => CeremonyInv
<1> SUFFICES ASSUME Init PROVE CeremonyInv
  OBVIOUS
<1>1. \A r \in Rows : rows[r] = Absent /\ pc[r] = "idle" /\ fills[r] = 0
  BY DEF Init
<1>2. Absent.told = FALSE /\ Absent.status = "absent"
  BY DEF Absent
<1>3. \A r \in Rows : Knows(r) /\ ToldWaits(rows[r])
  BY <1>1, <1>2 DEF Knows, ToldWaits
<1>4. LeaseHeld
  BY <1>1, BrokerAssumption DEF Init, LeaseHeld, InLease
<1>5. OpenAlone
  BY <1>1, <1>2 DEF OpenAlone, Open
<1> QED BY <1>1, <1>3, <1>4, <1>5 DEF CeremonyInv, Init

LEMMA CeremonyStep == IInv /\ IInv' /\ CeremonyInv /\ [Next]_vars => CeremonyInv'
<1> SUFFICES ASSUME IInv, IInv', CeremonyInv, [Next]_vars PROVE CeremonyInv'
  OBVIOUS
<1>1. CASE Next
  BY <1>1, ExecutionTurns, CallsTurnAll, EnvironmentTurns DEF Next
<1>2. CASE UNCHANGED vars
  <2>1. UNCHANGED <<store, running, browser, fills>> /\ calls' \subseteq calls
    BY <1>2 DEF vars
  <2> QED BY <2>1, CallsTurn
<1> QED BY <1>1, <1>2

LEMMA CeremonyInvariance == Spec => []CeremonyInv
BY Invariance, CeremonyInit, CeremonyStep, PTL DEF Spec

\* A set without two elements has at most one.
LEMMA AtMostOne ==
    ASSUME NEW S, \A a, b \in S : a = b
    PROVE  Cardinality(S) <= 1
<1>1. CASE S = {}
  BY <1>1, FS_EmptySet
<1>2. CASE S # {}
  <2>1. PICK a : S = {a}
    BY <1>2
  <2> QED BY <2>1, FS_Singleton
<1> QED BY <1>1, <1>2

\* A request has its credentials typed once, in the only ceremony of its page:
\* a session has at most one request that is open, and one at most is being
\* typed into it, however requests race, are retried, expire and are denied.
THEOREM TypedAlone == Spec => []TypedOnceAlone
<1>1. IInv /\ CeremonyInv => TypedOnceAlone
  <2> SUFFICES ASSUME IInv, CeremonyInv PROVE TypedOnceAlone
    OBVIOUS
  <2>1. TypedOnce
    <3> SUFFICES ASSUME NEW r \in Rows PROVE fills[r] <= 1
      BY DEF TypedOnce
    <3>1. Stage(r) /\ fills[r] \in Nat
      BY DEF IInv, TypeOK
    <3> QED BY <3>1 DEF Stage
  <2>2. ASSUME NEW s \in Sessions
        PROVE  /\ Cardinality({r \in RowsIn(s) : rows[r].status \in Open}) <= 1
               /\ Cardinality({r \in RowsIn(s) : pc[r] = "fill"}) <= 1
    <3>1. \A a, b \in {r \in RowsIn(s) : rows[r].status \in Open} : a = b
      BY DEF CeremonyInv, OpenAlone, RowsIn
    <3>2. \A a, b \in {r \in RowsIn(s) : pc[r] = "fill"} : a = b
      <4>1. \A a \in RowsIn(s) : pc[a] = "fill" => lease[s] = a
        BY DEF CeremonyInv, LeaseHeld, RowsIn, InLease
      <4> QED BY <4>1
    <3> QED BY <3>1, <3>2, AtMostOne
  <2> QED BY <2>1, <2>2 DEF TypedOnceAlone, OneCeremony
<1> QED BY Invariance, CeremonyInvariance, <1>1, PTL

\* Once credentials were typed for a request it never stops saying so: it is a
\* success, or still authenticating, or says its outcome is uncertain, until
\* somebody cancels it.
THEOREM UncertaintyStays == Spec => []UncertaintyKept
<1>1. CeremonyInv => UncertaintyKept
  BY DEF CeremonyInv, Accounts, UncertaintyKept, Dismissed
<1> QED BY CeremonyInvariance, <1>1, PTL
==============================================================================
