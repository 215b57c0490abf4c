------------------------------ MODULE Pairing ------------------------------
(***************************************************************************)
(* Pairing of receivers with one source: cli/pairing.js.                   *)
(*                                                                         *)
(* The source issues an invitation file; a receiver answers it with a      *)
(* request file naming a device identity drawn at random; the source       *)
(* approves the request, which opens a channel in its vault, consumes the  *)
(* invitation and puts the sealed activation in an outbox; the receiver    *)
(* activates, which replaces its bootstrap key by the channel.  The user   *)
(* carries the files: they may be copied, carried twice, carried late and  *)
(* to several machines.  Each command holds its profile's lock and may end *)
(* between any two of its writes.                                          *)
(*                                                                         *)
(* Fingerprints, signatures and seals are taken at their word: a request   *)
(* is what the fingerprint names, and only its device opens an activation. *)
(***************************************************************************)
EXTENDS Integers, FiniteSets

CONSTANTS
    Invites,       \* ids of invitations
    Devices,       \* receiver profiles, each with its own device identity
    MaxLive,       \* invitations that may be pending (32)
    MaxPaired,     \* receivers that may be paired (32)
    InviteTtl,     \* INVITE_TTL: fifteen minutes
    MaxTime        \* bound of the clock

Request == [device : Devices, invite : Invites]

VARIABLES
    now,        \* the clock of both machines
    created,    \* createdAt of every invitation whose file was written
    issued,     \* invitations in the source's vault
    channels,   \* devices with a channel in the source's vault
    outbox,     \* approvals whose activation the source can write again
    requests,   \* request files that exist somewhere
    activations,\* activation files that exist somewhere, by their request
    phase,      \* phase[d]: the vault of d: none, requested or active
    asked,      \* asked[d]: the invitation d's request answers
    pending,    \* receivers whose config entry is marked pending
    revoked,    \* history: devices the source revoked
    granted     \* history: granted[i], devices that i ever got a channel for

vars == <<now, created, issued, channels, outbox, requests, activations,
          phase, asked, pending, revoked, granted>>

source == <<created, issued, channels, outbox, revoked, granted>>
receiver == <<phase, asked, pending>>

Init ==
    /\ now = 0
    /\ created = [i \in Invites |-> MaxTime + 1]
    /\ issued = {}
    /\ channels = {}
    /\ outbox = {}
    /\ requests = {}
    /\ activations = {}
    /\ phase = [d \in Devices |-> "none"]
    /\ asked = [d \in Devices |-> {}]
    /\ pending = {}
    /\ revoked = {}
    /\ granted = [i \in Invites |-> {}]

Written(i) == created[i] <= MaxTime
ExpiresAt(i) == created[i] + InviteTtl
Fresh(i) == Written(i) /\ now < ExpiresAt(i)
Unexpired(S) == {i \in S : now < ExpiresAt(i)}

-----------------------------------------------------------------------------
(* The source.                                                              *)

\* createInvite: the file is written before the vault is, and the command may
\* end in between: the file then names an invitation nobody issued.
CreateInvite(i) ==
    /\ ~Written(i)
    /\ Cardinality(Unexpired(issued)) < MaxLive
    /\ created' = [created EXCEPT ![i] = now]
    /\ issued' \in {issued, Unexpired(issued) \cup {i}}
    /\ UNCHANGED <<now, channels, outbox, requests, activations, receiver,
                   revoked, granted>>

\* approvePairing of a request approved before: the activation of the outbox is
\* written again, as long as the channel exists.
ApproveAgain(r) ==
    /\ r \in requests
    /\ Fresh(r.invite)
    /\ r \in outbox
    /\ r.device \in channels
    /\ activations' = activations \cup {r}
    /\ UNCHANGED <<now, source, requests, receiver>>

\* What every approval of r checks before it opens a channel.
MayOpen(r) ==
    /\ r \in requests
    /\ Fresh(r.invite)
    /\ r.device \notin channels
    /\ Cardinality(channels) < MaxPaired

LiveOutbox == {o \in outbox : now < ExpiresAt(o.invite)}

\* Mutant: the channel is opened, and the invitation stays issued.
ApproveKeepsInvite(r) ==
    /\ MayOpen(r)
    /\ r.invite \in issued
    /\ channels' = channels \cup {r.device}
    /\ outbox' = LiveOutbox \cup {r}
    /\ granted' = [granted EXCEPT ![r.invite] = @ \cup {r.device}]
    /\ activations' \in {activations, activations \cup {r}}
    /\ UNCHANGED <<now, created, issued, requests, receiver, revoked>>

\* Mutant: the outbox remembers the last approval alone.
ApproveReplacesOutbox(r) ==
    /\ MayOpen(r)
    /\ r.invite \in issued
    /\ channels' = channels \cup {r.device}
    /\ issued' = issued \ {r.invite}
    /\ outbox' = {r}
    /\ granted' = [granted EXCEPT ![r.invite] = @ \cup {r.device}]
    /\ activations' \in {activations, activations \cup {r}}
    /\ UNCHANGED <<now, created, requests, receiver, revoked>>

\* approvePairing: channel, consumption of the invitation and outbox entry are
\* one write of the vault; the activation file may fail to be written after it.
Approve(r) ==
    /\ MayOpen(r)
    /\ r.invite \in issued
    /\ channels' = channels \cup {r.device}
    /\ issued' = issued \ {r.invite}
    /\ outbox' = LiveOutbox \cup {r}
    /\ granted' = [granted EXCEPT ![r.invite] = @ \cup {r.device}]
    /\ activations' \in {activations, activations \cup {r}}
    /\ UNCHANGED <<now, created, requests, receiver, revoked>>

\* revokeDevice: the channel and its outbox entries go in one write.
Revoke(d) ==
    /\ d \in channels
    /\ channels' = channels \ {d}
    /\ outbox' = {o \in outbox : o.device # d}
    /\ revoked' = revoked \cup {d}
    /\ UNCHANGED <<now, created, issued, requests, activations, receiver,
                   granted>>

-----------------------------------------------------------------------------
(* A receiver.                                                              *)

\* requestPairing for a new profile: vault and config entry are saved under the
\* config lock, the request file may fail to be written after them.
RequestPairing(d, i) ==
    /\ phase[d] = "none"
    /\ Fresh(i)
    /\ phase' = [phase EXCEPT ![d] = "requested"]
    /\ asked' = [asked EXCEPT ![d] = {i}]
    /\ pending' = pending \cup {d}
    /\ requests' \in {requests, requests \cup {[device |-> d, invite |-> i]}}
    /\ UNCHANGED <<now, source, activations>>

\* exportRequest, and requestPairing with the same invitation: the saved request
\* is written again.
ExportRequest(d) ==
    /\ phase[d] = "requested"
    /\ \E i \in asked[d] :
         /\ Fresh(i)
         /\ requests' = requests \cup {[device |-> d, invite |-> i]}
    /\ UNCHANGED <<now, source, activations, receiver>>

\* activatePairing: the channel replaces the bootstrap key in the vault, then the
\* config entry loses its pending mark; the command may end in between.
Activate(r) ==
    /\ r \in activations
    /\ phase[r.device] = "requested"
    /\ r.invite \in asked[r.device]
    /\ Fresh(r.invite)
    /\ phase' = [phase EXCEPT ![r.device] = "active"]
    /\ pending' \in {pending, pending \ {r.device}}
    /\ UNCHANGED <<now, source, requests, activations, asked>>

\* activatePairing again after it ended in between: the receipt matches.
ActivateAgain(r) ==
    /\ r \in activations
    /\ phase[r.device] = "active"
    /\ r.device \in pending
    /\ r.invite \in asked[r.device]
    /\ pending' = pending \ {r.device}
    /\ UNCHANGED <<now, source, requests, activations, phase, asked>>

Tick ==
    /\ now < MaxTime
    /\ now' = now + 1
    /\ UNCHANGED <<source, requests, activations, receiver>>

-----------------------------------------------------------------------------

Next ==
    \/ \E i \in Invites : CreateInvite(i)
    \/ \E r \in Request : Approve(r) \/ ApproveAgain(r)
    \/ \E d \in Devices : Revoke(d)
    \/ \E d \in Devices, i \in Invites : RequestPairing(d, i)
    \/ \E d \in Devices : ExportRequest(d)
    \/ \E r \in Request : Activate(r) \/ ActivateAgain(r)
    \/ Tick

Spec == Init /\ [][Next]_vars

-----------------------------------------------------------------------------
(* Properties.                                                              *)

\* Every variable keeps its type.
TypeOK ==
    /\ now \in 0..MaxTime
    /\ created \in [Invites -> 0..MaxTime + 1]
    /\ issued \subseteq Invites
    /\ channels \subseteq Devices
    /\ outbox \subseteq Request
    /\ requests \subseteq Request
    /\ activations \subseteq Request
    /\ phase \in [Devices -> {"none", "requested", "active"}]
    /\ asked \in [Devices -> SUBSET Invites]
    /\ pending \subseteq Devices
    /\ revoked \subseteq Devices
    /\ granted \in [Invites -> SUBSET Devices]

\* "An invitation can authorize only one receiver", whoever copied its file and
\* however often requests are presented.
OneReceiverPerInvite == \A i \in Invites : Cardinality(granted[i]) <= 1

\* A revoked device never gets a channel back: no old request or activation
\* reopens it.
RevokedStaysOut == channels \cap revoked = {}

\* "Approval is saved": while the invitation lasts, an approved receiver that is
\* not revoked can get its activation written again.
ApprovalIsSaved ==
    \A r \in Request :
        r.device \in channels /\ r.device \in granted[r.invite] /\ Fresh(r.invite)
          => r \in outbox

\* A receiver holds a channel only if the source approved exactly it, and an
\* issued invitation has authorized nobody yet.
ActiveWasApproved ==
    /\ \A d \in Devices : phase[d] = "active" => d \in channels \cup revoked
    /\ \A i \in issued : granted[i] = {}

\* An invitation lets one receiver in, an active receiver is one the source let in, none
\* comes back after it was revoked, and an approval survives until its activation can be
\* written again, however the files are copied, carried late or carried twice.
PairingIsExclusive ==
    /\ OneReceiverPerInvite /\ ActiveWasApproved
    /\ RevokedStaysOut /\ ApprovalIsSaved
=============================================================================
