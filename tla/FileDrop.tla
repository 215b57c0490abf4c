------------------------------- MODULE FileDrop -------------------------------
(***************************************************************************)
(* Cookies through a shared folder, companion/drop.js and                  *)
(* companion/drop-store.js.  An exporter writes a blob whose name carries  *)
(* its counter; an importer takes the blobs of all hosts in the order of   *)
(* their counters and remembers, per host, the last one it injected.       *)
(*                                                                         *)
(* Each side keeps its counters in a state file, which it writes after the *)
(* blob, or after the last injection of an import, respectively.  Either   *)
(* may stop before that, and the folder is one another program brings to   *)
(* the importer's machine, a blob at a time and in any order.              *)
(*                                                                         *)
(* Left out: encryption (a blob that does not decrypt is passed over), the *)
(* optional limit of a blob's age, and what is in the cookies.             *)
(***************************************************************************)
EXTENDS Naturals, Sequences, FiniteSets, SequencesExt

CONSTANTS
    Hosts,       \* source host ids; one exporter each
    MaxCounter,  \* bound of the counters
    MaxFaults    \* bound of failed injections and of stops

VARIABLES
    exported,   \* exported[h]: exportCounter in the exporter's state file
    exporting,  \* hosts that wrote a blob and have yet to save their state
    versions,   \* versions[h]: exports so far, each with newer cookies
    folder,     \* folder[h]: the version under each counter, 0 when there is none
    arrived,    \* blobs that have arrived on the importer's machine
    saved,      \* saved[h]: replay counters in the importer's state file
    replay,     \* replay[h]: the same in memory, while an import runs
    files,      \* the blobs it has yet to take
    injecting,  \* the blob whose cookies are being injected, or NoBlob
    injected,   \* injected[h]: the counter of the last blob that was injected in full
    faults

vars == <<exported, exporting, versions, folder, arrived, saved, replay, files, injecting,
          injected, faults>>

Blob == Hosts \X (1..MaxCounter)
NoBlob == <<>>
Off == [running |-> FALSE]

Init ==
    /\ exported = [h \in Hosts |-> 0]
    /\ exporting = {}
    /\ versions = [h \in Hosts |-> 0]
    /\ folder = [h \in Hosts |-> [n \in 1..MaxCounter |-> 0]]
    /\ arrived = {}
    /\ saved = [h \in Hosts |-> 0]
    /\ replay = Off
    /\ files = <<>>
    /\ injecting = NoBlob
    /\ injected = [h \in Hosts |-> 0]
    /\ faults = 0

importer == <<saved, replay, files, injecting, injected>>

-----------------------------------------------------------------------------
(* exportWithState.                                                         *)

\* allocateExport and writeBlobAtomic: the blob appears under its name, in full.
WriteBlob(h) ==
    /\ h \notin exporting
    /\ exported[h] < MaxCounter /\ versions[h] < MaxCounter
    /\ versions' = [versions EXCEPT ![h] = @ + 1]
    /\ folder' = [folder EXCEPT ![h][exported[h] + 1] = versions[h] + 1]
    /\ exporting' = exporting \cup {h}
    /\ UNCHANGED <<exported, arrived, importer, faults>>

SaveExport(h) ==
    /\ h \in exporting
    /\ exported' = [exported EXCEPT ![h] = @ + 1]
    /\ exporting' = exporting \ {h}
    /\ UNCHANGED <<versions, folder, arrived, importer, faults>>

\* The exporter stops, or its state can not be written: the counter is used again.
ExportStops(h) ==
    /\ h \in exporting /\ faults < MaxFaults
    /\ faults' = faults + 1
    /\ exporting' = exporting \ {h}
    /\ UNCHANGED <<exported, versions, folder, arrived, importer>>

\* The folder is brought along, by something outside of the program.
Arrive(h, n) ==
    /\ folder[h][n] # 0
    /\ <<h, n>> \notin arrived
    /\ arrived' = arrived \cup {<<h, n>>}
    /\ UNCHANGED <<exported, exporting, versions, folder, importer, faults>>

-----------------------------------------------------------------------------
(* importFromDrop.                                                          *)

\* listBlobFiles: by counter.
BeginImport ==
    /\ replay = Off
    /\ replay' = [running |-> TRUE, last |-> saved]
    /\ \E order \in SetToAllKPermutations(arrived) :
         /\ Len(order) = Cardinality(arrived)
         /\ \A i, j \in 1..Len(order) : i < j => order[i][2] <= order[j][2]
         /\ files' = order
    /\ UNCHANGED <<exported, exporting, versions, folder, arrived, saved, injecting, injected,
                   faults>>

\* checkFreshness: a counter that was taken before is passed over.
PassOver ==
    /\ replay.running /\ injecting = NoBlob /\ files # <<>>
    /\ Head(files)[2] <= replay.last[Head(files)[1]]
    /\ files' = Tail(files)
    /\ UNCHANGED <<exported, exporting, versions, folder, arrived, saved, replay, injecting,
                   injected, faults>>

\* Mutant of Inject: the counter is taken before the cookies are injected.
InjectRecorded ==
    /\ replay.running /\ injecting = NoBlob /\ files # <<>>
    /\ Head(files)[2] > replay.last[Head(files)[1]]
    /\ injecting' = Head(files)
    /\ replay' = [replay EXCEPT !.last[Head(files)[1]] = Head(files)[2]]
    /\ files' = Tail(files)
    /\ UNCHANGED <<exported, exporting, versions, folder, arrived, saved, injected, faults>>

Inject ==
    /\ replay.running /\ injecting = NoBlob /\ files # <<>>
    /\ Head(files)[2] > replay.last[Head(files)[1]]
    /\ injecting' = Head(files)
    /\ files' = Tail(files)
    /\ UNCHANGED <<exported, exporting, versions, folder, arrived, saved, replay, injected,
                   faults>>

\* recordAccepted: only after every cookie was set.
Injected ==
    /\ injecting # NoBlob
    /\ injected' = [injected EXCEPT ![injecting[1]] = injecting[2]]
    /\ replay' = [running |-> TRUE,
                  last |-> [replay.last EXCEPT ![injecting[1]] = injecting[2]]]
    /\ injecting' = NoBlob
    /\ UNCHANGED <<exported, exporting, versions, folder, arrived, saved, files, faults>>

\* A cookie is refused or Chrome goes away; the next blobs are taken all the same.
InjectFails ==
    /\ injecting # NoBlob /\ faults < MaxFaults
    /\ faults' = faults + 1
    /\ injecting' = NoBlob
    /\ UNCHANGED <<exported, exporting, versions, folder, arrived, saved, replay, files,
                   injected>>

SaveReplay ==
    /\ replay.running /\ injecting = NoBlob /\ files = <<>>
    /\ saved' = replay.last
    /\ replay' = Off
    /\ UNCHANGED <<exported, exporting, versions, folder, arrived, files, injecting, injected,
                   faults>>

\* The importer stops, or its state can not be written: what it took is taken again.
ImportStops ==
    /\ replay.running /\ faults < MaxFaults
    /\ faults' = faults + 1
    /\ replay' = Off /\ files' = <<>> /\ injecting' = NoBlob
    /\ UNCHANGED <<exported, exporting, versions, folder, arrived, saved, injected>>

-----------------------------------------------------------------------------
Next ==
    \/ \E h \in Hosts :
         \/ WriteBlob(h) \/ SaveExport(h) \/ ExportStops(h)
         \/ \E n \in 1..MaxCounter : Arrive(h, n)
    \/ BeginImport \/ PassOver \/ Inject \/ Injected \/ InjectFails \/ SaveReplay \/ ImportStops

Spec == Init /\ [][Next]_vars

-----------------------------------------------------------------------------
(* Properties.                                                              *)

\* Wherever either side stops and in whatever order the blobs arrive, the browser is never
\* behind the state file: a counter that will be passed over from now on is of a blob that
\* was injected in full, or of an older one than that.
NeverBehind == \A h \in Hosts : saved[h] <= injected[h]
=============================================================================
