------------------------------- MODULE KeyFile ------------------------------
(***************************************************************************)
(* The identity of an Agent and the signing key of the Hub: a file that    *)
(* the first start makes and later ones read                               *)
(* (src/internal/agent/identity.go, LoadOrCreateIdentity;                  *)
(* src/internal/node/keys.go, LoadOrCreateKey, which does the same).       *)
(*                                                                         *)
(* Processes that share the directory run at the same time: a container    *)
(* and the one that replaces it.  The machine itself does not fail.        *)
(***************************************************************************)
EXTENDS Naturals, FiniteSets

CONSTANTS
  Procs,     \* processes
  Keys,      \* what key generation may return
  MaxKills,  \* bound: killed processes and failed writes
  NoKey,
  Part       \* a file that is not written to its end

ASSUME KeyFileAssumption ==
  /\ MaxKills \in Nat /\ NoKey \notin Keys \cup {Part} /\ Part \notin Keys

VARIABLES
  keyFile,  \* the key in the file, Part of one, or None
  used,     \* the keys that were generated: no two are alike
  proc,     \* processes: how far they are, the key they generated or run with
  kills

keyVars == <<keyFile, used, proc, kills>>

Steps == {"down", "read", "generate", "create", "write", "close", "up", "failed"}

Stands(p, step) == proc[p].step = step

Goes(p, step) == proc' = [proc EXCEPT ![p].step = step]

Harm == kills < MaxKills /\ kills' = kills + 1

KeyInit ==
  /\ keyFile \in {NoKey} \cup Keys /\ used = {keyFile} \ {NoKey}
  /\ proc = [p \in Procs |-> [step |-> "down", key |-> NoKey]] /\ kills = 0
-----------------------------------------------------------------------------
Start(p) ==
  /\ Stands(p, "down") /\ Goes(p, "read") /\ UNCHANGED <<keyFile, used, kills>>

\* Slip: what is read is not checked.
ReadUnchecked(p) ==
  /\ Stands(p, "read")
  /\ IF keyFile = NoKey THEN Goes(p, "generate")
     ELSE proc' = [proc EXCEPT ![p] = [step |-> "up", key |-> keyFile]]
  /\ UNCHANGED <<keyFile, used, kills>>

\* ReadFile, and what is there is checked.
Read(p) ==
  /\ Stands(p, "read")
  /\ \/ keyFile = NoKey /\ Goes(p, "generate")
     \/ keyFile = Part /\ Goes(p, "failed")
     \/ /\ keyFile \in Keys
        /\ proc' = [proc EXCEPT ![p] = [step |-> "up", key |-> keyFile]]
  /\ UNCHANGED <<keyFile, used, kills>>

Generate(p) ==
  /\ Stands(p, "generate")
  /\ \E k \in Keys \ used :
       used' = used \cup {k} /\ proc' = [proc EXCEPT ![p] = [step |-> "create", key |-> k]]
  /\ UNCHANGED <<keyFile, kills>>

\* Slip: without O_EXCL, whoever comes second begins the file again.
CreateAgain(p) ==
  /\ Stands(p, "create") /\ keyFile' = Part /\ Goes(p, "write") /\ UNCHANGED <<used, kills>>

\* Slip: who comes second tries once more.
CreateUntilMine(p) ==
  /\ Stands(p, "create") /\ keyFile = NoKey /\ keyFile' = Part /\ Goes(p, "write")
  /\ UNCHANGED <<used, kills>>

\* OpenFile with O_CREATE and O_EXCL: who comes second reads the file.
CreateFile(p) ==
  /\ Stands(p, "create")
  /\ IF keyFile = NoKey THEN keyFile' = Part /\ Goes(p, "write")
     ELSE proc' = [proc EXCEPT ![p] = [step |-> "read", key |-> NoKey]] /\ UNCHANGED keyFile
  /\ UNCHANGED <<used, kills>>

WriteFile(p) ==
  /\ Stands(p, "write") /\ keyFile' = proc[p].key /\ Goes(p, "close") /\ UNCHANGED <<used, kills>>

Close(p) == Stands(p, "close") /\ Goes(p, "up") /\ UNCHANGED <<keyFile, used, kills>>

\* Slip: the process goes on with a key that is not in the file.
WriteFailsUnseen(p) ==
  /\ Stands(p, "write") /\ Harm /\ Goes(p, "close") /\ UNCHANGED <<keyFile, used>>

\* The write fails, the disk is full: the start fails, what is there stays.
WriteFails(p) ==
  /\ Stands(p, "write") /\ Harm /\ Goes(p, "failed") /\ UNCHANGED <<keyFile, used>>

\* External: a process ends, at any point.
Kill(p) ==
  /\ proc[p].step \notin {"down", "failed"} /\ Harm
  /\ proc' = [proc EXCEPT ![p] = [step |-> "down", key |-> NoKey]]
  /\ UNCHANGED <<keyFile, used>>

\* External: a start that failed is tried again.
Again(p) ==
  /\ Stands(p, "failed") /\ proc' = [proc EXCEPT ![p] = [step |-> "down", key |-> NoKey]]
  /\ UNCHANGED <<keyFile, used, kills>>

Run(p) == Start(p) \/ Again(p) \/ Read(p) \/ Generate(p) \/ CreateFile(p) \/ WriteFile(p) \/ Close(p)

KeyNext == \E p \in Procs : Run(p) \/ WriteFails(p) \/ Kill(p)

KeySpec == KeyInit /\ [][KeyNext]_keyVars

\* A supervisor starts the processes again, and they run.
KeyFairSpec == KeySpec /\ \A p \in Procs : WF_keyVars(Run(p))
-----------------------------------------------------------------------------
\* The variables have their types.
KeyTypeOK ==
  /\ keyFile \in Keys \cup {NoKey, Part} /\ used \subseteq Keys /\ kills \in 0..MaxKills
  /\ proc \in [Procs -> [step : Steps, key : Keys \cup {NoKey}]]

\* Processes that run have the key of the file, so all have the same
\* (LoadOrCreateIdentity, LoadOrCreateKey).
UpHasFile == \A p \in Procs : Stands(p, "up") => proc[p].key = keyFile /\ keyFile \in Keys

\* The identity stays: a file with a key is never changed.
KeyStays == [][(keyFile \in Keys) => keyFile' = keyFile]_keyVars

\* At most one process writes, and only into a file that nobody has read.
OneWriter ==
  \A p \in Procs : Stands(p, "write") => keyFile = Part /\ \A q \in Procs \ {p} : ~Stands(q, "write")

\* One file, one writer, one key.
KeySound == KeyTypeOK /\ UpHasFile /\ OneWriter

\* All processes are up in the end, unless one was killed or failed between
\* creating the file and writing it: then none ever starts again.
ComesUp == <>[](\A p \in Procs : Stands(p, "up")) \/ []<>(keyFile = Part)
=============================================================================
