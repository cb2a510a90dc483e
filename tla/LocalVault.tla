----------------------------- MODULE LocalVault -----------------------------
(***************************************************************************)
(* The file-based vault of pkg/vault: every process that starts (the gateway *)
(* or one run of its `cli' mode) loads the encrypted file into memory, and   *)
(* SetSecret and DeleteSecret change the memory and write the whole of it    *)
(* back with os.WriteFile, which truncates the file first and then writes.   *)
(*                                                                         *)
(* A process's mutex is held from the change of the map to the end of the    *)
(* save, so a process has at most one save under way.  Nothing orders the    *)
(* saves of two processes.  last, torn, saved and overlapped are history.    *)
(***************************************************************************)
EXTENDS Naturals

CONSTANTS
    Procs,              \* processes that open the vault
    Keys,               \* secret names
    Vals,               \* secret values
    EncKeys,            \* encryption keys a process may be started with
    InitialFiles,       \* what may be on disk at first, a subset of File
    MaxOps,             \* bound: SetSecret and DeleteSecret calls
    None                \* no such secret

ASSUME VaultAssumption ==
    /\ MaxOps \in Nat /\ EncKeys # {}
    /\ None \notin Vals /\ None \notin Keys

Secrets == [Keys -> Vals \cup {None}]
Empty == [k \in Keys |-> None]

\* absent; empty (truncated, not written yet); plain (legacy JSON); sealed
\* (magic and ciphertext under encKey); garbage (any other bytes).
File == [kind : {"absent", "empty", "plain", "sealed", "garbage"},
         secrets : Secrets, encKey : EncKeys]

ASSUME FileAssumption ==
    /\ InitialFiles \subseteq [kind : {"absent", "plain", "sealed"},
                               secrets : Secrets, encKey : EncKeys]
    /\ \A f \in InitialFiles : f.kind = "absent" => f.secrets = Empty

VARIABLES
    file,
    proc,               \* per process: pc, its map, its key, what it is saving
    ops,                \* number of SetSecret and DeleteSecret calls
    last,               \* per key, the value of its last change, and whether the
                        \* call returned without error and no process has been
                        \* started over a truncated file since
    torn,               \* a save that had truncated the file did not complete,
                        \* and none has completed since
    saved,              \* the maps that were completely written, or there at first
    overlapped          \* a process was started while another one ran

vars == <<file, proc, ops, last, torn, saved, overlapped>>

\* pc: closed; open (lock free); truncate, write (in saveLocked).  key is the
\* secret being changed, None while NewLocalVault creates or migrates the file.
Local == [pc : {"closed", "open", "truncate", "write"}, mem : Secrets,
          encKey : EncKeys, key : Keys \cup {None}]

Closed == [pc |-> "closed", mem |-> Empty,
           encKey |-> CHOOSE k \in EncKeys : TRUE, key |-> None]

Init ==
    /\ file \in InitialFiles
    /\ proc = [p \in Procs |-> Closed]
    /\ ops = 0
    /\ last = [k \in Keys |-> [val |-> file.secrets[k], ok |-> TRUE]]
    /\ torn = FALSE
    /\ saved = {file.secrets}
    /\ overlapped = FALSE

\* Another process than p is running: the gateway and its own `cli vault-set' share a file.
Running(p) == \E q \in Procs \ {p} : proc[q].pc # "closed"

-----------------------------------------------------------------------------
(* NewLocalVault.                                                           *)

\* Mutation: a file that does not decrypt is opened as an empty vault.
OpenLenient(p, k) ==
    /\ proc[p].pc = "closed"
    /\ proc' = [proc EXCEPT ![p] =
            [pc |-> IF file.kind \in {"absent", "plain"} THEN "truncate" ELSE "open",
             mem |-> IF file.kind = "plain" \/ (file.kind = "sealed" /\ k = file.encKey)
                     THEN file.secrets ELSE Empty,
             encKey |-> k, key |-> None]]
    /\ overlapped' = (overlapped \/ Running(p))
    /\ UNCHANGED <<file, ops, last, torn, saved>>

\* load: a missing file is created, an empty one is an empty vault, a sealed
\* one needs its key, a legacy one is loaded and written back sealed.  Anything
\* else is an error and the process exits.
Open(p, k) ==
    /\ proc[p].pc = "closed"
    /\ file.kind # "garbage"
    /\ file.kind = "sealed" => k = file.encKey
    /\ proc' = [proc EXCEPT ![p] =
            [pc |-> IF file.kind \in {"absent", "plain"} THEN "truncate" ELSE "open",
             mem |-> IF file.kind \in {"plain", "sealed"} THEN file.secrets ELSE Empty,
             encKey |-> k, key |-> None]]
    /\ last' = IF file.kind = "empty"
               THEN [n \in Keys |-> [last[n] EXCEPT !.ok = FALSE]] ELSE last
    /\ overlapped' = (overlapped \/ Running(p))
    /\ UNCHANGED <<file, ops, torn, saved>>

-----------------------------------------------------------------------------
(* SetSecret (v a value) and DeleteSecret (v = None): the map first ...      *)
Change(p, k, v) ==
    /\ proc[p].pc = "open"
    /\ ops < MaxOps
    /\ ops' = ops + 1
    /\ proc' = [proc EXCEPT ![p].pc = "truncate", ![p].mem[k] = v, ![p].key = k]
    /\ last' = [last EXCEPT ![k] = [val |-> v, ok |-> FALSE]]
    /\ UNCHANGED <<file, torn, saved, overlapped>>

\* ... then saveLocked: open with O_TRUNC ...
Truncate(p) ==
    /\ proc[p].pc = "truncate"
    /\ file' = [file EXCEPT !.kind = "empty", !.secrets = Empty]
    /\ proc' = [proc EXCEPT ![p].pc = "write"]
    /\ torn' = TRUE
    /\ UNCHANGED <<ops, last, saved, overlapped>>

\* The save has returned, ok if without an error; else NewLocalVault fails with
\* it, while SetSecret leaves the process running with the changed map.
Returned(p, ok) ==
    /\ proc' = [proc EXCEPT
            ![p] = IF ~ ok /\ proc[p].key = None THEN Closed
                   ELSE [proc[p] EXCEPT !.pc = "open", !.key = None]]
    /\ last' = IF ok /\ proc[p].key # None
               THEN [last EXCEPT ![proc[p].key].ok = TRUE]
               ELSE last

\* Mutation: the save writes the map without the secret that changed.
WriteWithoutChange(p) ==
    /\ proc[p].pc = "write"
    /\ file' = [kind |-> "sealed", encKey |-> proc[p].encKey,
                secrets |-> [k \in Keys |-> IF k = proc[p].key THEN None ELSE proc[p].mem[k]]]
    /\ torn' = FALSE
    /\ saved' = saved \cup {proc[p].mem}
    /\ Returned(p, TRUE)
    /\ UNCHANGED <<ops, overlapped>>

\* ... and one write.  If another process has written since the truncation,
\* its longer bytes may stick out behind these.
Write(p) ==
    /\ proc[p].pc = "write"
    /\ \/ /\ file' = [kind |-> "sealed", secrets |-> proc[p].mem, encKey |-> proc[p].encKey]
          /\ torn' = FALSE
          /\ saved' = saved \cup {proc[p].mem}
       \/ /\ file.kind # "empty"
          /\ file' = [file EXCEPT !.kind = "garbage", !.secrets = Empty]
          /\ torn' = TRUE
          /\ UNCHANGED saved
    /\ Returned(p, TRUE)
    /\ UNCHANGED <<ops, overlapped>>

\* The file cannot be opened for writing: it is left as it was.
TruncateFails(p) ==
    /\ proc[p].pc = "truncate"
    /\ Returned(p, FALSE)
    /\ UNCHANGED <<file, ops, torn, saved, overlapped>>

\* The write fails (the disk is full): nothing or a part was written.
WriteFails(p) ==
    /\ proc[p].pc = "write"
    /\ file' \in {file, [file EXCEPT !.kind = "garbage", !.secrets = Empty]}
    /\ Returned(p, FALSE)
    /\ torn' = TRUE
    /\ UNCHANGED <<ops, saved, overlapped>>

\* The process ends; in the middle of a write all of it, a part or nothing has
\* reached the file.
Crash(p) ==
    /\ proc[p].pc # "closed"
    /\ proc' = [proc EXCEPT ![p] = Closed]
    /\ \/ UNCHANGED <<file, torn, saved>>
       \/ /\ proc[p].pc = "write"
          /\ file' = [file EXCEPT !.kind = "garbage", !.secrets = Empty]
          /\ torn' = TRUE
          /\ UNCHANGED saved
       \/ /\ proc[p].pc = "write"
          /\ file.kind = "empty"
          /\ file' = [kind |-> "sealed", secrets |-> proc[p].mem, encKey |-> proc[p].encKey]
          /\ torn' = FALSE
          /\ saved' = saved \cup {proc[p].mem}
    /\ UNCHANGED <<ops, last, overlapped>>

Next ==
    \/ \E p \in Procs, k \in EncKeys : Open(p, k)
    \/ \E p \in Procs, k \in Keys, v \in Vals \cup {None} : Change(p, k, v)
    \/ \E p \in Procs : Truncate(p)
    \/ \E p \in Procs : Write(p)
    \/ \E p \in Procs : TruncateFails(p)
    \/ \E p \in Procs : WriteFails(p)
    \/ \E p \in Procs : Crash(p)

Spec == Init /\ [][Next]_vars

-----------------------------------------------------------------------------
\* The file, the processes and the history have their types (LocalVault).
TypeOK ==
    /\ file \in File
    /\ proc \in [Procs -> Local]
    /\ ops \in Nat
    /\ last \in [Keys -> [val : Vals \cup {None}, ok : BOOLEAN]]
    /\ torn \in BOOLEAN
    /\ saved \subseteq Secrets
    /\ overlapped \in BOOLEAN

\* While processes use the file one after the other: a change that SetSecret or
\* DeleteSecret acknowledged is in the file, whatever failed before or after it,
\* and is back there after the next complete save if a save was cut short after
\* its truncation, unless a process was started over that truncated file.
AckedIsDurable ==
    ~ torn /\ ~ overlapped => \A k \in Keys : last[k].ok => file.secrets[k] = last[k].val

\* A process never comes up with a part of a vault, however many processes save
\* at once: its map is one that was completely saved, plus its own changes.
\* Only an empty or a missing file is an empty vault (load).
LoadsWholeVault ==
    [][\A p \in Procs :
          proc[p].pc = "closed" /\ proc'[p].pc # "closed" =>
              \/ proc'[p].mem \in saved
              \/ proc'[p].mem = Empty /\ file.kind \in {"absent", "empty"}]_vars

\* "a one-time, transparent migration that never loses secrets" (NewLocalVault):
\* before any change, a process that runs holds the secrets that were there.
MigrationKeepsSecrets ==
    ops = 0 => \A p \in Procs : proc[p].pc = "open" => proc[p].mem \in saved
=============================================================================
