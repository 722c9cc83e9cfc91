------------------------------ MODULE Downloads ------------------------------
(***************************************************************************)
(* Model files (llama-engine.service.ts, ensureModel; download.util.ts):    *)
(* every setup fetches the parts of a model that are missing, from a peer   *)
(* that may send anything, then from the publisher, into `<file>.part`,     *)
(* which is renamed when it is complete and its hash is right.  The hash is  *)
(* of the bytes received, the rename of whatever the path names by then, and *)
(* nothing keeps two setups of one model apart.                             *)
(***************************************************************************)
EXTENDS Integers, FiniteSets

CONSTANTS
  Setups,   \* requests that install the model
  Parts,    \* number of files of the model
  Chunks,   \* length of a file, in writes (bound)
  Crashes   \* BOOLEAN: the process may stop

ASSUME DownloadsAssumption ==
  IsFiniteSet(Setups) /\ Parts \in Nat \ {0} /\ Chunks \in Nat \ {0} /\ Crashes \in BOOLEAN

Files == 1 .. Parts
\* A setup writes to at most one file, and each path names at most one.
Inodes == 1 .. Cardinality(Setups) + 2 * Parts
NoFile == 0

VARIABLES
  bytes,    \* bytes[i][c]: what chunk c of a file holds: "hole", "good" or "bad"
  length,   \* length[i]: the size of a file
  partial,  \* partial[f]: the file that `<f>.part` names
  final,    \* final[f]: the file that `<f>` names
  fetch,    \* fetch[s]: how far a setup is: the part, the source, the open file, what came
  shared    \* parts that two setups fetched at the same time

downloadVars == <<bytes, length, partial, final, fetch, shared>>

Fetching(s) == fetch[s].pc \in {"stream", "finish"}
Others(s, f) == {o \in Setups \ {s} : Fetching(o) /\ fetch[o].part = f}
Named(i) == \/ \E f \in Files : i \in {partial[f], final[f]}
            \/ \E s \in Setups : Fetching(s) /\ fetch[s].file = i
Spare == CHOOSE i \in Inodes : ~Named(i)
Empty == [c \in 1 .. Chunks |-> "hole"]

\* fileReady: the size is about right.
Ready(f) == final[f] # NoFile /\ length[final[f]] = Chunks

DownloadsInit ==
  /\ bytes = [i \in Inodes |-> Empty] /\ length = [i \in Inodes |-> 0]
  /\ partial = [f \in Files |-> NoFile] /\ final = [f \in Files |-> NoFile]
  /\ fetch = [s \in Setups |-> [pc |-> "new", part |-> 1, from |-> "peer", file |-> NoFile,
                                sent |-> 0, intact |-> TRUE]]
  /\ shared = {}

FetchTo(s, r) == fetch' = [fetch EXCEPT ![s] = r]

\* The next part, if it is there already; the setup is done after the last one.
PartReady(s) ==
  /\ fetch[s].pc \in {"new", "next"} /\ fetch[s].part <= Parts /\ fetch[s].from = "peer"
  /\ Ready(fetch[s].part)
  /\ FetchTo(s, [fetch[s] EXCEPT !.pc = "next", !.part = @ + 1, !.from = "peer"])
  /\ UNCHANGED <<bytes, length, partial, final, shared>>
SetupDone(s) ==
  /\ fetch[s].pc = "next" /\ fetch[s].part > Parts
  /\ FetchTo(s, [fetch[s] EXCEPT !.pc = "installed"])
  /\ UNCHANGED <<bytes, length, partial, final, shared>>

\* No peer has it, or the peer does not answer.
NoPeer(s) ==
  /\ fetch[s].pc \in {"new", "next"} /\ fetch[s].part <= Parts /\ fetch[s].from = "peer"
  /\ ~Ready(fetch[s].part)
  /\ FetchTo(s, [fetch[s] EXCEPT !.pc = "next", !.from = "publisher"])
  /\ UNCHANGED <<bytes, length, partial, final, shared>>

\* createWriteStream empties the file that the path names, or makes one.
OpenPart(s) ==
  LET f == fetch[s].part
      i == IF partial[f] # NoFile THEN partial[f] ELSE Spare IN
  /\ fetch[s].pc \in {"new", "next"} /\ f <= Parts /\ (fetch[s].from = "peer" => ~Ready(f))
  /\ bytes' = [bytes EXCEPT ![i] = Empty] /\ length' = [length EXCEPT ![i] = 0]
  /\ partial' = [partial EXCEPT ![f] = i]
  /\ FetchTo(s, [fetch[s] EXCEPT !.pc = "stream", !.file = i, !.sent = 0, !.intact = TRUE])
  /\ shared' = IF Others(s, f) # {} THEN shared \cup {f} ELSE shared
  /\ UNCHANGED final

\* A chunk is hashed and written at its place; a peer may send anything.
Receive(s) ==
  LET r == fetch[s] IN
  /\ r.pc = "stream" /\ r.sent < Chunks
  /\ \E b \in IF r.from = "peer" THEN {"good", "bad"} ELSE {"good"} :
       /\ bytes' = [bytes EXCEPT ![r.file][r.sent + 1] = b]
       /\ FetchTo(s, [r EXCEPT !.sent = @ + 1, !.intact = @ /\ b = "good"])
  /\ length' = [length EXCEPT ![r.file] = IF @ > r.sent + 1 THEN @ ELSE r.sent + 1]
  /\ UNCHANGED <<partial, final, shared>>
\* The stream ends, at its end or before.
StreamEnds(s) ==
  /\ fetch[s].pc = "stream"
  /\ FetchTo(s, [fetch[s] EXCEPT !.pc = "finish"])
  /\ UNCHANGED <<bytes, length, partial, final, shared>>

\* A failed part is fetched from the publisher; a failure there ends the setup.
Failed(s) == IF fetch[s].from = "peer"
             THEN [fetch[s] EXCEPT !.pc = "next", !.from = "publisher", !.file = NoFile]
             ELSE [fetch[s] EXCEPT !.pc = "failed", !.file = NoFile]
Complete(s) == fetch[s].sent = Chunks
Verified(s) == Complete(s) /\ fetch[s].intact

\* Too short, or the wrong hash: the partial file is removed.
Discard(s) ==
  /\ fetch[s].pc = "finish" /\ ~Verified(s)
  /\ partial' = [partial EXCEPT ![fetch[s].part] = NoFile]
  /\ FetchTo(s, Failed(s))
  /\ UNCHANGED <<bytes, length, final, shared>>

Rename(s, ok) ==
  LET f == fetch[s].part IN
  /\ fetch[s].pc = "finish" /\ ok
  /\ partial' = [partial EXCEPT ![f] = NoFile]
  /\ final' = [final EXCEPT ![f] = partial[f]]
  /\ FetchTo(s, IF partial[f] # NoFile
                THEN [fetch[s] EXCEPT !.pc = "next", !.part = @ + 1, !.from = "peer", !.file = NoFile]
                ELSE Failed(s))
  /\ UNCHANGED <<bytes, length, shared>>
\* Broken variant (mutation check): the size alone decides.
InstallBySize(s) == Rename(s, Complete(s))
\* What stands at the final path is removed, then `.part` is renamed; when another setup renamed
\* it already that throws, and nothing stands there any more.
Install(s) == Rename(s, Verified(s))

\* Only the partial files survive the process; the ones of a day before are cleaned at a start.
DownloadsCrash ==
  /\ Crashes /\ \E s \in Setups : Fetching(s)
  /\ fetch' = [s \in Setups |-> IF Fetching(s) \/ fetch[s].pc = "next"
                                THEN [fetch[s] EXCEPT !.pc = "failed", !.file = NoFile]
                                ELSE fetch[s]]
  /\ \E old \in SUBSET Files :
       partial' = [f \in Files |-> IF f \in old THEN NoFile ELSE partial[f]]
  /\ UNCHANGED <<bytes, length, final, shared>>

DownloadsNext ==
  \/ \E s \in Setups : \/ PartReady(s) \/ SetupDone(s) \/ NoPeer(s) \/ OpenPart(s) \/ Receive(s)
                       \/ StreamEnds(s) \/ Discard(s) \/ Install(s)
  \/ DownloadsCrash

DownloadsSpec == DownloadsInit /\ [][DownloadsNext]_downloadVars

-----------------------------------------------------------------------------
(* Properties *)

DownloadsTypeOK ==
  /\ bytes \in [Inodes -> [1 .. Chunks -> {"hole", "good", "bad"}]]
  /\ length \in [Inodes -> 0 .. Chunks]
  /\ partial \in [Files -> Inodes \cup {NoFile}] /\ final \in [Files -> Inodes \cup {NoFile}]
  /\ \A s \in Setups : /\ fetch[s].pc \in {"new", "next", "stream", "finish", "installed", "failed"}
                       /\ fetch[s].part \in 1 .. Parts + 1 /\ fetch[s].sent \in 0 .. Chunks
  /\ shared \subseteq Files

Whole(f) == Ready(f) => \A c \in 1 .. Chunks : bytes[final[f]][c] = "good"

\* "An interrupted download never leaves a truncated file that looks installed", "the file either
\* hashes to the model you asked for, or it is thrown away": what looks installed is the model,
\* whatever peers sent and wherever the process stopped, and a setup that succeeded leaves every
\* part in place, as long as no two setups fetch a part at the same time.
InstalledIsVerified ==
  \A f \in Files \ shared :
    /\ Whole(f)
    /\ (\E s \in Setups : fetch[s].pc = "installed") => Ready(f)

\* The same without the excuse.
LooksInstalledIsWhole == \A f \in Files : Whole(f)
=============================================================================
