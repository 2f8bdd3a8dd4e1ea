------------------------------- MODULE Driver -------------------------------
(***************************************************************************)
(* The directory driver of src/tools/card_extractor.py: the -d loop of     *)
(* run, processFile, the KNF writer's file life cycle, the TupleCache      *)
(* consulted by ReducedCnf, and the class-level encodedVarIDs list that    *)
(* validateConstraint extends.  One process invocation is a run; several   *)
(* runs over the same directory model a rerun after a crash.               *)
(*                                                                         *)
(* A cluster is abstracted to its fingerprint (the tuple ReducedCnf builds)*)
(* and the encoding variables it would eliminate.  The cluster search      *)
(* itself is modelled in EncodedAmo.                                       *)
(***************************************************************************)
EXTENDS Integers, Sequences, FiniteSets

CONSTANTS
    FileSeq,      \* sorted(glob(path + "/*.cnf")), as basenames
    Clusters,     \* Clusters[f]: the clusters validateConstraint sees in f, in order
    Keys,         \* fingerprints of reduced clusters
    Hash,         \* hash(), from Keys to buckets
    Extractable,  \* fingerprints whose clauses encode a cardinality constraint
    Unreadable,   \* files CnfReader cannot open (-d passes only the basename)
    Raising,      \* files on which ConstraintFinder.generate raises
    MaxRuns       \* invocations of the program over the directory

Files == {FileSeq[i] : i \in DOMAIN FileSeq}
Buckets == {Hash[k] : k \in Keys}
NoKey == "none"
AllEvars == UNION {UNION {Clusters[f][i].evars : i \in DOMAIN Clusters[f]} : f \in Files}

VARIABLES
    knf,           \* knf[f]: "absent", "empty" (opened by KnfWriter) or "complete"
    header,        \* header[f]: the "Eliminated variables IDs" written for f
    runs,          \* invocations started
    pc,            \* "idle", "loop", "file", "done" or "aborted"
    queue,         \* pnames not yet handled by the loop
    cur,           \* file processFile is working on
    pos,           \* index of the next cluster of cur
    tmap,          \* TupleCache.tmap (a class attribute): bucket -> stored key
    hits, misses,  \* TupleCache counters of the current ConstraintFinder
    lookups,       \* calls of TupleCache.get on the current cache object
    encodedVarIDs, \* ConstraintFinder.encodedVarIDs (a class attribute)
    eliminated,    \* encoding variables eliminated in the current file
    accepted,      \* <<f, i>>: cluster i of f was accepted
    scount, fcount, ecount

vars == <<knf, header, runs, pc, queue, cur, pos, tmap, hits, misses, lookups,
          encodedVarIDs, eliminated, accepted, scount, fcount, ecount>>

\* Encoding variables of the clusters of f accepted so far.
AcceptedVars(f) ==
    UNION {Clusters[f][p[2]].evars : p \in {q \in accepted : q[1] = f}}

Init ==
    /\ knf = [f \in Files |-> "absent"]
    /\ header = [f \in Files |-> {}]
    /\ runs = 0
    /\ pc = "idle"
    /\ queue = <<>>
    /\ cur = FileSeq[1]
    /\ pos = 1
    /\ tmap = [b \in Buckets |-> NoKey]
    /\ hits = 0 /\ misses = 0 /\ lookups = 0
    /\ encodedVarIDs = {}
    /\ eliminated = {}
    /\ accepted = {}
    /\ scount = 0 /\ fcount = 0 /\ ecount = 0

\* A new invocation with -d: the class attributes start afresh.
StartRun ==
    /\ pc \in {"idle", "done", "aborted"}
    /\ runs < MaxRuns
    /\ runs' = runs + 1
    /\ pc' = "loop"
    /\ queue' = FileSeq
    /\ tmap' = [b \in Buckets |-> NoKey]
    /\ encodedVarIDs' = {}
    /\ scount' = 0 /\ fcount' = 0 /\ ecount' = 0
    /\ UNCHANGED <<knf, header, cur, pos, hits, misses, lookups, eliminated, accepted>>

\* The loop skips a file whose .knf already exists.
SkipExisting ==
    /\ pc = "loop" /\ queue # <<>>
    /\ knf[Head(queue)] # "absent"
    /\ ecount' = ecount + 1
    /\ queue' = Tail(queue)
    /\ UNCHANGED <<knf, header, runs, pc, cur, pos, tmap, hits, misses, lookups,
                   encodedVarIDs, eliminated, accepted, scount, fcount>>

\* processFile: CnfReader raises, nothing is written, the file counts as failed.
ReadFails ==
    /\ pc = "loop" /\ queue # <<>>
    /\ knf[Head(queue)] = "absent"
    /\ Head(queue) \in Unreadable
    /\ fcount' = fcount + 1
    /\ queue' = Tail(queue)
    /\ UNCHANGED <<knf, header, runs, pc, cur, pos, tmap, hits, misses, lookups,
                   encodedVarIDs, eliminated, accepted, scount, ecount>>

OpenFileKeepHits ==
    /\ pc = "loop" /\ queue # <<>>
    /\ knf[Head(queue)] = "absent"
    /\ Head(queue) \notin Unreadable
    /\ knf' = [knf EXCEPT ![Head(queue)] = "empty"]
    /\ cur' = Head(queue)
    /\ queue' = Tail(queue)
    /\ pc' = "file"
    /\ pos' = 1
    /\ misses' = 0 /\ lookups' = 0
    /\ eliminated' = {}
    /\ accepted' = {q \in accepted : q[1] # Head(queue)}
    /\ UNCHANGED <<header, runs, tmap, hits, encodedVarIDs, scount, fcount, ecount>>

\* processFile: KnfWriter opens (and truncates) the output, then a new
\* ConstraintFinder makes a new TupleCache, whose __init__ resets only the
\* counters (its "tmap = {}" binds a local name).
OpenFile ==
    /\ pc = "loop" /\ queue # <<>>
    /\ knf[Head(queue)] = "absent"
    /\ Head(queue) \notin Unreadable
    /\ knf' = [knf EXCEPT ![Head(queue)] = "empty"]
    /\ cur' = Head(queue)
    /\ queue' = Tail(queue)
    /\ pc' = "file"
    /\ pos' = 1
    /\ hits' = 0 /\ misses' = 0 /\ lookups' = 0
    /\ eliminated' = {}
    /\ accepted' = {q \in accepted : q[1] # Head(queue)}
    /\ UNCHANGED <<header, runs, tmap, encodedVarIDs, scount, fcount, ecount>>

CacheHitAnyKey ==
    /\ pc = "file" /\ pos <= Len(Clusters[cur])
    /\ LET c == Clusters[cur][pos] IN
         /\ tmap[Hash[c.key]] # NoKey
         /\ hits' = hits + 1
         /\ encodedVarIDs' = encodedVarIDs \cup c.evars
         /\ eliminated' = eliminated \cup c.evars
         /\ accepted' = accepted \cup {<<cur, pos>>}
    /\ lookups' = lookups + 1
    /\ pos' = pos + 1
    /\ UNCHANGED <<knf, header, runs, pc, queue, cur, tmap, misses, scount, fcount, ecount>>

\* validateConstraint on a cluster whose ReducedCnf finds the stored key
\* equal to its fingerprint: the cached success is reused.
CacheHit ==
    /\ pc = "file" /\ pos <= Len(Clusters[cur])
    /\ LET c == Clusters[cur][pos] IN
         /\ tmap[Hash[c.key]] = c.key
         /\ hits' = hits + 1
         /\ encodedVarIDs' = encodedVarIDs \cup c.evars
         /\ eliminated' = eliminated \cup c.evars
         /\ accepted' = accepted \cup {<<cur, pos>>}
    /\ lookups' = lookups + 1
    /\ pos' = pos + 1
    /\ UNCHANGED <<knf, header, runs, pc, queue, cur, tmap, misses, scount, fcount, ecount>>

\* validateConstraint on a cluster not in the cache, or whose bucket holds
\* another key: get counts a hit for the occupied bucket and a miss, the
\* Extractor runs (a resource failure depends on the random order), and a
\* success is stored, replacing whatever the bucket held.
CacheMiss ==
    /\ pc = "file" /\ pos <= Len(Clusters[cur])
    /\ LET c == Clusters[cur][pos]
           b == Hash[c.key] IN
         /\ tmap[b] # c.key
         /\ hits' = IF tmap[b] # NoKey THEN hits + 1 ELSE hits
         /\ misses' = misses + 1
         /\ \E ok \in IF c.key \in Extractable THEN BOOLEAN ELSE {FALSE} :
              IF ok
              THEN /\ tmap' = [tmap EXCEPT ![b] = c.key]
                   /\ encodedVarIDs' = encodedVarIDs \cup c.evars
                   /\ eliminated' = eliminated \cup c.evars
                   /\ accepted' = accepted \cup {<<cur, pos>>}
              ELSE UNCHANGED <<tmap, encodedVarIDs, eliminated, accepted>>
    /\ lookups' = lookups + 1
    /\ pos' = pos + 1
    /\ UNCHANGED <<knf, header, runs, pc, queue, cur, scount, fcount, ecount>>

\* An exception inside generate: processFile re-raises it and the process
\* ends, leaving the output file as KnfWriter opened it.
GenerateRaises ==
    /\ pc = "file"
    /\ cur \in Raising
    /\ pc' = "aborted"
    /\ UNCHANGED <<knf, header, runs, queue, cur, pos, tmap, hits, misses, lookups,
                   encodedVarIDs, eliminated, accepted, scount, fcount, ecount>>

\* generate writes the header (the sorted encodedVarIDs when this file
\* eliminated any variable) and kwriter.finish writes the file.
FinishFile ==
    /\ pc = "file" /\ pos > Len(Clusters[cur])
    /\ knf' = [knf EXCEPT ![cur] = "complete"]
    /\ header' = [header EXCEPT ![cur] = IF eliminated # {} THEN encodedVarIDs ELSE {}]
    /\ scount' = scount + 1
    /\ pc' = "loop"
    /\ UNCHANGED <<runs, queue, cur, pos, tmap, hits, misses, lookups,
                   encodedVarIDs, eliminated, accepted, fcount, ecount>>

\* The loop is over every pname.
EndRun ==
    /\ pc = "loop" /\ queue = <<>>
    /\ pc' = "done"
    /\ UNCHANGED <<knf, header, runs, queue, cur, pos, tmap, hits, misses, lookups,
                   encodedVarIDs, eliminated, accepted, scount, fcount, ecount>>

Next ==
    \/ StartRun \/ SkipExisting \/ ReadFails \/ OpenFile
    \/ CacheHit \/ CacheMiss \/ GenerateRaises \/ FinishFile \/ EndRun

Spec == Init /\ [][Next]_vars

-----------------------------------------------------------------------------
(***************************************************************************)
(* Properties.                                                             *)
(***************************************************************************)
TypeOK ==
    /\ knf \in [Files -> {"absent", "empty", "complete"}]
    /\ header \in [Files -> SUBSET AllEvars]
    /\ runs \in 0..MaxRuns
    /\ pc \in {"idle", "loop", "file", "done", "aborted"}
    /\ cur \in Files
    /\ tmap \in [Buckets -> Keys \cup {NoKey}]
    /\ \A b \in Buckets : tmap[b] \in Keys => Hash[tmap[b]] = b
    /\ lookups \in Nat /\ hits \in 0..lookups /\ misses \in 0..lookups
    /\ accepted \subseteq Files \X Nat

(***************************************************************************)
(* TupleCache.get compares the stored key with the fingerprint before it   *)
(* returns a value, so a hash collision never makes ReducedCnf accept a    *)
(* cluster: in every file, only clusters whose own clauses encode a        *)
(* cardinality constraint are accepted, even when the cache was filled by  *)
(* an earlier cluster or an earlier file with the same hash.               *)
(***************************************************************************)
NoFalseAcceptance ==
    \A q \in accepted : Clusters[q[1]][q[2]].key \in Extractable

(***************************************************************************)
(* The header of every written .knf lists, under "Eliminated variables     *)
(* IDs", exactly the encoding variables validateConstraint eliminated in   *)
(* that file.                                                              *)
(***************************************************************************)
HeaderListsOwnVars ==
    \A f \in Files : knf[f] = "complete" => header[f] = AcceptedVars(f)

(***************************************************************************)
(* The -d loop skips a file only when its .knf is a finished output, so    *)
(* rerunning the tool over a directory completes the files an earlier      *)
(* run left unfinished.                                                    *)
(***************************************************************************)
SkipOnlyComplete ==
    [][SkipExisting => knf[Head(queue)] = "complete"]_vars

====
