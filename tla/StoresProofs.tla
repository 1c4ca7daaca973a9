---------------------------- MODULE StoresProofs -----------------------------
(***************************************************************************)
(* Proofs about the two stores that are written next to the graph, the     *)
(* semantic index and the lexical one, for any values of the constants:    *)
(* each by itself, then the whole of MCServices.                           *)
(***************************************************************************)
EXTENDS MCServices, Integers, Sequences, FiniteSetTheorems, TLAPS
-----------------------------------------------------------------------------
(***************************************************************************)
(* The semantic index of SemanticIndex.                                    *)
(*                                                                         *)
(* A run replaces the whole file by what it has read of it, updated.  That *)
(* loses nothing because what a writer has read is still what is there     *)
(* (BaseIsCurrent), and that holds because of the lock: whoever waits or   *)
(* writes is queued for it (Queued), and a writer is at its head           *)
(* (OneWriter).  That an embedding fits its text has to be known of every  *)
(* copy of a record, those of the runs included (TextsMatch).              *)
(***************************************************************************)

\* A record of a node: the hash of its text, and the embedding of that text or none.
Sound(store) ==
    \A k \in DOMAIN store :
        /\ store[k] = [hash |-> store[k].hash, embedding |-> store[k].embedding]
        /\ store[k].embedding \in {Embeddings!NoEmbedding, store[k].hash}

Run(r) == semantic.run[r]
Stages == {"idle", "embedding", "embedded", "waiting", "writing"}

\* Hashes and embeddings are of no particular set, so the shape of the state
\* is stated as an equation.
TypeOK ==
    /\ semantic =
         [provider |-> semantic.provider, json |-> semantic.json, chroma |-> semantic.chroma,
          up |-> semantic.up, damaged |-> semantic.damaged, lock |-> semantic.lock,
          run |-> semantic.run, promised |-> semantic.promised, started |-> semantic.started]
    /\ semantic.up \in BOOLEAN /\ semantic.damaged \in BOOLEAN
    /\ semantic.lock \in Seq(Runs)
    /\ semantic.run = [r \in Runs |-> [at |-> Run(r).at, records |-> Run(r).records, base |-> Run(r).base]]
    /\ \A r \in Runs : Run(r).at \in Stages

\* In every store and in every run, an embedding is of the text it is kept for.
TextsMatch ==
    /\ Sound(semantic.json) /\ Sound(semantic.chroma)
    /\ \A r \in Runs : Sound(Run(r).records) /\ Sound(Run(r).base)

\* Who waits or writes is in the queue of the lock, and who writes is its head.
Queued ==
    \A r \in Runs : Run(r).at \in {"waiting", "writing"} =>
        \E i \in 1..Len(semantic.lock) : semantic.lock[i] = r
OneWriter == \A r \in Runs : Run(r).at = "writing" => Head(semantic.lock) = r

\* The file is what its writer has read of it.
BaseIsCurrent ==
    ~semantic.damaged => \A r \in Runs : Run(r).at = "writing" => Run(r).base = semantic.json

\* The last record of a node that an upsert has stored is still stored.
PromisesKept ==
    ~semantic.damaged =>
        \A k \in DOMAIN semantic.promised :
            \/ k \in DOMAIN semantic.json /\ semantic.json[k] = semantic.promised[k]
            \/ k \in DOMAIN semantic.chroma /\ semantic.chroma[k] = semantic.promised[k]

ChromaIfConfigured == semantic.provider = "json" => semantic.chroma = Embeddings!Nothing

SemanticInv ==
    /\ TypeOK /\ TextsMatch /\ Queued /\ OneWriter /\ BaseIsCurrent
    /\ PromisesKept /\ ChromaIfConfigured
-----------------------------------------------------------------------------
(* What the operators on records keep. *)

LEMMA NothingIsSound == Sound(Embeddings!Nothing) /\ DOMAIN Embeddings!Nothing = {}
  BY DEF Sound, Embeddings!Nothing

LEMMA UpdatedIsSound ==
    ASSUME NEW store, NEW records, Sound(store), Sound(records)
    PROVE  Sound(Embeddings!Updated(store, records))
  BY DEF Sound, Embeddings!Updated

LEMMA StoredIsSound ==
    ASSUME NEW records, Sound(records) PROVE Sound(Embeddings!Stored(records))
  BY DEF Sound, Embeddings!Stored

LEMMA ReusedIsSound ==
    ASSUME NEW texts, NEW existing, Sound(existing)
    PROVE  Sound(Embeddings!Reused(texts, existing))
  BY DEF Sound, Embeddings!Reused, Embeddings!canReuseEmbedding

LEMMA EmbeddedIsSound ==
    ASSUME NEW records, Sound(records), NEW changed
    PROVE  Sound([k \in DOMAIN records |->
                    IF k \in changed THEN [records[k] EXCEPT !.embedding = records[k].hash]
                    ELSE records[k]])
  <1> DEFINE embedded == [k \in DOMAIN records |->
                    IF k \in changed THEN [records[k] EXCEPT !.embedding = records[k].hash]
                    ELSE records[k]]
  <1>1. ASSUME NEW k \in DOMAIN embedded
        PROVE  /\ embedded[k] = [hash |-> embedded[k].hash, embedding |-> embedded[k].embedding]
               /\ embedded[k].embedding \in {Embeddings!NoEmbedding, embedded[k].hash}
    <2>1. records[k] = [hash |-> records[k].hash, embedding |-> records[k].embedding]
          /\ records[k].embedding \in {Embeddings!NoEmbedding, records[k].hash}
      BY DEF Sound
    <2>2. CASE k \in changed
      <3>1. embedded[k] = [hash |-> records[k].hash, embedding |-> records[k].hash]
        BY <2>1, <2>2
      <3> QED
        BY <3>1
    <2>3. CASE k \notin changed
      <3>1. embedded[k] = records[k]
        BY <2>3
      <3> QED
        BY <3>1, <2>1
    <2> QED
      BY <2>2, <2>3
  <1> QED
    BY <1>1 DEF Sound
-----------------------------------------------------------------------------
(* Runs that go on: two fields of a run change. *)

LEMMA RunEmbedded ==
    ASSUME NEW run, run = [at |-> run.at, records |-> run.records, base |-> run.base],
           NEW at, NEW records
    PROVE  [run EXCEPT !.at = at, !.records = records]
              = [at |-> at, records |-> records, base |-> run.base]
  <1> DEFINE went == [run EXCEPT !.at = at]
  <1>1. went = [at |-> at, records |-> run.records, base |-> run.base]
    OBVIOUS
  <1>2. [run EXCEPT !.at = at, !.records = records] = [went EXCEPT !.records = records]
    OBVIOUS
  <1> HIDE DEF went
  <1>3. [went EXCEPT !.records = records] = [at |-> at, records |-> records, base |-> run.base]
    BY <1>1
  <1> QED
    BY <1>2, <1>3

LEMMA RunHasRead ==
    ASSUME NEW run, run = [at |-> run.at, records |-> run.records, base |-> run.base],
           NEW base
    PROVE  [run EXCEPT !.at = "writing", !.base = base]
              = [at |-> "writing", records |-> run.records, base |-> base]
  <1> DEFINE went == [run EXCEPT !.at = "writing"]
  <1>1. went = [at |-> "writing", records |-> run.records, base |-> run.base]
    OBVIOUS
  <1>2. [run EXCEPT !.at = "writing", !.base = base] = [went EXCEPT !.base = base]
    OBVIOUS
  <1> HIDE DEF went
  <1>3. [went EXCEPT !.base = base] = [at |-> "writing", records |-> run.records, base |-> base]
    BY <1>1
  <1> QED
    BY <1>2, <1>3
-----------------------------------------------------------------------------
(* What a step of a run changes of the state, field by field. *)

LEMMA RunSteps ==
    ASSUME TypeOK, NEW r \in Runs, NEW new, NEW json, NEW chroma, NEW damaged \in BOOLEAN,
           NEW lock \in Seq(Runs), NEW promised, NEW started,
           new = [at |-> new.at, records |-> new.records, base |-> new.base], new.at \in Stages,
           semantic' =
             [provider |-> semantic.provider, json |-> json, chroma |-> chroma, up |-> semantic.up,
              damaged |-> damaged, lock |-> lock, run |-> [semantic.run EXCEPT ![r] = new],
              promised |-> promised, started |-> started]
    PROVE  /\ TypeOK'
           /\ semantic'.provider = semantic.provider /\ semantic'.json = json
           /\ semantic'.chroma = chroma /\ semantic'.promised = promised
           /\ semantic'.damaged = damaged /\ semantic'.lock = lock
           /\ Run(r)' = new /\ \A s \in Runs \ {r} : Run(s)' = Run(s)
  <1>1. /\ semantic'.provider = semantic.provider /\ semantic'.json = json
        /\ semantic'.chroma = chroma /\ semantic'.promised = promised
        /\ semantic'.damaged = damaged /\ semantic'.lock = lock
        /\ semantic'.up = semantic.up /\ semantic'.started = started
        /\ semantic'.run = [semantic.run EXCEPT ![r] = new]
    OBVIOUS
  <1>2. semantic' =
         [provider |-> semantic'.provider, json |-> semantic'.json, chroma |-> semantic'.chroma,
          up |-> semantic'.up, damaged |-> semantic'.damaged, lock |-> semantic'.lock,
          run |-> semantic'.run, promised |-> semantic'.promised, started |-> semantic'.started]
    BY <1>1
  <1> QED
    BY <1>1, <1>2 DEF TypeOK, Run

\* A step that leaves the stores, the lock and the promises alone: run r goes on.
LEMMA GoesOn ==
    ASSUME SemanticInv, NEW r \in Runs, NEW new, NEW started,
           new = [at |-> new.at, records |-> new.records, base |-> new.base],
           new.at \in Stages \ {"writing"},
           new.at = "waiting" => Run(r).at = "waiting",
           Sound(new.records), Sound(new.base),
           semantic' =
             [provider |-> semantic.provider, json |-> semantic.json, chroma |-> semantic.chroma,
              up |-> semantic.up, damaged |-> semantic.damaged, lock |-> semantic.lock,
              run |-> [semantic.run EXCEPT ![r] = new],
              promised |-> semantic.promised, started |-> started]
    PROVE  SemanticInv'
  <1>1. TypeOK /\ semantic.damaged \in BOOLEAN /\ semantic.lock \in Seq(Runs) /\ new.at \in Stages
    BY DEF SemanticInv, TypeOK
  <1>2. /\ TypeOK'
        /\ semantic'.provider = semantic.provider /\ semantic'.json = semantic.json
        /\ semantic'.chroma = semantic.chroma /\ semantic'.promised = semantic.promised
        /\ semantic'.damaged = semantic.damaged /\ semantic'.lock = semantic.lock
        /\ Run(r)' = new /\ \A s \in Runs \ {r} : Run(s)' = Run(s)
    BY <1>1, RunSteps
  <1>3. TextsMatch'
    BY <1>2 DEF SemanticInv, TextsMatch
  <1>4. Queued'
    BY <1>2 DEF SemanticInv, Queued
  <1>5. OneWriter'
    BY <1>2 DEF SemanticInv, OneWriter
  <1>6. BaseIsCurrent'
    BY <1>2 DEF SemanticInv, BaseIsCurrent
  <1>7. PromisesKept' /\ ChromaIfConfigured'
    BY <1>2 DEF SemanticInv, PromisesKept, ChromaIfConfigured
  <1> QED
    BY <1>2, <1>3, <1>4, <1>5, <1>6, <1>7 DEF SemanticInv
-----------------------------------------------------------------------------
(* The steps. *)

LEMMA StartStep == ASSUME SemanticInv, NEW r \in Runs, Embeddings!Start(r) PROVE SemanticInv'
  <1>1. PICK input \in Inputs,
                existing \in IF Embeddings!Usable THEN {semantic.chroma} ELSE Embeddings!ReadOf(semantic.json) :
          semantic' = [semantic EXCEPT !.started = @ + 1, !.run[r] =
            [at |-> "embedding", base |-> Embeddings!Nothing,
             records |-> Embeddings!Reused(Embeddings!buildSemanticRecords(input, Level), existing)]]
    BY DEF Embeddings!Start
  <1> DEFINE texts == Embeddings!buildSemanticRecords(input, Level)
             new == [at |-> "embedding", base |-> Embeddings!Nothing, records |-> Embeddings!Reused(texts, existing)]
  <1>2. Sound(existing)
    BY NothingIsSound DEF SemanticInv, TextsMatch, Embeddings!ReadOf
  <1>3. Sound(new.records) /\ Sound(new.base)
    <2>1. Sound(Embeddings!Reused(texts, existing))
      BY <1>2, ReusedIsSound
    <2> QED
      BY <2>1, NothingIsSound
  <1>4. semantic' = [semantic EXCEPT !.started = @ + 1, !.run = [semantic.run EXCEPT ![r] = new]]
    BY <1>1
  <1>5. /\ new = [at |-> new.at, records |-> new.records, base |-> new.base]
        /\ new.at = "embedding"
    OBVIOUS
  <1> HIDE DEF texts, new
  <1>6. semantic' =
             [provider |-> semantic.provider, json |-> semantic.json, chroma |-> semantic.chroma,
              up |-> semantic.up, damaged |-> semantic.damaged, lock |-> semantic.lock,
              run |-> [semantic.run EXCEPT ![r] = new],
              promised |-> semantic.promised, started |-> semantic.started + 1]
    BY <1>4 DEF SemanticInv, TypeOK
  <1>7. new.at \in Stages \ {"writing"} /\ (new.at = "waiting" => Run(r).at = "waiting")
    BY <1>5 DEF Stages
  <1> QED
    BY <1>3, <1>5, <1>6, <1>7, GoesOn

LEMMA EmbedStep == ASSUME SemanticInv, NEW r \in Runs, Embeddings!Embed(r) PROVE SemanticInv'
  <1> DEFINE records == semantic.run[r].records
             changed == {k \in DOMAIN records : records[k].embedding = Embeddings!NoEmbedding}
  <1>1. PICK refused \in {{}} \union {{k} : k \in changed} :
          semantic' = [semantic EXCEPT
              !.run[r].at = "embedded",
              !.run[r].records = [k \in DOMAIN records |->
                 IF k \in changed \ refused THEN [records[k] EXCEPT !.embedding = records[k].hash] ELSE records[k]]]
    BY DEF Embeddings!Embed
  <1> DEFINE embedded == [k \in DOMAIN records |->
                 IF k \in changed \ refused THEN [records[k] EXCEPT !.embedding = records[k].hash] ELSE records[k]]
             new == [at |-> "embedded", records |-> embedded, base |-> Run(r).base]
  <1>2. Sound(records) /\ Sound(Run(r).base)
    BY DEF SemanticInv, TextsMatch, Run
  <1>3. Sound(embedded)
    BY <1>2, EmbeddedIsSound
  <1> HIDE DEF embedded
  <1>4. Run(r) = [at |-> Run(r).at, records |-> Run(r).records, base |-> Run(r).base]
        /\ semantic.run = [s \in Runs |-> semantic.run[s]]
    BY DEF SemanticInv, TypeOK, Run
  <1>5. semantic' = [semantic EXCEPT !.run = [semantic.run EXCEPT ![r] = new]]
    <2>1. semantic' = [semantic EXCEPT !.run =
             [semantic.run EXCEPT ![r] = [semantic.run[r] EXCEPT !.at = "embedded", !.records = embedded]]]
      BY <1>1, <1>4 DEF embedded
    <2>2. [semantic.run[r] EXCEPT !.at = "embedded", !.records = embedded] = new
      BY <1>4, RunEmbedded DEF Run
    <2> QED
      BY <2>1, <2>2
  <1>6. /\ new = [at |-> new.at, records |-> new.records, base |-> new.base]
        /\ new.at = "embedded" /\ Sound(new.records) /\ Sound(new.base)
    BY <1>2, <1>3
  <1> HIDE DEF new
  <1>7. semantic' =
             [provider |-> semantic.provider, json |-> semantic.json, chroma |-> semantic.chroma,
              up |-> semantic.up, damaged |-> semantic.damaged, lock |-> semantic.lock,
              run |-> [semantic.run EXCEPT ![r] = new],
              promised |-> semantic.promised, started |-> semantic.started]
    BY <1>5 DEF SemanticInv, TypeOK
  <1>8. new.at \in Stages \ {"writing"} /\ (new.at = "waiting" => Run(r).at = "waiting")
    BY <1>6 DEF Stages
  <1> QED
    BY <1>6, <1>7, <1>8, GoesOn

LEMMA EmbedFailsStep == ASSUME SemanticInv, NEW r \in Runs, Embeddings!EmbedFails(r) PROVE SemanticInv'
  <1>1. semantic' =
             [provider |-> semantic.provider, json |-> semantic.json, chroma |-> semantic.chroma,
              up |-> semantic.up, damaged |-> semantic.damaged, lock |-> semantic.lock,
              run |-> [semantic.run EXCEPT ![r] = Embeddings!NoRun],
              promised |-> semantic.promised, started |-> semantic.started]
    BY DEF Embeddings!EmbedFails, SemanticInv, TypeOK
  <1>2. /\ Embeddings!NoRun = [at |-> Embeddings!NoRun.at, records |-> Embeddings!NoRun.records,
             base |-> Embeddings!NoRun.base]
        /\ Embeddings!NoRun.at = "idle" /\ Sound(Embeddings!NoRun.records) /\ Sound(Embeddings!NoRun.base)
    BY NothingIsSound DEF Embeddings!NoRun
  <1>3. Embeddings!NoRun.at \in Stages \ {"writing"} /\ (Embeddings!NoRun.at = "waiting" => Run(r).at = "waiting")
    BY <1>2 DEF Stages
  <1> QED
    BY <1>1, <1>2, <1>3, GoesOn

\* Chroma has stored the records of the run.
LEMMA ChromaStep ==
    ASSUME SemanticInv, NEW r \in Runs, Embeddings!Usable, NEW records, Sound(records),
           semantic' =
             [provider |-> semantic.provider, json |-> semantic.json,
              chroma |-> Embeddings!Updated(semantic.chroma, records),
              up |-> semantic.up, damaged |-> semantic.damaged, lock |-> semantic.lock,
              run |-> [semantic.run EXCEPT ![r] = Embeddings!NoRun],
              promised |-> Embeddings!Updated(semantic.promised, records), started |-> semantic.started]
    PROVE  SemanticInv'
  <1>1. TypeOK /\ semantic.damaged \in BOOLEAN /\ semantic.lock \in Seq(Runs)
    BY DEF SemanticInv, TypeOK
  <1>2. /\ Embeddings!NoRun = [at |-> Embeddings!NoRun.at, records |-> Embeddings!NoRun.records,
             base |-> Embeddings!NoRun.base]
        /\ Embeddings!NoRun.at = "idle" /\ Embeddings!NoRun.at \in Stages /\ Sound(Embeddings!NoRun.records)
                  /\ Sound(Embeddings!NoRun.base)
    BY NothingIsSound DEF Embeddings!NoRun, Stages
  <1>3. /\ TypeOK'
        /\ semantic'.provider = semantic.provider /\ semantic'.json = semantic.json
        /\ semantic'.chroma = Embeddings!Updated(semantic.chroma, records)
        /\ semantic'.promised = Embeddings!Updated(semantic.promised, records)
        /\ semantic'.damaged = semantic.damaged /\ semantic'.lock = semantic.lock
        /\ Run(r)' = Embeddings!NoRun /\ \A s \in Runs \ {r} : Run(s)' = Run(s)
    BY <1>1, <1>2, RunSteps
  <1>4. TextsMatch'
    <2>1. Sound(Embeddings!Updated(semantic.chroma, records))
      BY UpdatedIsSound DEF SemanticInv, TextsMatch
    <2> QED
      BY <1>2, <1>3, <2>1 DEF SemanticInv, TextsMatch
  <1>5. Queued' /\ OneWriter'
    BY <1>2, <1>3 DEF SemanticInv, Queued, OneWriter
  <1>6. BaseIsCurrent'
    BY <1>2, <1>3 DEF SemanticInv, BaseIsCurrent
  <1>7. PromisesKept'
    <2>1. SUFFICES ASSUME ~semantic.damaged, NEW k \in DOMAIN Embeddings!Updated(semantic.promised, records)
                   PROVE  LET chroma == Embeddings!Updated(semantic.chroma, records)
                              promised == Embeddings!Updated(semantic.promised, records)
                          IN \/ k \in DOMAIN semantic.json /\ semantic.json[k] = promised[k]
                             \/ k \in DOMAIN chroma /\ chroma[k] = promised[k]
      BY <1>3 DEF PromisesKept
    <2>2. CASE k \in DOMAIN records
      BY <2>2 DEF Embeddings!Updated
    <2>3. CASE k \notin DOMAIN records
      BY <2>1, <2>3 DEF Embeddings!Updated, SemanticInv, PromisesKept
    <2> QED
      BY <2>2, <2>3
  <1>8. ChromaIfConfigured'
    BY <1>3 DEF ChromaIfConfigured, Embeddings!Usable
  <1> QED
    BY <1>3, <1>4, <1>5, <1>6, <1>7, <1>8 DEF SemanticInv

LEMMA UpsertStep == ASSUME SemanticInv, NEW r \in Runs, Embeddings!Upsert(r) PROVE SemanticInv'
  <1>1. CASE Embeddings!Usable
    <2>1. Sound(Embeddings!Stored(semantic.run[r].records))
      BY StoredIsSound DEF SemanticInv, TextsMatch, Run
    <2>2. semantic' =
             [provider |-> semantic.provider, json |-> semantic.json,
              chroma |-> Embeddings!Updated(semantic.chroma, Embeddings!Stored(semantic.run[r].records)),
              up |-> semantic.up, damaged |-> semantic.damaged, lock |-> semantic.lock,
              run |-> [semantic.run EXCEPT ![r] = Embeddings!NoRun],
              promised |-> Embeddings!Updated(semantic.promised, Embeddings!Stored(semantic.run[r].records)),
              started |-> semantic.started]
      BY <1>1 DEF Embeddings!Upsert, SemanticInv, TypeOK
    <2> QED
      BY <1>1, <2>1, <2>2, ChromaStep
  <1>2. CASE ~Embeddings!Usable
    <2> DEFINE lock == Append(semantic.lock, r)
               new == [at |-> "waiting", records |-> Run(r).records, base |-> Run(r).base]
    <2>1. Run(r) = [at |-> Run(r).at, records |-> Run(r).records, base |-> Run(r).base]
          /\ semantic.run = [s \in Runs |-> semantic.run[s]]
      BY DEF SemanticInv, TypeOK, Run
    <2>2. semantic' = [semantic EXCEPT !.lock = lock, !.run = [semantic.run EXCEPT ![r] = new]]
      <3>1. semantic' = [semantic EXCEPT !.lock = lock,
                           !.run = [semantic.run EXCEPT ![r] = [semantic.run[r] EXCEPT !.at = "waiting"]]]
        BY <1>2, <2>1 DEF Embeddings!Upsert
      <3>2. [semantic.run[r] EXCEPT !.at = "waiting"] = new
        <4>1. ASSUME NEW at, NEW records, NEW base
              PROVE  [[at |-> at, records |-> records, base |-> base] EXCEPT !.at = "waiting"]
                        = [at |-> "waiting", records |-> records, base |-> base]
          OBVIOUS
        <4> QED
          BY <2>1, <4>1 DEF Run
      <3> QED
        BY <3>1, <3>2
    <2>3. /\ new = [at |-> new.at, records |-> new.records, base |-> new.base]
          /\ new.at = "waiting" /\ new.at \in Stages
          /\ new.records = Run(r).records /\ new.base = Run(r).base
      BY DEF Stages
    <2>4. TypeOK /\ semantic.damaged \in BOOLEAN /\ semantic.lock \in Seq(Runs) /\ lock \in Seq(Runs)
      BY DEF SemanticInv, TypeOK
    <2>5. /\ Len(lock) = Len(semantic.lock) + 1 /\ Len(semantic.lock) \in Nat /\ lock[Len(lock)] = r
          /\ \A i \in 1..Len(semantic.lock) : lock[i] = semantic.lock[i]
          /\ Len(semantic.lock) > 0 => Head(lock) = Head(semantic.lock)
      BY <2>4
    <2> HIDE DEF lock, new
    <2>6. semantic' =
             [provider |-> semantic.provider, json |-> semantic.json, chroma |-> semantic.chroma,
              up |-> semantic.up, damaged |-> semantic.damaged, lock |-> lock,
              run |-> [semantic.run EXCEPT ![r] = new],
              promised |-> semantic.promised, started |-> semantic.started]
      BY <2>2 DEF SemanticInv, TypeOK
    <2>7. /\ TypeOK'
          /\ semantic'.provider = semantic.provider /\ semantic'.json = semantic.json
          /\ semantic'.chroma = semantic.chroma /\ semantic'.promised = semantic.promised
          /\ semantic'.damaged = semantic.damaged /\ semantic'.lock = lock
          /\ Run(r)' = new /\ \A s \in Runs \ {r} : Run(s)' = Run(s)
      BY <2>3, <2>4, <2>6, RunSteps
    <2>8. TextsMatch'
      BY <2>3, <2>7 DEF SemanticInv, TextsMatch
    <2>9. Queued'
      BY <2>5, <2>7 DEF SemanticInv, Queued
    <2>10. OneWriter'
      <3>1. ASSUME NEW s \in Runs, Run(s)'.at = "writing" PROVE Head(lock) = s
        <4>1. s # r /\ Run(s).at = "writing"
          BY <2>3, <2>7, <3>1
        <4>2. Len(semantic.lock) > 0 /\ Head(semantic.lock) = s
          BY <2>5, <4>1 DEF SemanticInv, Queued, OneWriter
        <4> QED
          BY <2>5, <4>2
      <3> QED
        BY <2>7, <3>1 DEF OneWriter
    <2>11. BaseIsCurrent'
      BY <2>3, <2>7 DEF SemanticInv, BaseIsCurrent
    <2>12. PromisesKept' /\ ChromaIfConfigured'
      BY <2>7 DEF SemanticInv, PromisesKept, ChromaIfConfigured
    <2> QED
      BY <2>7, <2>8, <2>9, <2>10, <2>11, <2>12 DEF SemanticInv
  <1> QED
    BY <1>1, <1>2

\* Run r, the head of the queue, has read a file of which it got base.
LEMMA ReadStep ==
    ASSUME SemanticInv, NEW r \in Runs, Run(r).at = "waiting", Embeddings!Locked(r),
           NEW base, NEW damaged \in BOOLEAN, Sound(base),
           ~damaged => ~semantic.damaged /\ base = semantic.json,
           semantic' =
             [provider |-> semantic.provider, json |-> semantic.json, chroma |-> semantic.chroma,
              up |-> semantic.up, damaged |-> damaged, lock |-> semantic.lock,
              run |-> [semantic.run EXCEPT ![r] = [at |-> "writing", records |-> Run(r).records, base |-> base]],
              promised |-> semantic.promised, started |-> semantic.started]
    PROVE  SemanticInv'
  <1> DEFINE new == [at |-> "writing", records |-> Run(r).records, base |-> base]
  <1>1. TypeOK /\ semantic.lock \in Seq(Runs)
    BY DEF SemanticInv, TypeOK
  <1>2. /\ new = [at |-> new.at, records |-> new.records, base |-> new.base]
        /\ new.at = "writing" /\ new.at \in Stages
        /\ new.records = Run(r).records /\ new.base = base
    BY DEF Stages
  <1>3. semantic' =
             [provider |-> semantic.provider, json |-> semantic.json, chroma |-> semantic.chroma,
              up |-> semantic.up, damaged |-> damaged, lock |-> semantic.lock,
              run |-> [semantic.run EXCEPT ![r] = new],
              promised |-> semantic.promised, started |-> semantic.started]
    OBVIOUS
  <1> HIDE DEF new
  <1>4. /\ TypeOK'
        /\ semantic'.provider = semantic.provider /\ semantic'.json = semantic.json
        /\ semantic'.chroma = semantic.chroma /\ semantic'.promised = semantic.promised
        /\ semantic'.damaged = damaged /\ semantic'.lock = semantic.lock
        /\ Run(r)' = new /\ \A s \in Runs \ {r} : Run(s)' = Run(s)
    BY <1>3, <1>1, <1>2, RunSteps
  <1>5. TextsMatch'
    BY <1>2, <1>4 DEF SemanticInv, TextsMatch
  <1>6. Queued'
    BY <1>2, <1>4 DEF SemanticInv, Queued
  <1>7. OneWriter'
    BY <1>2, <1>4 DEF SemanticInv, OneWriter, Embeddings!Locked
  <1>8. BaseIsCurrent'
    BY <1>2, <1>4 DEF SemanticInv, BaseIsCurrent
  <1>9. PromisesKept' /\ ChromaIfConfigured'
    BY <1>4 DEF SemanticInv, PromisesKept, ChromaIfConfigured
  <1> QED
    BY <1>4, <1>5, <1>6, <1>7, <1>8, <1>9 DEF SemanticInv

LEMMA ReadFileStep == ASSUME SemanticInv, NEW r \in Runs, Embeddings!ReadFile(r) PROVE SemanticInv'
  <1>1. /\ Run(r).at = "waiting" /\ Embeddings!Locked(r)
        /\ Run(r) = [at |-> Run(r).at, records |-> Run(r).records, base |-> Run(r).base]
        /\ semantic.run = [s \in Runs |-> semantic.run[s]]
    BY DEF Embeddings!ReadFile, SemanticInv, TypeOK, Run
  <1>2. ASSUME NEW base
        PROVE  [semantic.run EXCEPT ![r].at = "writing", ![r].base = base]
                  = [semantic.run EXCEPT ![r] = [at |-> "writing", records |-> Run(r).records, base |-> base]]
    <2>2. [semantic.run[r] EXCEPT !.at = "writing", !.base = base]
             = [at |-> "writing", records |-> Run(r).records, base |-> base]
      BY <1>1, RunHasRead DEF Run
    <2>3. [semantic.run EXCEPT ![r].at = "writing", ![r].base = base]
             = [semantic.run EXCEPT ![r] = [semantic.run[r] EXCEPT !.at = "writing", !.base = base]]
      BY <1>1
    <2> QED
      BY <2>2, <2>3
  <1>3. CASE semantic' = [semantic EXCEPT !.run[r].at = "writing", !.run[r].base = semantic.json]
    <2>1. semantic' = [semantic EXCEPT !.run =
             [semantic.run EXCEPT ![r] = [at |-> "writing", records |-> Run(r).records, base |-> semantic.json]]]
      <3>1. semantic' = [semantic EXCEPT !.run =
               [semantic.run EXCEPT ![r].at = "writing", ![r].base = semantic.json]]
        BY <1>1, <1>3
      <3> QED
        BY <1>2, <3>1
    <2>2. semantic' =
             [provider |-> semantic.provider, json |-> semantic.json, chroma |-> semantic.chroma,
              up |-> semantic.up, damaged |-> semantic.damaged, lock |-> semantic.lock,
              run |-> [semantic.run EXCEPT
                         ![r] = [at |-> "writing", records |-> Run(r).records, base |-> semantic.json]],
              promised |-> semantic.promised, started |-> semantic.started]
      BY <2>1 DEF SemanticInv, TypeOK
    <2>3. Sound(semantic.json) /\ semantic.damaged \in BOOLEAN
      BY DEF SemanticInv, TextsMatch, TypeOK
    <2> QED
      BY <1>1, <2>2, <2>3, ReadStep
  <1>4. CASE semantic' = [semantic EXCEPT !.run[r].at = "writing", !.run[r].base = Embeddings!Nothing, !.damaged = TRUE]
    <2>1. semantic' = [semantic EXCEPT !.damaged = TRUE, !.run =
             [semantic.run EXCEPT ![r] = [at |-> "writing", records |-> Run(r).records, base |-> Embeddings!Nothing]]]
      <3>1. semantic' = [semantic EXCEPT !.damaged = TRUE, !.run =
               [semantic.run EXCEPT ![r].at = "writing", ![r].base = Embeddings!Nothing]]
        BY <1>1, <1>4
      <3> QED
        BY <1>2, <3>1
    <2>2. semantic' =
             [provider |-> semantic.provider, json |-> semantic.json, chroma |-> semantic.chroma,
              up |-> semantic.up, damaged |-> TRUE, lock |-> semantic.lock,
              run |-> [semantic.run EXCEPT
                         ![r] = [at |-> "writing", records |-> Run(r).records, base |-> Embeddings!Nothing]],
              promised |-> semantic.promised, started |-> semantic.started]
      BY <2>1 DEF SemanticInv, TypeOK
    <2> QED
      BY <1>1, <2>2, NothingIsSound, ReadStep
  <1> QED
    BY <1>3, <1>4 DEF Embeddings!ReadFile

\* Run r has written the file, or not, and lets the next one go on.
LEMMA WriteStep ==
    ASSUME SemanticInv, NEW r \in Runs, Run(r).at = "writing", NEW json, NEW promised, Sound(json),
           ~semantic.damaged =>
               \A k \in DOMAIN promised :
                   \/ k \in DOMAIN json /\ json[k] = promised[k]
                   \/ k \in DOMAIN semantic.chroma /\ semantic.chroma[k] = promised[k],
           semantic' =
             [provider |-> semantic.provider, json |-> json, chroma |-> semantic.chroma,
              up |-> semantic.up, damaged |-> semantic.damaged, lock |-> Embeddings!Unlock,
              run |-> [semantic.run EXCEPT ![r] = Embeddings!NoRun],
              promised |-> promised, started |-> semantic.started]
    PROVE  SemanticInv'
  <1>1. /\ TypeOK /\ semantic.damaged \in BOOLEAN /\ semantic.lock \in Seq(Runs)
        /\ semantic.lock # <<>> /\ Head(semantic.lock) = r
    <2>1. TypeOK /\ semantic.damaged \in BOOLEAN /\ semantic.lock \in Seq(Runs)
      BY DEF SemanticInv, TypeOK
    <2>2. PICK i \in 1..Len(semantic.lock) : semantic.lock[i] = r
      BY DEF SemanticInv, Queued
    <2> QED
      BY <2>1, <2>2 DEF SemanticInv, OneWriter
  <1>2. /\ Embeddings!NoRun = [at |-> Embeddings!NoRun.at, records |-> Embeddings!NoRun.records,
             base |-> Embeddings!NoRun.base]
        /\ Embeddings!NoRun.at = "idle" /\ Embeddings!NoRun.at \in Stages /\ Sound(Embeddings!NoRun.records)
                  /\ Sound(Embeddings!NoRun.base)
    BY NothingIsSound DEF Embeddings!NoRun, Stages
  <1>3. /\ Embeddings!Unlock \in Seq(Runs) /\ Len(Embeddings!Unlock) = Len(semantic.lock) - 1
        /\ \A i \in 2..Len(semantic.lock) : Embeddings!Unlock[i - 1] = semantic.lock[i]
    BY <1>1 DEF Embeddings!Unlock
  <1>4. /\ TypeOK'
        /\ semantic'.provider = semantic.provider /\ semantic'.json = json
        /\ semantic'.chroma = semantic.chroma /\ semantic'.promised = promised
        /\ semantic'.damaged = semantic.damaged /\ semantic'.lock = Embeddings!Unlock
        /\ Run(r)' = Embeddings!NoRun /\ \A s \in Runs \ {r} : Run(s)' = Run(s)
    BY <1>1, <1>2, <1>3, RunSteps
  <1>5. TextsMatch'
    BY <1>2, <1>4 DEF SemanticInv, TextsMatch
  <1>6. \A s \in Runs : Run(s)'.at # "writing"
    BY <1>1, <1>2, <1>4 DEF SemanticInv, OneWriter
  <1>7. Queued'
    <2>1. SUFFICES ASSUME NEW s \in Runs, Run(s)'.at \in {"waiting", "writing"}
                   PROVE  \E i \in 1..Len(Embeddings!Unlock) : Embeddings!Unlock[i] = s
      BY <1>4 DEF Queued
    <2>2. s # r /\ Run(s).at = "waiting"
      BY <1>2, <1>4, <1>6, <2>1
    <2>3. PICK i \in 1..Len(semantic.lock) : semantic.lock[i] = s
      BY <2>2 DEF SemanticInv, Queued
    <2>4. i \in 2..Len(semantic.lock)
      BY <1>1, <2>2, <2>3
    <2>5. i - 1 \in 1..Len(Embeddings!Unlock) /\ Embeddings!Unlock[i - 1] = s
      BY <1>1, <1>3, <2>3, <2>4
    <2> QED
      BY <2>5
  <1>8. OneWriter' /\ BaseIsCurrent'
    BY <1>6 DEF OneWriter, BaseIsCurrent
  <1>9. PromisesKept' /\ ChromaIfConfigured'
    BY <1>4 DEF SemanticInv, PromisesKept, ChromaIfConfigured
  <1> QED
    BY <1>4, <1>5, <1>7, <1>8, <1>9 DEF SemanticInv

LEMMA WriteFileStep == ASSUME SemanticInv, NEW r \in Runs, Embeddings!WriteFile(r) PROVE SemanticInv'
  <1>1. Run(r).at = "writing"
    BY DEF Embeddings!WriteFile, Run
  <1>2. CASE semantic' = [semantic EXCEPT !.json = Embeddings!Updated(semantic.run[r].base, semantic.run[r].records),
                                       !.promised = Embeddings!Updated(@, semantic.run[r].records),
                                       !.lock = Embeddings!Unlock, !.run[r] = Embeddings!NoRun]
    <2> DEFINE json == Embeddings!Updated(Run(r).base, Run(r).records)
               promised == Embeddings!Updated(semantic.promised, Run(r).records)
    <2>1. semantic' =
             [provider |-> semantic.provider, json |-> json, chroma |-> semantic.chroma,
              up |-> semantic.up, damaged |-> semantic.damaged, lock |-> Embeddings!Unlock,
              run |-> [semantic.run EXCEPT ![r] = Embeddings!NoRun],
              promised |-> promised, started |-> semantic.started]
      BY <1>2 DEF SemanticInv, TypeOK, Run
    <2>2. Sound(json)
      BY UpdatedIsSound DEF SemanticInv, TextsMatch
    <2>3. ASSUME ~semantic.damaged, NEW k \in DOMAIN promised
          PROVE  \/ k \in DOMAIN json /\ json[k] = promised[k]
                 \/ k \in DOMAIN semantic.chroma /\ semantic.chroma[k] = promised[k]
      <3>1. Run(r).base = semantic.json
        BY <1>1, <2>3 DEF SemanticInv, BaseIsCurrent
      <3>2. CASE k \in DOMAIN Run(r).records
        BY <3>2 DEF Embeddings!Updated
      <3>3. CASE k \notin DOMAIN Run(r).records
        <4>1. /\ k \in DOMAIN semantic.promised /\ promised[k] = semantic.promised[k]
              /\ k \in DOMAIN semantic.json => k \in DOMAIN json /\ json[k] = semantic.json[k]
          BY <3>1, <3>3, <2>3 DEF Embeddings!Updated
        <4> QED
          BY <4>1, <2>3 DEF SemanticInv, PromisesKept
      <3> QED
        BY <3>2, <3>3
    <2> HIDE DEF json, promised
    <2> QED
      BY <1>1, <2>1, <2>2, <2>3, WriteStep
  <1>3. CASE semantic' = [semantic EXCEPT !.lock = Embeddings!Unlock, !.run[r] = Embeddings!NoRun]
    <2>1. semantic' =
             [provider |-> semantic.provider, json |-> semantic.json, chroma |-> semantic.chroma,
              up |-> semantic.up, damaged |-> semantic.damaged, lock |-> Embeddings!Unlock,
              run |-> [semantic.run EXCEPT ![r] = Embeddings!NoRun],
              promised |-> semantic.promised, started |-> semantic.started]
      BY <1>3 DEF SemanticInv, TypeOK
    <2>2. Sound(semantic.json)
      BY DEF SemanticInv, TextsMatch
    <2>3. ~semantic.damaged =>
             \A k \in DOMAIN semantic.promised :
                 \/ k \in DOMAIN semantic.json /\ semantic.json[k] = semantic.promised[k]
                 \/ k \in DOMAIN semantic.chroma /\ semantic.chroma[k] = semantic.promised[k]
      BY DEF SemanticInv, PromisesKept
    <2> QED
      BY <1>1, <2>1, <2>2, <2>3, WriteStep
  <1> QED
    BY <1>2, <1>3 DEF Embeddings!WriteFile

LEMMA ToggleStep == ASSUME SemanticInv, Embeddings!Toggle PROVE SemanticInv'
  <1>1. semantic' =
             [provider |-> semantic.provider, json |-> semantic.json, chroma |-> semantic.chroma,
              up |-> ~semantic.up, damaged |-> semantic.damaged, lock |-> semantic.lock,
              run |-> semantic.run, promised |-> semantic.promised, started |-> semantic.started]
    BY DEF Embeddings!Toggle, SemanticInv, TypeOK
  <1>2. /\ semantic'.provider = semantic.provider /\ semantic'.json = semantic.json
        /\ semantic'.chroma = semantic.chroma /\ semantic'.promised = semantic.promised
        /\ semantic'.damaged = semantic.damaged /\ semantic'.lock = semantic.lock
        /\ semantic'.up = ~semantic.up /\ semantic'.started = semantic.started
        /\ semantic'.run = semantic.run
    BY <1>1
  <1>3. TypeOK'
    <2>1. semantic' =
         [provider |-> semantic'.provider, json |-> semantic'.json, chroma |-> semantic'.chroma,
          up |-> semantic'.up, damaged |-> semantic'.damaged, lock |-> semantic'.lock,
          run |-> semantic'.run, promised |-> semantic'.promised, started |-> semantic'.started]
      BY <1>1, <1>2
    <2>2. semantic'.up \in BOOLEAN
      BY <1>2 DEF SemanticInv, TypeOK
    <2> QED
      BY <1>2, <2>1, <2>2 DEF SemanticInv, TypeOK, Run
  <1> QED
    BY <1>2, <1>3 DEF SemanticInv, TextsMatch, Queued, OneWriter, BaseIsCurrent, PromisesKept,
                      ChromaIfConfigured, Run

\* At the beginning, and when another index takes the place of this one.
Fresh == \E provider : semantic = Embeddings!Empty(provider)

LEMMA FreshIndex == Fresh => SemanticInv
  <1> SUFFICES ASSUME NEW provider, semantic = Embeddings!Empty(provider) PROVE SemanticInv
    BY DEF Fresh
  <1>1. /\ semantic.provider = provider /\ semantic.json = Embeddings!Nothing /\ semantic.chroma = Embeddings!Nothing
        /\ semantic.promised = Embeddings!Nothing /\ semantic.damaged = FALSE /\ semantic.up = TRUE
        /\ semantic.lock = <<>> /\ semantic.started = 0
        /\ semantic.run = [r \in Runs |-> Embeddings!NoRun]
    BY DEF Embeddings!Empty
  <1>2. /\ Embeddings!NoRun = [at |-> Embeddings!NoRun.at, records |-> Embeddings!NoRun.records,
             base |-> Embeddings!NoRun.base]
        /\ Embeddings!NoRun.at = "idle" /\ Sound(Embeddings!NoRun.records) /\ Sound(Embeddings!NoRun.base)
    BY NothingIsSound DEF Embeddings!NoRun
  <1>3. \A r \in Runs : Run(r) = Embeddings!NoRun
    BY <1>1 DEF Run
  <1>4. TypeOK
    <2>1. semantic =
         [provider |-> semantic.provider, json |-> semantic.json, chroma |-> semantic.chroma,
          up |-> semantic.up, damaged |-> semantic.damaged, lock |-> semantic.lock,
          run |-> semantic.run, promised |-> semantic.promised, started |-> semantic.started]
      BY <1>1 DEF Embeddings!Empty
    <2>2. semantic.run = [r \in Runs |-> [at |-> Run(r).at, records |-> Run(r).records, base |-> Run(r).base]]
      BY <1>1, <1>2, <1>3
    <2>3. \A r \in Runs : Run(r).at \in Stages
      BY <1>2, <1>3 DEF Stages
    <2>4. semantic.lock \in Seq(Runs)
      BY <1>1
    <2> QED
      BY <1>1, <2>1, <2>2, <2>3, <2>4 DEF TypeOK
  <1>5. TextsMatch /\ PromisesKept /\ ChromaIfConfigured
    BY <1>1, <1>2, <1>3, NothingIsSound DEF TextsMatch, PromisesKept, ChromaIfConfigured
  <1>6. Queued /\ OneWriter /\ BaseIsCurrent
    BY <1>2, <1>3 DEF Queued, OneWriter, BaseIsCurrent
  <1> QED
    BY <1>4, <1>5, <1>6 DEF SemanticInv

LEMMA Inductive == Embeddings!Spec => []SemanticInv
  <1>1. Embeddings!Init => SemanticInv
    BY FreshIndex DEF Embeddings!Init, Fresh
  <1>2. Fresh' => SemanticInv'
    BY FreshIndex, PTL
  <1>3. SemanticInv /\ [Embeddings!Next]_semantic => SemanticInv'
    <2> SUFFICES ASSUME SemanticInv, [Embeddings!Next]_semantic PROVE SemanticInv'
      OBVIOUS
    <2>1. ASSUME NEW r \in Runs,
                 Embeddings!Start(r) \/ Embeddings!Embed(r) \/ Embeddings!EmbedFails(r) \/ Embeddings!Upsert(r) \/ Embeddings!ReadFile(r) \/ Embeddings!WriteFile(r)
          PROVE  SemanticInv'
      BY <2>1, StartStep, EmbedStep, EmbedFailsStep, UpsertStep, ReadFileStep, WriteFileStep
    <2>2. CASE Embeddings!Toggle
      BY <2>2, ToggleStep
    <2>3. CASE Embeddings!Over
      BY <2>3, <1>2 DEF Embeddings!Over, Fresh
    <2>4. CASE UNCHANGED semantic
      BY <2>4 DEF SemanticInv, TypeOK, TextsMatch, Queued, OneWriter, BaseIsCurrent, PromisesKept,
                  ChromaIfConfigured, Run
    <2> QED
      BY <2>1, <2>2, <2>3, <2>4 DEF Embeddings!Next
  <1> QED
    BY <1>1, <1>3, PTL DEF Embeddings!Spec
-----------------------------------------------------------------------------
\* Whatever the index runs that overlap, the failures of the provider and of
\* Chroma: the last record of a node that an upsert has stored is found in the
\* file or in Chroma unless an upsert could not read the file, no embedding is of
\* another text, and a search that finds nothing and reports no problem had nothing
\* to find in Chroma, nor in what it could read of the file.
THEOREM NothingIsLost == Embeddings!Spec => []Embeddings!NothingStoredIsLost
  <1>1. ASSUME SemanticInv PROVE Embeddings!NothingStoredIsLost
    <2>1. ~semantic.damaged =>
            \A k \in DOMAIN semantic.promised :
               \E store \in {semantic.json, semantic.chroma} :
                  k \in DOMAIN store /\ store[k] = semantic.promised[k]
      BY <1>1 DEF SemanticInv, PromisesKept
    <2>2. Embeddings!Fits(semantic.json) /\ Embeddings!Fits(semantic.chroma)
      BY <1>1 DEF SemanticInv, TextsMatch, Sound, Embeddings!Fits
    <2>3. ASSUME NEW query \in Queries, NEW embeds \in BOOLEAN, NEW file \in Embeddings!ReadOf(semantic.json)
          PROVE  LET found == Embeddings!search(query, embeds, file)
                 IN found.rows = {} /\ ~found.threw /\ found.primary # "failed" =>
                      Embeddings!Matches(semantic.chroma, query) \union Embeddings!Matches(file, query) = {}
      <3> DEFINE found == Embeddings!search(query, embeds, file)
      <3>1. SUFFICES ASSUME found.rows = {}, ~found.threw, found.primary # "failed"
                     PROVE  Embeddings!Matches(semantic.chroma, query) = {} /\ Embeddings!Matches(file, query) = {}
        OBVIOUS
      <3>2. CASE semantic.provider = "json"
        <4>1. Embeddings!Matches(semantic.chroma, query) = {}
          BY <1>1, <3>2, NothingIsSound DEF SemanticInv, ChromaIfConfigured, Embeddings!Matches
        <4>2. embeds /\ found.rows = Embeddings!Matches(file, query)
          BY <3>1, <3>2 DEF Embeddings!search
        <4> QED
          BY <3>1, <4>1, <4>2
      <3>3. CASE semantic.provider # "json"
        <4>1. ~(semantic.provider = "chroma" /\ (~embeds \/ ~semantic.up))
          BY <3>1, <3>3 DEF Embeddings!search
        <4>2. Embeddings!Matches(semantic.chroma, query) = {}
          BY <3>1, <3>3, <4>1 DEF Embeddings!search
        <4>3. embeds /\ found.rows = Embeddings!Matches(file, query)
          BY <3>1, <3>3, <4>1, <4>2 DEF Embeddings!search
        <4> QED
          BY <3>1, <4>2, <4>3
      <3> QED
        BY <3>2, <3>3
    <2> QED
      BY <2>1, <2>2, <2>3 DEF Embeddings!NothingStoredIsLost
  <1> QED
    BY <1>1, Inductive, PTL
-----------------------------------------------------------------------------
(***************************************************************************)
(* The lexical store of LexicalStore.                                      *)
(*                                                                         *)
(* Statements of ensureSchema may be the last of a run, so what a state    *)
(* owes to them is said of those the present run has done (Done); what must*)
(* hold of every run's remains is that statistics which are there and      *)
(* marked current count the documents (StatsKept), and that a projection   *)
(* which is marked current is that of the documents (TextsKept).           *)
(***************************************************************************)

AllTables == {"documents", "metadata", "stats"}
DocType ==
    [file : Nat, fileId : Nat, text : 0..2, size : {-1, 0, 1, 2}, active : BOOLEAN]
IndexType ==
    [name : {"workspace", "title"}, sound : BOOLEAN, state : {"ONLINE", "POPULATING", "FAILED"}]
RunType ==
    [kind : {"none", "copy", "full", "changed", "repo"}, step : Nat, repos : SUBSET Lexical!Repos,
              todo : SUBSET Lexical!Repos,
     alive : SUBSET DOMAIN FileOf, number : Nat, graphEmpty : BOOLEAN]
Versions == {"missing", "earlier", "current"}
Docs == UNION {[D -> DocType] : D \in SUBSET DOMAIN FileOf}
State ==
    [provider : {"kuzu", "neo4j"}, run : RunType, tables : SUBSET AllTables, columns : SUBSET Lexical!AllColumns,
     docs : Docs, stats : [count : Int, bytes : Int], indexes : SUBSET IndexType,
     meta : [projection : Versions, tokenizer : Versions, stats : {"missing", "incomplete", "current"}]]

SchemaOf(s) == Lexical!ensureSchema(s.provider)
InSchema(s) == s.run.step \in DOMAIN SchemaOf(s)
Done(s, name) == \E k \in DOMAIN SchemaOf(s) : SchemaOf(s)[k] = name /\ k < s.run.step

\* A document says which file it is of, if it says anything of files.
DocsKept(s) ==
    /\ \A d \in DOMAIN s.docs : s.docs[d].file = FileOf[d] /\ s.docs[d].fileId \in {0, FileOf[d]}
    /\ Done(s, "files") => \A d \in DOMAIN s.docs : s.docs[d].fileId = FileOf[d]

TablesKept(s) ==
    /\ s.provider = "neo4j" => s.tables = AllTables
    /\ \A table \in AllTables : Done(s, table) => table \in s.tables

IndexesKept(s) ==
    /\ s.provider = "kuzu" => \A index \in s.indexes : index.state = "ONLINE"
    /\ Done(s, "drop") => \A index \in s.indexes : Lexical!Expected(index)
    /\ Done(s, "await") \/ (s.provider = "kuzu" /\ Done(s, "index")) =>
           s.indexes = {Lexical!Index("workspace", TRUE, "ONLINE")}

\* Statistics are not trusted before their table is there and sizes are known.
StatsKept(s) ==
    /\ s.meta.stats = "current" /\ "stats" \in s.tables => s.stats = Lexical!Counted(s)
    /\ Done(s, "mark") => "stats" \in s.tables \/ s.meta.stats # "current"
    /\ Done(s, "unsized") => Lexical!Sizeless(s) = {} \/ s.meta.stats # "current"
    /\ Done(s, "sizes") => Lexical!Sizeless(s) = {}
    /\ Done(s, "rebuild") => s.meta.stats = "current"

TextsKept(s) ==
    /\ s.meta.projection = "current" => \A d \in Lexical!Active(s) : s.docs[d].text = Lexical!Today
    /\ s.meta.projection = "missing" => Lexical!Active(s) = {}
    /\ Done(s, "versions") => s.meta.projection # "missing"

\* What a run has written of the repositories it has behind it.
RunKept(s) ==
    /\ s.run.step \in 0..(Len(SchemaOf(s)) + 2)
    /\ InSchema(s) => s.run.todo = s.run.repos /\ s.run.alive = {}
    /\ s.run.step # 0 /\ s.run.kind \in {"copy", "full"} =>
          /\ s.run.repos = Lexical!Repos
          /\ \A d \in s.run.alive : RepoOf[d] \notin s.run.todo
          /\ \A d \in DOMAIN FileOf : RepoOf[d] \notin s.run.todo =>
                /\ d \in Lexical!Active(s) <=> d \in s.run.alive
                /\ d \in Lexical!Active(s) => s.docs[d].text = Lexical!Today
    /\ s.run.step # 0 /\ s.run.kind = "changed" =>
          \A d \in Lexical!Active(s) : RepoOf[d] \in s.run.repos \ s.run.todo =>
              FileOf[d] = 0 \/ \E e \in s.run.alive : FileOf[e] = FileOf[d]
    /\ s.run.step = Len(SchemaOf(s)) + 2 =>
          /\ s.run.todo = {}
          /\ s.run.kind \in {"copy", "full"} => s.meta.projection = "current" /\ s.meta.tokenizer = "current"

LexicalInv(s) ==
    /\ s \in State
    /\ DocsKept(s) /\ TablesKept(s) /\ IndexesKept(s) /\ StatsKept(s) /\ TextsKept(s) /\ RunKept(s)
-----------------------------------------------------------------------------
(* Counting. *)

BytesOf(s, docs) == {byte \in docs \X (1..Lexical!Today) : byte[2] <= s.docs[byte[1]].size}

(* Cardinality and IsFiniteSet of the instance are those of FiniteSets. *)

LEMMA OneCardinality == ASSUME NEW S PROVE Lexical!Cardinality(S) = Cardinality(S)
BY DEF Lexical!Cardinality, Cardinality

LEMMA OneFiniteness == ASSUME NEW S PROVE Lexical!IsFiniteSet(S) <=> IsFiniteSet(S)
BY DEF Lexical!IsFiniteSet, IsFiniteSet

LEMMA LX_CardinalityType ==
    ASSUME NEW S, Lexical!IsFiniteSet(S) PROVE Lexical!Cardinality(S) \in Nat
BY FS_CardinalityType, OneCardinality, OneFiniteness

LEMMA LX_EmptySet ==
    /\ Lexical!Cardinality({}) = 0
    /\ \A S : Lexical!IsFiniteSet(S) => (Lexical!Cardinality(S) = 0 <=> S = {})
BY FS_EmptySet, OneCardinality, OneFiniteness

LEMMA LX_AddElement ==
    ASSUME NEW S, NEW x, Lexical!IsFiniteSet(S), x \notin S
    PROVE  /\ Lexical!IsFiniteSet(S \union {x})
           /\ Lexical!Cardinality(S \union {x}) = Lexical!Cardinality(S) + 1
BY FS_AddElement, OneCardinality, OneFiniteness

LEMMA LX_Singleton == ASSUME NEW x PROVE Lexical!IsFiniteSet({x}) /\ Lexical!Cardinality({x}) = 1
BY FS_Singleton, OneCardinality, OneFiniteness

LEMMA LX_Subset ==
    ASSUME NEW S, Lexical!IsFiniteSet(S), NEW T \in SUBSET S PROVE Lexical!IsFiniteSet(T)
BY FS_Subset, OneFiniteness

LEMMA LX_Union ==
    ASSUME NEW S, Lexical!IsFiniteSet(S), NEW T, Lexical!IsFiniteSet(T)
    PROVE  Lexical!Cardinality(S \union T) =
               Lexical!Cardinality(S) + Lexical!Cardinality(T) - Lexical!Cardinality(S \intersect T)
BY FS_Union, OneCardinality, OneFiniteness

LEMMA LX_Product ==
    ASSUME NEW S, Lexical!IsFiniteSet(S), NEW T, Lexical!IsFiniteSet(T)
    PROVE  /\ Lexical!IsFiniteSet(S \X T)
           /\ Lexical!Cardinality(S \X T) = Lexical!Cardinality(S) * Lexical!Cardinality(T)
BY FS_Product, OneCardinality, OneFiniteness

LEMMA TwoBytes == Lexical!IsFiniteSet(1..Lexical!Today) /\ Lexical!Cardinality(1..Lexical!Today) = 2
<1>1. Lexical!IsFiniteSet({1}) /\ Lexical!Cardinality({1}) = 1
  BY LX_Singleton
<1>2. {1, 2} = {1} \union {2} /\ {1, 2} = 1..Lexical!Today
  BY DEF Lexical!Today
<1>3. Lexical!IsFiniteSet({1, 2}) /\ Lexical!Cardinality({1, 2}) = 2
  BY <1>1, <1>2, LX_AddElement
<1> QED
  BY <1>2, <1>3

LEMMA Disjoint ==
    ASSUME NEW A, NEW B, Lexical!IsFiniteSet(A), Lexical!IsFiniteSet(B), A \intersect B = {}
    PROVE  Lexical!Cardinality(A \union B) = Lexical!Cardinality(A) + Lexical!Cardinality(B)
<1>1. Lexical!Cardinality(A) \in Nat /\ Lexical!Cardinality(B) \in Nat
  BY LX_CardinalityType
<1>2. Lexical!Cardinality(A \union B) =
          Lexical!Cardinality(A) + Lexical!Cardinality(B) - Lexical!Cardinality(A \intersect B)
  BY LX_Union
<1>3. Lexical!Cardinality({}) = 0
  BY LX_EmptySet
<1>4. Lexical!Cardinality(A \intersect B) = 0
  BY <1>3
<1> QED
  BY <1>1, <1>2, <1>4

LEMMA BytesFinite ==
    ASSUME Lexical!FilesAssumption, NEW s, NEW A \in SUBSET DOMAIN FileOf
    PROVE  /\ Lexical!IsFiniteSet(A) /\ Lexical!Cardinality(A) \in Nat
           /\ Lexical!IsFiniteSet(BytesOf(s, A)) /\ Lexical!Bytes(s, A) = Lexical!Cardinality(BytesOf(s, A))
                     /\ Lexical!Bytes(s, A) \in Nat
<1>1. Lexical!IsFiniteSet(A)
  BY LX_Subset DEF Lexical!FilesAssumption
<1>2. Lexical!IsFiniteSet(A \X (1..Lexical!Today))
  BY <1>1, LX_Product, TwoBytes
<1>3. BytesOf(s, A) \in SUBSET (A \X (1..Lexical!Today))
  BY DEF BytesOf
<1>4. Lexical!IsFiniteSet(BytesOf(s, A))
  BY <1>2, <1>3, LX_Subset
<1>5. Lexical!Bytes(s, A) = Lexical!Cardinality(BytesOf(s, A))
  BY DEF Lexical!Bytes, BytesOf
<1> QED
  BY <1>1, <1>4, <1>5, LX_CardinalityType

LEMMA BytesUnion ==
    ASSUME Lexical!FilesAssumption, NEW s, NEW A \in SUBSET DOMAIN FileOf, NEW B \in SUBSET DOMAIN FileOf,
           A \intersect B = {}
    PROVE  /\ Lexical!Bytes(s, A \union B) = Lexical!Bytes(s, A) + Lexical!Bytes(s, B)
           /\ Lexical!Cardinality(A \union B) = Lexical!Cardinality(A) + Lexical!Cardinality(B)
<1>1. BytesOf(s, A \union B) = BytesOf(s, A) \union BytesOf(s, B)
  BY DEF BytesOf
<1>2. BytesOf(s, A) \intersect BytesOf(s, B) = {}
  BY DEF BytesOf
<1>4. /\ Lexical!IsFiniteSet(A) /\ Lexical!Cardinality(A) \in Nat
      /\ Lexical!IsFiniteSet(BytesOf(s, A)) /\ Lexical!Bytes(s, A) = Lexical!Cardinality(BytesOf(s, A))
                /\ Lexical!Bytes(s, A) \in Nat
  BY BytesFinite
<1>5. /\ Lexical!IsFiniteSet(B) /\ Lexical!Cardinality(B) \in Nat
      /\ Lexical!IsFiniteSet(BytesOf(s, B)) /\ Lexical!Bytes(s, B) = Lexical!Cardinality(BytesOf(s, B))
                /\ Lexical!Bytes(s, B) \in Nat
  BY BytesFinite
<1>6. A \union B \in SUBSET DOMAIN FileOf
  OBVIOUS
<1>7. Lexical!Bytes(s, A \union B) = Lexical!Cardinality(BytesOf(s, A) \union BytesOf(s, B))
  BY <1>1, <1>6, BytesFinite
<1>8. Lexical!Cardinality(BytesOf(s, A) \union BytesOf(s, B)) = Lexical!Bytes(s, A) + Lexical!Bytes(s, B)
  BY <1>2, <1>4, <1>5, Disjoint
<1>9. Lexical!Cardinality(A \union B) = Lexical!Cardinality(A) + Lexical!Cardinality(B)
  BY <1>4, <1>5, Disjoint
<1> QED
  BY <1>7, <1>8, <1>9

LEMMA BytesSame ==
    ASSUME NEW s, NEW t, NEW A, \A d \in A : t.docs[d].size = s.docs[d].size
    PROVE  Lexical!Bytes(t, A) = Lexical!Bytes(s, A)
<1>1. BytesOf(t, A) = BytesOf(s, A)
  BY DEF BytesOf
<1> QED
  BY <1>1 DEF Lexical!Bytes, BytesOf

LEMMA BytesToday ==
    ASSUME Lexical!FilesAssumption, NEW s, NEW A \in SUBSET DOMAIN FileOf,
           \A d \in A : s.docs[d].size = Lexical!Today
    PROVE  Lexical!Bytes(s, A) = Lexical!Today * Lexical!Cardinality(A)
<1>1. BytesOf(s, A) = A \X (1..Lexical!Today)
  <2>1. ASSUME NEW byte \in A \X (1..Lexical!Today) PROVE byte[2] <= s.docs[byte[1]].size
    BY DEF Lexical!Today
  <2> QED
    BY <2>1 DEF BytesOf
<1>2. Lexical!IsFiniteSet(A) /\ Lexical!Cardinality(A) \in Nat
  BY BytesFinite
<1>4. Lexical!Cardinality(A \X (1..Lexical!Today)) = Lexical!Cardinality(A) * 2
  BY <1>2, TwoBytes, LX_Product
<1>5. Lexical!Bytes(s, A) = Lexical!Cardinality(A) * 2
  BY <1>1, <1>4, BytesFinite
<1>6. \A n \in Nat : n * 2 = 2 * n
  OBVIOUS
<1> QED
  BY <1>2, <1>5, <1>6 DEF Lexical!Today

LEMMA CountedSame ==
    ASSUME NEW s, NEW t, Lexical!Active(t) = Lexical!Active(s),
           \A d \in Lexical!Active(s) : t.docs[d].size = s.docs[d].size
    PROVE  Lexical!Counted(t) = Lexical!Counted(s)
BY BytesSame DEF Lexical!Counted

LEMMA ActiveIsKnown ==
    ASSUME NEW s, s \in State
    PROVE  Lexical!Active(s) \in SUBSET DOMAIN FileOf /\ Lexical!Active(s) \in SUBSET DOMAIN s.docs
BY DEF Lexical!Active, State, Docs
-----------------------------------------------------------------------------
(* The next statement of the schema. *)

Follows(s, t, name) ==
    /\ InSchema(s) /\ SchemaOf(s)[s.run.step] = name
    /\ t.provider = s.provider
    /\ t.run = [s.run EXCEPT !.step = s.run.step + 1]

LEMMA SchemaIsSequence ==
    ASSUME NEW s, s \in State
    PROVE  /\ Len(SchemaOf(s)) \in Nat
           /\ DOMAIN SchemaOf(s) = 1..Len(SchemaOf(s))
           /\ s.provider = "kuzu" => Len(SchemaOf(s)) = 13
           /\ s.provider = "neo4j" => Len(SchemaOf(s)) = 8
<1>1. s.provider \in {"kuzu", "neo4j"}
  BY DEF State
<1>2. CASE s.provider = "kuzu"
  BY <1>2 DEF SchemaOf, Lexical!ensureSchema
<1>3. CASE s.provider = "neo4j"
  BY <1>3 DEF SchemaOf, Lexical!ensureSchema
<1> QED
  BY <1>1, <1>2, <1>3

LEMMA Following ==
    ASSUME NEW s, NEW t, NEW name, s \in State, Follows(s, t, name)
    PROVE  /\ t.run \in RunType
           /\ s.run.step \in 1..Len(SchemaOf(s)) /\ t.run.step = s.run.step + 1
           /\ \A n : Done(t, n) <=> Done(s, n) \/ n = name
<1>1. s.run \in RunType /\ s.run.step \in Nat
  BY DEF State, RunType
<1>2. t.run \in RunType /\ t.run.step = s.run.step + 1
  BY <1>1 DEF Follows, RunType
<1>3. SchemaOf(t) = SchemaOf(s)
  BY DEF Follows, SchemaOf
<1>4. s.run.step \in 1..Len(SchemaOf(s)) /\ Len(SchemaOf(s)) \in Nat /\ DOMAIN SchemaOf(s) = 1..Len(SchemaOf(s))
  BY SchemaIsSequence DEF Follows, InSchema
<1>5. \A k \in DOMAIN SchemaOf(s) : k < s.run.step + 1 <=> k < s.run.step \/ k = s.run.step
  BY <1>1, <1>4
<1>6. SchemaOf(s)[s.run.step] = name /\ s.run.step \in DOMAIN SchemaOf(s)
  BY DEF Follows, InSchema
<1> QED
  BY <1>2, <1>3, <1>4, <1>5, <1>6 DEF Done

\* What a run has written begins when the schema is there.
LEMMA RunFollows ==
    ASSUME Lexical!FilesAssumption, NEW s, NEW t, NEW name, LexicalInv(s), Follows(s, t, name)
    PROVE  RunKept(t)
<1>1. s \in State /\ s.run \in RunType
  BY DEF LexicalInv, State
<1>2. /\ t.run.step = s.run.step + 1 /\ s.run.step \in 1..Len(SchemaOf(s))
      /\ Len(SchemaOf(s)) \in Nat
  BY <1>1, Following, SchemaIsSequence
<1>3. SchemaOf(t) = SchemaOf(s)
  BY DEF Follows, SchemaOf
<1>4. /\ t.run.todo = s.run.todo /\ t.run.repos = s.run.repos /\ t.run.alive = s.run.alive
      /\ t.run.kind = s.run.kind
  BY <1>1 DEF Follows, RunType
<1>5. /\ s.run.todo = s.run.repos /\ s.run.alive = {} /\ s.run.step # 0
  BY <1>2 DEF LexicalInv, RunKept, Follows
<1>6. s.run.kind \in {"copy", "full"} => s.run.repos = Lexical!Repos
  BY <1>5 DEF LexicalInv, RunKept
<1>7. \A d \in DOMAIN FileOf : RepoOf[d] \in Lexical!Repos
  BY DEF Lexical!Repos, Lexical!FilesAssumption
<1>8. /\ t.run.step \in 0..(Len(SchemaOf(t)) + 2) /\ t.run.step # Len(SchemaOf(t)) + 2
      /\ t.run.todo = t.run.repos /\ t.run.alive = {}
  BY <1>2, <1>3, <1>4, <1>5
<1>9. t.run.kind \in {"copy", "full"} => t.run.repos = Lexical!Repos
  BY <1>4, <1>6
<1> QED
  BY <1>7, <1>8, <1>9 DEF RunKept
-----------------------------------------------------------------------------
(* What a statement leaves alone. *)

LEMMA DocsFollow ==
    ASSUME NEW s, NEW t, NEW name, LexicalInv(s), Follows(s, t, name), t.docs = s.docs, name # "files"
    PROVE  DocsKept(t)
<1>1. Done(t, "files") => Done(s, "files")
  BY Following DEF LexicalInv
<1> QED
  BY <1>1 DEF LexicalInv, DocsKept

LEMMA TablesFollow ==
    ASSUME NEW s, NEW t, NEW name, LexicalInv(s), Follows(s, t, name),
           s.tables \subseteq t.tables, t.tables \subseteq AllTables, name \in AllTables => name \in t.tables
    PROVE  TablesKept(t)
<1>1. \A n : Done(t, n) => Done(s, n) \/ n = name
  BY Following DEF LexicalInv
<1>2. t.provider = s.provider
  BY DEF Follows
<1> QED
  BY <1>1, <1>2 DEF LexicalInv, TablesKept

LEMMA IndexesFollow ==
    ASSUME NEW s, NEW t, NEW name, LexicalInv(s), Follows(s, t, name),
           t.indexes = s.indexes, name \notin {"drop", "index", "await"}
    PROVE  IndexesKept(t)
<1>1. \A n : Done(t, n) => Done(s, n) \/ n = name
  BY Following DEF LexicalInv
<1>2. t.provider = s.provider
  BY DEF Follows
<1> QED
  BY <1>1, <1>2 DEF LexicalInv, IndexesKept

SameSizes(s, t) ==
    /\ DOMAIN t.docs = DOMAIN s.docs
    /\ \A d \in DOMAIN s.docs : t.docs[d].active = s.docs[d].active /\ t.docs[d].size = s.docs[d].size
SameTexts(s, t) ==
    /\ DOMAIN t.docs = DOMAIN s.docs
    /\ \A d \in DOMAIN s.docs :
          /\ t.docs[d].active = s.docs[d].active
          /\ s.docs[d].text = Lexical!Today => t.docs[d].text = Lexical!Today

LEMMA SameSizesCount ==
    ASSUME NEW s, NEW t, SameSizes(s, t)
    PROVE  Lexical!Counted(t) = Lexical!Counted(s) /\ Lexical!Sizeless(t) = Lexical!Sizeless(s)
<1>1. Lexical!Active(t) = Lexical!Active(s) /\ \A d \in Lexical!Active(s) : t.docs[d].size = s.docs[d].size
  BY DEF SameSizes, Lexical!Active
<1>2. Lexical!Sizeless(t) = Lexical!Sizeless(s)
  BY DEF SameSizes, Lexical!Sizeless
<1> QED
  BY <1>1, <1>2, CountedSame

LEMMA StatsFollow ==
    ASSUME NEW s, NEW t, NEW name, LexicalInv(s), Follows(s, t, name), SameSizes(s, t),
           t.stats = s.stats, "stats" \in t.tables <=> "stats" \in s.tables,
           t.meta.stats = "current" <=> s.meta.stats = "current",
           name \notin {"mark", "unsized", "sizes", "rebuild"}
    PROVE  StatsKept(t)
<1>1. \A n : Done(t, n) => Done(s, n) \/ n = name
  BY Following DEF LexicalInv
<1>2. Lexical!Counted(t) = Lexical!Counted(s) /\ Lexical!Sizeless(t) = Lexical!Sizeless(s)
  BY SameSizesCount
<1> QED
  BY <1>1, <1>2 DEF LexicalInv, StatsKept

LEMMA TextsFollow ==
    ASSUME NEW s, NEW t, NEW name, LexicalInv(s), Follows(s, t, name), SameTexts(s, t),
           t.meta.projection = s.meta.projection, name # "versions"
    PROVE  TextsKept(t)
<1>1. \A n : Done(t, n) => Done(s, n) \/ n = name
  BY Following DEF LexicalInv
<1>2. Lexical!Active(t) = Lexical!Active(s) /\ \A d \in Lexical!Active(s) : s.docs[d].text = Lexical!Today =>
          t.docs[d].text = Lexical!Today
  BY DEF SameTexts, Lexical!Active
<1> QED
  BY <1>1, <1>2 DEF LexicalInv, TextsKept

LEMMA SameDocs ==
    ASSUME NEW s, NEW t, t.docs = s.docs
    PROVE  SameSizes(s, t) /\ SameTexts(s, t)
BY DEF SameSizes, SameTexts

LEMMA Advanced ==
    ASSUME NEW u, u \in State
    PROVE  /\ Lexical!Advance(u) \in State
           /\ Lexical!Advance(u).run = [u.run EXCEPT !.step = u.run.step + 1]
           /\ Lexical!Advance(u).provider = u.provider /\ Lexical!Advance(u).tables = u.tables
           /\ Lexical!Advance(u).docs = u.docs /\ Lexical!Advance(u).stats = u.stats
           /\ Lexical!Advance(u).indexes = u.indexes /\ Lexical!Advance(u).meta = u.meta
<1> DEFINE r == [u.run EXCEPT !.step = u.run.step + 1]
<1>1. r \in RunType
  BY DEF State, RunType
<1>2. Lexical!Advance(u) = [u EXCEPT !.run = r]
  BY DEF Lexical!Advance
<1> HIDE DEF r
<1>3. [u EXCEPT !.run = r] \in State
  BY <1>1 DEF State
<1>4. LET t == [u EXCEPT !.run = r]
      IN  /\ t.run = r /\ t.provider = u.provider /\ t.tables = u.tables /\ t.docs = u.docs
          /\ t.stats = u.stats /\ t.indexes = u.indexes /\ t.meta = u.meta
  BY DEF State
<1> QED
  BY <1>2, <1>3, <1>4 DEF r

\* A statement that leaves alone the documents, the indexes, the statistics and the versions.
LEMMA TablesStep ==
    ASSUME Lexical!FilesAssumption, NEW s, NEW u, NEW name, LexicalInv(s), u \in State,
           InSchema(s), SchemaOf(s)[s.run.step] = name,
           u.provider = s.provider, u.run = s.run,
           s.tables \subseteq u.tables, name \in AllTables => name \in u.tables,
           u.docs = s.docs, u.indexes = s.indexes,
           name \notin {"files", "drop", "index", "await", "versions"},
           StatsKept(Lexical!Advance(u)), u.meta.projection = s.meta.projection
    PROVE  LexicalInv(Lexical!Advance(u))
<1> DEFINE t == Lexical!Advance(u)
<1>1. /\ t \in State /\ t.run = [s.run EXCEPT !.step = s.run.step + 1] /\ t.provider = s.provider
      /\ t.tables = u.tables /\ t.docs = s.docs /\ t.indexes = s.indexes
      /\ t.meta.projection = s.meta.projection
  BY Advanced
<1>2. StatsKept(t)
  OBVIOUS
<1> HIDE DEF t
<1>3. Follows(s, t, name) /\ t.tables \subseteq AllTables
  BY <1>1 DEF Follows, State
<1>4. DocsKept(t)
  BY <1>1, <1>3, DocsFollow
<1>5. TablesKept(t)
  BY <1>1, <1>3, TablesFollow
<1>6. IndexesKept(t)
  BY <1>1, <1>3, IndexesFollow
<1>7. TextsKept(t)
  BY <1>1, <1>3, TextsFollow, SameDocs
<1>8. RunKept(t)
  BY <1>3, RunFollows
<1> QED
  BY <1>1, <1>2, <1>4, <1>5, <1>6, <1>7, <1>8 DEF t, LexicalInv
-----------------------------------------------------------------------------
(* The statements of the schema. *)

AtStatement(s, name) == InSchema(s) /\ SchemaOf(s)[s.run.step] = name

LEMMA KuzuOrder ==
    ASSUME NEW s, s \in State, s.provider = "kuzu"
    PROVE  /\ \A n : Done(s, n) => n \in {"documents", "columns", "texts", "metadata", "mark", "stats", "unsized", "sizes",
                                         "files", "drop", "index", "versions", "rebuild"}
           /\ Done(s, "mark") <=> 5 < s.run.step
           /\ Done(s, "stats") <=> 6 < s.run.step
           /\ Done(s, "unsized") <=> 7 < s.run.step
           /\ Done(s, "sizes") <=> 8 < s.run.step
           /\ Done(s, "drop") <=> 10 < s.run.step
           /\ Done(s, "index") <=> 11 < s.run.step
           /\ Done(s, "rebuild") <=> 13 < s.run.step
           /\ AtStatement(s, "drop") => s.run.step = 10
           /\ AtStatement(s, "mark") => s.run.step = 5
           /\ AtStatement(s, "stats") => s.run.step = 6
           /\ AtStatement(s, "unsized") => s.run.step = 7
           /\ AtStatement(s, "sizes") => s.run.step = 8
           /\ AtStatement(s, "index") => s.run.step = 11
           /\ AtStatement(s, "rebuild") => s.run.step = 13
<1>1. SchemaOf(s) = <<"documents", "columns", "texts", "metadata", "mark", "stats", "unsized", "sizes",
          "files", "drop", "index",
           "versions", "rebuild">>
  BY DEF SchemaOf, Lexical!ensureSchema
<1>2. DOMAIN SchemaOf(s) = 1..13 /\ s.run.step \in Nat
  BY <1>1 DEF State, RunType
<1>3. /\ SchemaOf(s)[1] = "documents" /\ SchemaOf(s)[2] = "columns" /\ SchemaOf(s)[3] = "texts"
           /\ SchemaOf(s)[4] = "metadata"
      /\ SchemaOf(s)[5] = "mark" /\ SchemaOf(s)[6] = "stats" /\ SchemaOf(s)[7] = "unsized" /\ SchemaOf(s)[8] = "sizes"
      /\ SchemaOf(s)[9] = "files" /\ SchemaOf(s)[10] = "drop" /\ SchemaOf(s)[11] = "index" /\ SchemaOf(s)[12] = "versions"
      /\ SchemaOf(s)[13] = "rebuild"
  BY <1>1
<1> QED
  BY <1>2, <1>3 DEF Done, AtStatement, InSchema

LEMMA Neo4jOrder ==
    ASSUME NEW s, s \in State, s.provider = "neo4j"
    PROVE  /\ \A n : Done(s, n) => n \in {"drop", "index", "await", "versions", "unsized", "sizes", "files", "rebuild"}
           /\ Done(s, "drop") <=> 1 < s.run.step
           /\ Done(s, "index") <=> 2 < s.run.step
           /\ Done(s, "await") <=> 3 < s.run.step
           /\ Done(s, "versions") <=> 4 < s.run.step
           /\ Done(s, "unsized") <=> 5 < s.run.step
           /\ Done(s, "sizes") <=> 6 < s.run.step
           /\ Done(s, "rebuild") <=> 8 < s.run.step
           /\ AtStatement(s, "drop") => s.run.step = 1
           /\ AtStatement(s, "index") => s.run.step = 2
           /\ AtStatement(s, "await") => s.run.step = 3
           /\ AtStatement(s, "unsized") => s.run.step = 5
           /\ AtStatement(s, "sizes") => s.run.step = 6
           /\ AtStatement(s, "rebuild") => s.run.step = 8
<1>1. SchemaOf(s) = <<"drop", "index", "await", "versions", "unsized", "sizes", "files", "rebuild">>
  BY DEF SchemaOf, Lexical!ensureSchema
<1>2. DOMAIN SchemaOf(s) = 1..8 /\ s.run.step \in Nat
  BY <1>1 DEF State, RunType
<1>3. /\ SchemaOf(s)[1] = "drop" /\ SchemaOf(s)[2] = "index" /\ SchemaOf(s)[3] = "await" /\ SchemaOf(s)[4] = "versions"
      /\ SchemaOf(s)[5] = "unsized" /\ SchemaOf(s)[6] = "sizes" /\ SchemaOf(s)[7] = "files" /\ SchemaOf(s)[8] = "rebuild"
  BY <1>1
<1> QED
  BY <1>2, <1>3 DEF Done, AtStatement, InSchema

LEMMA Order ==
    ASSUME NEW s, s \in State
    PROVE  /\ AtStatement(s, "stats") => Done(s, "mark")
           /\ AtStatement(s, "mark") => ~Done(s, "rebuild") /\ ~Done(s, "unsized") /\ ~Done(s, "sizes") /\ ~Done(s, "stats")
           /\ AtStatement(s, "unsized") => ~Done(s, "rebuild") /\ ~Done(s, "sizes")
           /\ AtStatement(s, "sizes") => Done(s, "unsized") /\ ~Done(s, "rebuild")
           /\ AtStatement(s, "index") => Done(s, "drop")
           /\ AtStatement(s, "rebuild") => Done(s, "sizes") /\ (s.provider = "neo4j" \/ Done(s, "stats"))
           /\ AtStatement(s, "await") => s.provider = "neo4j"
           /\ AtStatement(s, "drop") => ~Done(s, "await") /\ ~Done(s, "index")
           /\ AtStatement(s, "index") => ~Done(s, "await")
<1>1. s.provider \in {"kuzu", "neo4j"} /\ s.run.step \in Nat
  BY DEF State, RunType
<1>2. CASE s.provider = "kuzu"
  <2>1. ~AtStatement(s, "await")
    <3>1. SchemaOf(s) = <<"documents", "columns", "texts", "metadata", "mark", "stats", "unsized", "sizes",
              "files", "drop", "index",
           "versions", "rebuild">>
      BY <1>2 DEF SchemaOf, Lexical!ensureSchema
    <3> QED
      BY <3>1 DEF AtStatement, InSchema
  <2> QED
    BY <1>1, <1>2, <2>1, KuzuOrder DEF AtStatement
<1>3. CASE s.provider = "neo4j"
  <2>1. ~AtStatement(s, "stats") /\ ~AtStatement(s, "mark")
    <3>1. SchemaOf(s) = <<"drop", "index", "await", "versions", "unsized", "sizes", "files", "rebuild">>
      BY <1>3 DEF SchemaOf, Lexical!ensureSchema
    <3> QED
      BY <3>1 DEF AtStatement, InSchema
  <2> QED
    BY <1>1, <1>3, <2>1, Neo4jOrder
<1> QED
  BY <1>1, <1>2, <1>3

LEMMA AdvanceFollows ==
    ASSUME NEW s, NEW u, NEW name, AtStatement(s, name), u \in State, u.provider = s.provider, u.run = s.run
    PROVE  Follows(s, Lexical!Advance(u), name)
BY Advanced DEF Follows, AtStatement

\* Statements that leave alone the documents, the statistics and the versions.
LEMMA StatsStep ==
    ASSUME NEW s, NEW u, NEW name, LexicalInv(s), AtStatement(s, name),
           u \in State, u.provider = s.provider, u.run = s.run, u.docs = s.docs,
           u.stats = s.stats, u.meta.stats = s.meta.stats, "stats" \in u.tables <=> "stats" \in s.tables,
           name \notin {"mark", "unsized", "sizes", "rebuild"}
    PROVE  StatsKept(Lexical!Advance(u))
<1> DEFINE t == Lexical!Advance(u)
<1>1. /\ Follows(s, t, name) /\ t.docs = s.docs /\ t.stats = s.stats /\ t.meta.stats = s.meta.stats
      /\ "stats" \in t.tables <=> "stats" \in s.tables
  BY AdvanceFollows, Advanced
<1> HIDE DEF t
<1>2. SameSizes(s, t)
  BY <1>1, SameDocs
<1>3. StatsKept(t)
  BY <1>1, <1>2, StatsFollow
<1> QED
  BY <1>3 DEF t

LEMMA CreateDocumentsKeeps ==
    ASSUME Lexical!FilesAssumption, NEW s, LexicalInv(s), AtStatement(s, "documents")
    PROVE  LexicalInv(Lexical!Advance(Lexical!CreateDocuments(s)))
<1> DEFINE u == Lexical!CreateDocuments(s)
<1>0. s \in State
  BY DEF LexicalInv
<1>1. /\ u \in State /\ u.provider = s.provider /\ u.run = s.run /\ u.tables = s.tables \union {"documents"}
      /\ u.docs = s.docs /\ u.indexes = s.indexes /\ u.stats = s.stats /\ u.meta = s.meta
  <2>1. CASE "documents" \in s.tables
    BY <1>0, <2>1 DEF Lexical!CreateDocuments
  <2>2. CASE "documents" \notin s.tables
    <3> DEFINE tt == s.tables \union {"documents"}
               cc == Lexical!AllColumns
    <3>1. tt \in SUBSET AllTables /\ cc \in SUBSET Lexical!AllColumns
      BY <1>0 DEF State, AllTables
    <3>2. u = [s EXCEPT !.tables = tt, !.columns = cc]
      BY <2>2 DEF Lexical!CreateDocuments
    <3> HIDE DEF tt, cc, u
    <3>3. /\ u \in State /\ u.provider = s.provider /\ u.run = s.run /\ u.tables = tt
          /\ u.docs = s.docs /\ u.indexes = s.indexes /\ u.stats = s.stats /\ u.meta = s.meta
      BY <1>0, <3>1, <3>2 DEF State
    <3> QED
      BY <3>3 DEF tt
  <2> QED
    BY <2>1, <2>2
<1> HIDE DEF u
<1>3. StatsKept(Lexical!Advance(u))
  BY <1>1, StatsStep
<1>4. LexicalInv(Lexical!Advance(u))
  BY <1>1, <1>3, TablesStep DEF AtStatement
<1> QED
  BY <1>4 DEF u

LEMMA CreateMetadataKeeps ==
    ASSUME Lexical!FilesAssumption, NEW s, LexicalInv(s), AtStatement(s, "metadata")
    PROVE  LexicalInv(Lexical!Advance(Lexical!CreateMetadata(s)))
<1> DEFINE u == Lexical!CreateMetadata(s)
<1>0. s \in State
  BY DEF LexicalInv
<1>1. /\ u \in State /\ u.provider = s.provider /\ u.run = s.run /\ u.tables = s.tables \union {"metadata"}
      /\ u.docs = s.docs /\ u.indexes = s.indexes /\ u.stats = s.stats /\ u.meta = s.meta
  <2> DEFINE tt == s.tables \union {"metadata"}
  <2>1. tt \in SUBSET AllTables
    BY <1>0 DEF State, AllTables
  <2>2. u = [s EXCEPT !.tables = tt]
    BY DEF Lexical!CreateMetadata
  <2> HIDE DEF tt, u
  <2>3. /\ u \in State /\ u.provider = s.provider /\ u.run = s.run /\ u.tables = tt
        /\ u.docs = s.docs /\ u.indexes = s.indexes /\ u.stats = s.stats /\ u.meta = s.meta
    BY <1>0, <2>1, <2>2 DEF State
  <2> QED
    BY <2>3 DEF tt
<1> HIDE DEF u
<1>3. StatsKept(Lexical!Advance(u))
  BY <1>1, StatsStep
<1>4. LexicalInv(Lexical!Advance(u))
  BY <1>1, <1>3, TablesStep DEF AtStatement
<1> QED
  BY <1>4 DEF u

LEMMA ColumnsKeep ==
    ASSUME Lexical!FilesAssumption, NEW s, LexicalInv(s), AtStatement(s, "columns")
    PROVE  LexicalInv(Lexical!Advance(s))
<1>1. s \in State
  BY DEF LexicalInv
<1>2. StatsKept(Lexical!Advance(s))
  BY <1>1, StatsStep
<1>3. InSchema(s) /\ SchemaOf(s)[s.run.step] = "columns"
  BY DEF AtStatement
<1> QED
  BY <1>1, <1>2, <1>3, TablesStep DEF AllTables

\* Marking takes nothing away: what is not current is nobody's promise.
LEMMA MarkFields ==
    ASSUME NEW s, s \in State
    PROVE  LET u == Lexical!markStatsIncomplete(s)
           IN  /\ u \in State /\ u.provider = s.provider /\ u.run = s.run /\ u.tables = s.tables
               /\ u.docs = s.docs /\ u.indexes = s.indexes /\ u.stats = s.stats
               /\ u.meta.stats = "incomplete" /\ u.meta.projection = s.meta.projection
<1> DEFINE m == [s.meta EXCEPT !.stats = "incomplete"]
<1>1. /\ m \in [projection : Versions, tokenizer : Versions, stats : {"missing", "incomplete", "current"}]
      /\ m.stats = "incomplete" /\ m.projection = s.meta.projection
  BY DEF State
<1>2. Lexical!markStatsIncomplete(s) = [s EXCEPT !.meta = m]
  BY DEF Lexical!markStatsIncomplete
<1> HIDE DEF m
<1> QED
  BY <1>1, <1>2 DEF State

LEMMA MarkKeeps ==
    ASSUME Lexical!FilesAssumption, NEW s, NEW name, LexicalInv(s), AtStatement(s, name),
           name \in {"mark", "unsized"}
    PROVE  LexicalInv(Lexical!Advance(Lexical!markStatsIncomplete(s)))
<1> DEFINE u == Lexical!markStatsIncomplete(s)
<1>0. s \in State
  BY DEF LexicalInv
<1>1. /\ u \in State /\ u.provider = s.provider /\ u.run = s.run /\ u.tables = s.tables
      /\ u.docs = s.docs /\ u.indexes = s.indexes /\ u.stats = s.stats
      /\ u.meta.stats = "incomplete" /\ u.meta.projection = s.meta.projection
  BY <1>0, MarkFields
<1> HIDE DEF u
<1> DEFINE t == Lexical!Advance(u)
<1>2. Follows(s, t, name) /\ t.meta.stats = "incomplete"
  BY <1>1, AdvanceFollows, Advanced
<1>3. \A n : Done(t, n) => Done(s, n) \/ n = name
  BY <1>0, <1>2, Following
<1>4. ~Done(s, "rebuild") /\ ~Done(s, "sizes")
  BY <1>0, Order
<1> HIDE DEF t
<1>5. StatsKept(t)
  BY <1>2, <1>3, <1>4 DEF StatsKept
<1>6. LexicalInv(t)
  BY <1>1, <1>5, TablesStep DEF t, AtStatement, AllTables
<1> QED
  BY <1>6 DEF t, u

LEMMA Unchanged ==
    ASSUME Lexical!FilesAssumption, NEW s, NEW name, LexicalInv(s), AtStatement(s, name),
           name \notin {"files", "drop", "index", "await", "versions", "sizes", "rebuild"},
           name \in AllTables => name \in s.tables,
           name = "mark" => "stats" \in s.tables,
           name = "unsized" => Lexical!Sizeless(s) = {}
    PROVE  LexicalInv(Lexical!Advance(s))
<1> DEFINE t == Lexical!Advance(s)
<1>0. s \in State
  BY DEF LexicalInv
<1>1. /\ Follows(s, t, name) /\ t.docs = s.docs /\ t.stats = s.stats /\ t.meta = s.meta /\ t.tables = s.tables
  BY <1>0, AdvanceFollows, Advanced
<1>2. \A n : Done(t, n) => Done(s, n) \/ n = name
  BY <1>0, <1>1, Following
<1> HIDE DEF t
<1>3. Lexical!Counted(t) = Lexical!Counted(s) /\ Lexical!Sizeless(t) = Lexical!Sizeless(s)
  BY <1>1, SameDocs, SameSizesCount
<1>4. StatsKept(t)
  BY <1>1, <1>2, <1>3 DEF LexicalInv, StatsKept
<1>5. LexicalInv(t)
  BY <1>0, <1>4, TablesStep DEF t, AtStatement
<1> QED
  BY <1>5 DEF t

LEMMA InvalidateMissingKeeps ==
    ASSUME Lexical!FilesAssumption, NEW s, LexicalInv(s), AtStatement(s, "mark")
    PROVE  LexicalInv(Lexical!Advance(Lexical!InvalidateMissing(s)))
<1>1. CASE "stats" \in s.tables
  BY <1>1, Unchanged DEF Lexical!InvalidateMissing, AllTables
<1>2. CASE "stats" \notin s.tables
  BY <1>2, MarkKeeps DEF Lexical!InvalidateMissing
<1> QED
  BY <1>1, <1>2

LEMMA InvalidateUnsizedKeeps ==
    ASSUME Lexical!FilesAssumption, NEW s, LexicalInv(s), AtStatement(s, "unsized")
    PROVE  LexicalInv(Lexical!Advance(Lexical!InvalidateUnsized(s)))
<1>1. CASE Lexical!Sizeless(s) = {}
  BY <1>1, Unchanged DEF Lexical!InvalidateUnsized, AllTables
<1>2. CASE Lexical!Sizeless(s) # {}
  BY <1>2, MarkKeeps DEF Lexical!InvalidateUnsized
<1> QED
  BY <1>1, <1>2

\* A new table counts nothing, and is not trusted.
LEMMA CreateStatsKeeps ==
    ASSUME Lexical!FilesAssumption, NEW s, LexicalInv(s), AtStatement(s, "stats")
    PROVE  LexicalInv(Lexical!Advance(Lexical!CreateStats(s)))
<1>0. s \in State
  BY DEF LexicalInv
<1>1. CASE "stats" \in s.tables
  BY <1>1, Unchanged DEF Lexical!CreateStats, AllTables
<1>2. CASE "stats" \notin s.tables
  <2> DEFINE u == Lexical!CreateStats(s)
             tt == s.tables \union {"stats"}
  <2>1. tt \in SUBSET AllTables /\ Lexical!NoStats \in [count : Int, bytes : Int] /\ "stats" \in tt /\ s.tables \subseteq tt
    BY <1>0 DEF State, AllTables, Lexical!NoStats
  <2>2. u = [s EXCEPT !.tables = tt, !.stats = Lexical!NoStats]
    BY <1>2 DEF Lexical!CreateStats
  <2> HIDE DEF tt, u
  <2>3. /\ u \in State /\ u.provider = s.provider /\ u.run = s.run /\ u.tables = tt
        /\ u.docs = s.docs /\ u.indexes = s.indexes /\ u.meta = s.meta
    BY <1>0, <2>1, <2>2 DEF State
  <2> DEFINE t == Lexical!Advance(u)
  <2>4. Follows(s, t, "stats") /\ t.docs = s.docs /\ t.meta = s.meta /\ t.tables = tt
    BY <2>3, AdvanceFollows, Advanced
  <2>5. \A n : Done(t, n) => Done(s, n) \/ n = "stats"
    BY <1>0, <2>4, Following
  <2>6. Done(s, "mark") /\ s.meta.stats # "current"
    BY <1>0, <1>2, Order DEF LexicalInv, StatsKept
  <2> HIDE DEF t
  <2>7. Lexical!Sizeless(t) = Lexical!Sizeless(s)
    BY <2>4, SameDocs, SameSizesCount
  <2>8. StatsKept(t)
    BY <2>4, <2>5, <2>6, <2>7 DEF LexicalInv, StatsKept
  <2>9. LexicalInv(t)
    BY <2>1, <2>3, <2>8, TablesStep DEF t, AtStatement
  <2> QED
    BY <2>9 DEF t, u
<1> QED
  BY <1>1, <1>2
-----------------------------------------------------------------------------
(* Statements that fill in what documents lack. *)

LEMMA DocsStep ==
    ASSUME Lexical!FilesAssumption, NEW s, NEW docs, NEW name, LexicalInv(s), AtStatement(s, name),
           docs \in [DOMAIN s.docs -> DocType], SameTexts(s, [s EXCEPT !.docs = docs]),
           name \notin {"drop", "index", "await", "versions"} \union AllTables,
           DocsKept(Lexical!Advance([s EXCEPT !.docs = docs])), StatsKept(Lexical!Advance([s EXCEPT !.docs = docs]))
    PROVE  LexicalInv(Lexical!Advance([s EXCEPT !.docs = docs]))
<1> DEFINE u == [s EXCEPT !.docs = docs]
           t == Lexical!Advance(u)
<1>0. s \in State /\ docs \in Docs
  BY DEF LexicalInv, State, Docs
<1>1. /\ u \in State /\ u.provider = s.provider /\ u.run = s.run /\ u.tables = s.tables
      /\ u.docs = docs /\ u.indexes = s.indexes /\ u.stats = s.stats /\ u.meta = s.meta
  BY <1>0 DEF State
<1>2. SameTexts(s, u) /\ DocsKept(t) /\ StatsKept(t)
  OBVIOUS
<1> HIDE DEF u
<1>3. /\ t \in State /\ Follows(s, t, name) /\ t.tables = s.tables /\ t.docs = u.docs /\ t.indexes = s.indexes
      /\ t.meta = s.meta
  BY <1>1, AdvanceFollows, Advanced
<1> HIDE DEF t
<1>4. TablesKept(t)
  <2>1. s.tables \subseteq t.tables /\ t.tables \subseteq AllTables
    BY <1>0, <1>3 DEF State
  <2> QED
    BY <1>3, <2>1, TablesFollow
<1>5. IndexesKept(t)
  BY <1>3, IndexesFollow
<1>6. SameTexts(s, t)
  BY <1>2, <1>3 DEF SameTexts
<1>7. TextsKept(t)
  BY <1>3, <1>6, TextsFollow
<1>8. RunKept(t)
  BY <1>3, RunFollows
<1> QED
  BY <1>2, <1>3, <1>4, <1>5, <1>7, <1>8 DEF t, u, LexicalInv

LEMMA FillTextsKeeps ==
    ASSUME Lexical!FilesAssumption, NEW s, LexicalInv(s), AtStatement(s, "texts")
    PROVE  LexicalInv(Lexical!Advance(Lexical!FillTexts(s)))
<1> DEFINE docs == [d \in DOMAIN s.docs |-> IF s.docs[d].text = Lexical!Null
          THEN [s.docs[d] EXCEPT !.text = Lexical!Earlier] ELSE s.docs[d]]
           u == [s EXCEPT !.docs = docs]
           t == Lexical!Advance(u)
<1>0. s \in State /\ s.docs \in Docs
  BY DEF LexicalInv, State
<1>1. s.docs \in [DOMAIN s.docs -> DocType]
  BY <1>0 DEF Docs
<1>2. \A d \in DOMAIN s.docs :
         /\ docs[d] \in DocType /\ docs[d].file = s.docs[d].file /\ docs[d].fileId = s.docs[d].fileId
         /\ docs[d].active = s.docs[d].active /\ docs[d].size = s.docs[d].size
         /\ s.docs[d].text = Lexical!Today => docs[d].text = Lexical!Today
  <2> TAKE d \in DOMAIN s.docs
  <2>1. s.docs[d] \in DocType
    BY <1>1
  <2>2. docs[d] = IF s.docs[d].text = Lexical!Null THEN [s.docs[d] EXCEPT !.text = Lexical!Earlier] ELSE s.docs[d]
    OBVIOUS
  <2> QED
    BY <2>1, <2>2 DEF DocType, Lexical!Null, Lexical!Earlier, Lexical!Today
<1>3. Lexical!FillTexts(s) = u
  BY DEF Lexical!FillTexts
<1>4. docs \in [DOMAIN s.docs -> DocType] /\ DOMAIN docs = DOMAIN s.docs
  BY <1>2
<1> HIDE DEF docs
<1>5. /\ u \in State /\ u.provider = s.provider /\ u.run = s.run /\ u.tables = s.tables
      /\ u.docs = docs /\ u.stats = s.stats /\ u.meta = s.meta
  BY <1>0, <1>4 DEF State, Docs
<1> HIDE DEF u
<1>6. /\ Follows(s, t, "texts") /\ t.docs = docs /\ t.stats = s.stats /\ t.meta = s.meta /\ t.tables = s.tables
  BY <1>5, AdvanceFollows, Advanced
<1> HIDE DEF t
<1>7. SameSizes(s, t) /\ SameTexts(s, u)
  BY <1>2, <1>4, <1>5, <1>6 DEF SameSizes, SameTexts
<1>8. StatsKept(t)
  BY <1>6, <1>7, StatsFollow
<1>9. DocsKept(t)
  <2>1. Done(t, "files") => Done(s, "files")
    BY <1>0, <1>6, Following
  <2> QED
    BY <1>2, <1>4, <1>6, <2>1 DEF LexicalInv, DocsKept
<1>10. LexicalInv(t)
  BY <1>4, <1>7, <1>8, <1>9, DocsStep DEF t, u, AllTables
<1> QED
  BY <1>3, <1>10 DEF t

\* Sizes are filled in, and perhaps texts.
Sized(s, docs) ==
    /\ docs \in [DOMAIN s.docs -> DocType]
    /\ \A d \in DOMAIN s.docs :
          /\ docs[d].file = s.docs[d].file /\ docs[d].fileId = s.docs[d].fileId /\ docs[d].active = s.docs[d].active
          /\ s.docs[d].text = Lexical!Today => docs[d].text = Lexical!Today
          /\ s.docs[d].size # Lexical!Unsized => docs[d].size = s.docs[d].size
          /\ docs[d].size # Lexical!Unsized

LEMMA SizedKeeps ==
    ASSUME Lexical!FilesAssumption, NEW s, NEW docs, LexicalInv(s), AtStatement(s, "sizes"), Sized(s, docs)
    PROVE  LexicalInv(Lexical!Advance([s EXCEPT !.docs = docs]))
<1> DEFINE u == [s EXCEPT !.docs = docs]
           t == Lexical!Advance(u)
<1>0. s \in State /\ docs \in [DOMAIN s.docs -> DocType] /\ s.docs \in Docs
  BY DEF LexicalInv, State, Sized
<1>1. /\ u \in State /\ u.provider = s.provider /\ u.run = s.run /\ u.tables = s.tables
      /\ u.docs = docs /\ u.stats = s.stats /\ u.meta = s.meta
  BY <1>0 DEF State, Docs
<1> HIDE DEF u
<1>2. /\ Follows(s, t, "sizes") /\ t.docs = docs /\ t.stats = s.stats /\ t.meta = s.meta /\ t.tables = s.tables
  BY <1>1, AdvanceFollows, Advanced
<1> HIDE DEF t
<1>3. \A n : Done(t, n) => Done(s, n) \/ n = "sizes"
  BY <1>0, <1>2, Following
<1>4. Done(s, "unsized") /\ ~Done(s, "rebuild")
  BY <1>0, Order
<1>5. Lexical!Sizeless(t) = {}
  BY <1>0, <1>2 DEF Lexical!Sizeless, Sized
<1>6. ASSUME Lexical!Sizeless(s) = {} PROVE Lexical!Counted(t) = Lexical!Counted(s)
  <2>1. SameSizes(s, t)
    BY <1>0, <1>2, <1>6 DEF SameSizes, Sized, Lexical!Sizeless
  <2> QED
    BY <2>1, SameSizesCount
<1>7. StatsKept(t)
  BY <1>2, <1>3, <1>4, <1>5, <1>6 DEF LexicalInv, StatsKept
<1>8. DocsKept(t)
  BY <1>0, <1>2, <1>3 DEF LexicalInv, DocsKept, Sized
<1>9. SameTexts(s, u)
  BY <1>0, <1>1 DEF SameTexts, Sized
<1>10. LexicalInv(t)
  BY <1>0, <1>7, <1>8, <1>9, DocsStep DEF t, u, AllTables
<1> QED
  BY <1>10 DEF t, u

LEMMA KuzuSizesKeep ==
    ASSUME Lexical!FilesAssumption, NEW s, LexicalInv(s), AtStatement(s, "sizes")
    PROVE  LexicalInv(Lexical!Advance(Lexical!migrateFtsSizes(s)))
<1> DEFINE docs == [d \in DOMAIN s.docs |-> IF d \in Lexical!Sizeless(s)
          THEN [s.docs[d] EXCEPT !.size = s.docs[d].text] ELSE s.docs[d]]
<1>1. s.docs \in [DOMAIN s.docs -> DocType]
  BY DEF LexicalInv, State, Docs
<1>2. ASSUME NEW d \in DOMAIN s.docs
      PROVE  /\ docs[d] \in DocType
             /\ docs[d].file = s.docs[d].file /\ docs[d].fileId = s.docs[d].fileId /\ docs[d].active = s.docs[d].active
             /\ docs[d].text = s.docs[d].text
             /\ s.docs[d].size # Lexical!Unsized => docs[d].size = s.docs[d].size
             /\ docs[d].size # Lexical!Unsized
  <2>1. s.docs[d] \in DocType
    BY <1>1
  <2>2. docs[d] = IF s.docs[d].size = Lexical!Unsized THEN [s.docs[d] EXCEPT !.size = s.docs[d].text] ELSE s.docs[d]
    BY DEF Lexical!Sizeless
  <2> QED
    BY <2>1, <2>2 DEF DocType, Lexical!Unsized
<1>3. Sized(s, docs)
  BY <1>2 DEF Sized
<1>4. Lexical!migrateFtsSizes(s) = [s EXCEPT !.docs = docs]
  BY DEF Lexical!migrateFtsSizes
<1> HIDE DEF docs
<1> QED
  BY <1>3, <1>4, SizedKeeps

LEMMA Neo4jSizesKeep ==
    ASSUME Lexical!FilesAssumption, NEW s, LexicalInv(s), AtStatement(s, "sizes")
    PROVE  LexicalInv(Lexical!Advance(Lexical!migratePayloadSizes(s)))
<1> DEFINE texts == [d \in DOMAIN s.docs |-> IF s.docs[d].text = Lexical!Null
          THEN [s.docs[d] EXCEPT !.text = Lexical!Earlier] ELSE s.docs[d]]
           u == [s EXCEPT !.docs = texts]
           docs == [d \in DOMAIN s.docs |-> IF d \in Lexical!Sizeless(u)
                     THEN [texts[d] EXCEPT !.size = texts[d].text] ELSE texts[d]]
<1>0. s \in State
  BY DEF LexicalInv
<1>1. s.docs \in [DOMAIN s.docs -> DocType]
  BY DEF LexicalInv, State, Docs
<1>2. Lexical!FillTexts(s) = u
  BY DEF Lexical!FillTexts
<1>3. u.docs = texts
  BY <1>0 DEF State
<1>4. ASSUME NEW d \in DOMAIN s.docs
      PROVE  /\ texts[d] \in DocType
             /\ texts[d].file = s.docs[d].file /\ texts[d].fileId = s.docs[d].fileId /\ texts[d].active = s.docs[d].active
             /\ s.docs[d].text = Lexical!Today => texts[d].text = Lexical!Today
             /\ texts[d].size = s.docs[d].size
  <2>1. s.docs[d] \in DocType
    BY <1>1
  <2>2. texts[d] = IF s.docs[d].text = Lexical!Null THEN [s.docs[d] EXCEPT !.text = Lexical!Earlier] ELSE s.docs[d]
    OBVIOUS
  <2> QED
    BY <2>1, <2>2 DEF DocType, Lexical!Null, Lexical!Earlier, Lexical!Today
<1>5. DOMAIN texts = DOMAIN s.docs
  OBVIOUS
<1> HIDE DEF texts
<1>6. Lexical!migratePayloadSizes(s) = [s EXCEPT !.docs = docs]
  <2>1. Lexical!migratePayloadSizes(s) = [u EXCEPT !.docs =
            [d \in DOMAIN u.docs |-> IF d \in Lexical!Sizeless(u)
                      THEN [u.docs[d] EXCEPT !.size = u.docs[d].text] ELSE u.docs[d]]]
    BY <1>2 DEF Lexical!migratePayloadSizes, Lexical!migrateFtsSizes
  <2>2. [d \in DOMAIN u.docs |-> IF d \in Lexical!Sizeless(u)
            THEN [u.docs[d] EXCEPT !.size = u.docs[d].text] ELSE u.docs[d]] = docs
    BY <1>3, <1>5
  <2> HIDE DEF docs
  <2>3. Lexical!migratePayloadSizes(s) = [[s EXCEPT !.docs = texts] EXCEPT !.docs = docs]
    BY <2>1, <2>2
  <2> QED
    BY <1>0, <2>3 DEF State
<1>7. ASSUME NEW d \in DOMAIN s.docs
      PROVE  /\ docs[d] \in DocType
             /\ docs[d].file = s.docs[d].file /\ docs[d].fileId = s.docs[d].fileId /\ docs[d].active = s.docs[d].active
             /\ s.docs[d].text = Lexical!Today => docs[d].text = Lexical!Today
             /\ s.docs[d].size # Lexical!Unsized => docs[d].size = s.docs[d].size
             /\ docs[d].size # Lexical!Unsized
  <2>1. texts[d] \in DocType
    BY <1>4
  <2>2. docs[d] = IF texts[d].size = Lexical!Unsized THEN [texts[d] EXCEPT !.size = texts[d].text] ELSE texts[d]
    BY <1>3, <1>5 DEF Lexical!Sizeless
  <2>3. /\ docs[d] \in DocType
        /\ docs[d].file = texts[d].file /\ docs[d].fileId = texts[d].fileId /\ docs[d].active = texts[d].active
        /\ docs[d].text = texts[d].text
        /\ texts[d].size # Lexical!Unsized => docs[d].size = texts[d].size
        /\ docs[d].size # Lexical!Unsized
    BY <2>1, <2>2 DEF DocType, Lexical!Unsized
  <2> QED
    BY <1>4, <2>3
<1>8. Sized(s, docs)
  BY <1>7 DEF Sized
<1> HIDE DEF docs
<1> QED
  BY <1>6, <1>8, SizedKeeps

LEMMA FileIdsKeep ==
    ASSUME Lexical!FilesAssumption, NEW s, LexicalInv(s), AtStatement(s, "files")
    PROVE  LexicalInv(Lexical!Advance(Lexical!migrateFileIds(s)))
<1> DEFINE docs == [d \in DOMAIN s.docs |-> IF s.docs[d].fileId = 0
          THEN [s.docs[d] EXCEPT !.fileId = s.docs[d].file] ELSE s.docs[d]]
           u == [s EXCEPT !.docs = docs]
           t == Lexical!Advance(u)
<1>0. s \in State /\ s.docs \in Docs
  BY DEF LexicalInv, State
<1>1. s.docs \in [DOMAIN s.docs -> DocType]
  BY <1>0 DEF Docs
<1>2. \A d \in DOMAIN s.docs :
         /\ docs[d] \in DocType /\ docs[d].file = s.docs[d].file /\ docs[d].fileId = FileOf[d]
         /\ docs[d].active = s.docs[d].active /\ docs[d].size = s.docs[d].size /\ docs[d].text = s.docs[d].text
  <2> TAKE d \in DOMAIN s.docs
  <2>1. s.docs[d] \in DocType /\ s.docs[d].file = FileOf[d] /\ s.docs[d].fileId \in {0, FileOf[d]}
    BY <1>1 DEF LexicalInv, DocsKept
  <2>2. docs[d] = IF s.docs[d].fileId = 0 THEN [s.docs[d] EXCEPT !.fileId = s.docs[d].file] ELSE s.docs[d]
    OBVIOUS
  <2> QED
    BY <2>1, <2>2 DEF DocType
<1>3. Lexical!migrateFileIds(s) = u
  BY DEF Lexical!migrateFileIds
<1>4. docs \in [DOMAIN s.docs -> DocType] /\ DOMAIN docs = DOMAIN s.docs
  BY <1>2
<1> HIDE DEF docs
<1>5. /\ u \in State /\ u.provider = s.provider /\ u.run = s.run /\ u.tables = s.tables
      /\ u.docs = docs /\ u.stats = s.stats /\ u.meta = s.meta
  BY <1>0, <1>4 DEF State, Docs
<1> HIDE DEF u
<1>6. /\ Follows(s, t, "files") /\ t.docs = docs /\ t.stats = s.stats /\ t.meta = s.meta /\ t.tables = s.tables
  BY <1>5, AdvanceFollows, Advanced
<1> HIDE DEF t
<1>7. SameSizes(s, t) /\ SameTexts(s, u)
  BY <1>2, <1>4, <1>5, <1>6 DEF SameSizes, SameTexts
<1>8. StatsKept(t)
  BY <1>6, <1>7, StatsFollow
<1>9. DocsKept(t)
  BY <1>2, <1>4, <1>6 DEF LexicalInv, DocsKept
<1>10. LexicalInv(t)
  BY <1>4, <1>7, <1>8, <1>9, DocsStep DEF t, u, AllTables
<1> QED
  BY <1>3, <1>10 DEF t
-----------------------------------------------------------------------------
(* Indexes, versions and the statistics of the whole workspace. *)

LEMMA IndexStep ==
    ASSUME Lexical!FilesAssumption, NEW s, NEW indexes, NEW name, LexicalInv(s), AtStatement(s, name),
           indexes \in SUBSET IndexType, name \in {"drop", "index", "await"},
           IndexesKept(Lexical!Advance([s EXCEPT !.indexes = indexes]))
    PROVE  LexicalInv(Lexical!Advance([s EXCEPT !.indexes = indexes]))
<1> DEFINE u == [s EXCEPT !.indexes = indexes]
           t == Lexical!Advance(u)
<1>0. s \in State /\ name \notin {"files", "versions"} \union {"mark", "unsized", "sizes", "rebuild"} \union AllTables
  BY DEF LexicalInv, AllTables
<1>1. /\ u \in State /\ u.provider = s.provider /\ u.run = s.run /\ u.tables = s.tables
      /\ u.docs = s.docs /\ u.stats = s.stats /\ u.meta = s.meta
  BY <1>0 DEF State
<1>2. IndexesKept(t)
  OBVIOUS
<1> HIDE DEF u
<1>3. /\ t \in State /\ Follows(s, t, name) /\ t.tables = s.tables /\ t.docs = s.docs /\ t.meta = s.meta
  BY <1>1, AdvanceFollows, Advanced
<1>4. StatsKept(t)
  BY <1>0, <1>1, StatsStep
<1> HIDE DEF t
<1>5. TablesKept(t)
  <2>1. s.tables \subseteq t.tables /\ t.tables \subseteq AllTables
    BY <1>0, <1>3 DEF State
  <2> QED
    BY <1>0, <1>3, <2>1, TablesFollow
<1>6. DocsKept(t)
  BY <1>0, <1>3, DocsFollow
<1>7. TextsKept(t)
  BY <1>0, <1>3, SameDocs, TextsFollow
<1>8. RunKept(t)
  BY <1>3, RunFollows
<1> QED
  BY <1>2, <1>3, <1>4, <1>5, <1>6, <1>7, <1>8 DEF t, u, LexicalInv

LEMMA IndexAdvance ==
    ASSUME NEW s, NEW indexes, NEW name, LexicalInv(s), AtStatement(s, name), indexes \in SUBSET IndexType
    PROVE  LET t == Lexical!Advance([s EXCEPT !.indexes = indexes])
           IN  t.indexes = indexes /\ t.provider = s.provider /\ (\A n : Done(t, n) => Done(s, n) \/ n = name)
<1> DEFINE u == [s EXCEPT !.indexes = indexes]
           t == Lexical!Advance(u)
<1>0. s \in State
  BY DEF LexicalInv
<1>1. u \in State /\ u.provider = s.provider /\ u.run = s.run /\ u.indexes = indexes
  BY <1>0 DEF State
<1> HIDE DEF u
<1>2. Follows(s, t, name) /\ t.indexes = indexes /\ t.provider = s.provider
  BY <1>1, AdvanceFollows, Advanced
<1> HIDE DEF t
<1>3. \A n : Done(t, n) => Done(s, n) \/ n = name
  BY <1>0, <1>2, Following
<1> QED
  BY <1>2, <1>3 DEF t, u

LEMMA SameIndexes ==
    ASSUME NEW s, s \in State
    PROVE  [s EXCEPT !.indexes = s.indexes] = s
BY DEF State

LEMMA DropIndexKeeps ==
    ASSUME Lexical!FilesAssumption, NEW s, LexicalInv(s), AtStatement(s, "drop"), Lexical!Unexpected(s) = {}
    PROVE  LexicalInv(Lexical!Advance(s))
<1>0. s \in State /\ s.indexes \in SUBSET IndexType
  BY DEF LexicalInv, State
<1> DEFINE t == Lexical!Advance([s EXCEPT !.indexes = s.indexes])
<1>1. t.indexes = s.indexes /\ t.provider = s.provider /\ (\A n : Done(t, n) => Done(s, n) \/ n = "drop")
  BY <1>0, IndexAdvance
<1>2. ~Done(s, "await") /\ ~Done(s, "index")
  BY <1>0, Order
<1> HIDE DEF t
<1>3. IndexesKept(t)
  BY <1>1, <1>2 DEF LexicalInv, IndexesKept, Lexical!Unexpected
<1>4. LexicalInv(t)
  BY <1>0, <1>3, IndexStep DEF t
<1> QED
  BY <1>0, <1>4, SameIndexes DEF t

LEMMA ExpectedIndex ==
    ASSUME NEW index \in IndexType
    PROVE  Lexical!Expected(index) <=> index = Lexical!Index("workspace", TRUE, index.state)
BY DEF IndexType, Lexical!Expected, Lexical!Index

LEMMA CreateIndexKeeps ==
    ASSUME Lexical!FilesAssumption, NEW s, LexicalInv(s), AtStatement(s, "index")
    PROVE  LexicalInv(Lexical!Advance(Lexical!CreateIndex(s)))
<1> DEFINE new == Lexical!Index("workspace", TRUE, IF s.provider = "kuzu" THEN "ONLINE" ELSE "POPULATING")
           indexes == IF \E index \in s.indexes : Lexical!Expected(index) THEN s.indexes ELSE s.indexes \union {new}
           t == Lexical!Advance([s EXCEPT !.indexes = indexes])
<1>0. s \in State /\ s.indexes \in SUBSET IndexType
  BY DEF LexicalInv, State
<1>1. new \in IndexType /\ Lexical!Expected(new) /\ (s.provider = "kuzu" =>
          new = Lexical!Index("workspace", TRUE, "ONLINE"))
  BY DEF Lexical!Index, IndexType, Lexical!Expected
<1>2. Lexical!CreateIndex(s) = [s EXCEPT !.indexes = indexes]
  BY <1>0, SameIndexes DEF Lexical!CreateIndex
<1>3. Done(s, "drop") /\ ~Done(s, "await")
  BY <1>0, Order
<1>4. \A index \in s.indexes : Lexical!Expected(index) /\ (s.provider = "kuzu" => index.state = "ONLINE")
  BY <1>3 DEF LexicalInv, IndexesKept
<1>5. \A index \in s.indexes : s.provider = "kuzu" => index = Lexical!Index("workspace", TRUE, "ONLINE")
  BY <1>0, <1>4, ExpectedIndex
<1>6. Lexical!Index("workspace", TRUE, "ONLINE").state = "ONLINE"
  BY DEF Lexical!Index
<1> HIDE DEF new
<1>7. /\ indexes \in SUBSET IndexType /\ \A index \in indexes : Lexical!Expected(index)
      /\ s.provider = "kuzu" => indexes = {Lexical!Index("workspace", TRUE, "ONLINE")}
  BY <1>0, <1>1, <1>4, <1>5
<1> HIDE DEF indexes
<1>8. t.indexes = indexes /\ t.provider = s.provider /\ (\A n : Done(t, n) => Done(s, n) \/ n = "index")
  BY <1>7, IndexAdvance
<1> HIDE DEF t
<1>9. IndexesKept(t)
  BY <1>3, <1>6, <1>7, <1>8 DEF IndexesKept
<1>10. LexicalInv(t)
  BY <1>7, <1>9, IndexStep DEF t
<1> QED
  BY <1>2, <1>10 DEF t

LEMMA AwaitKeeps ==
    ASSUME Lexical!FilesAssumption, NEW s, LexicalInv(s), AtStatement(s, "await")
    PROVE  LexicalInv(Lexical!Advance([s EXCEPT !.indexes = {Lexical!Index("workspace", TRUE, "ONLINE")}]))
<1> DEFINE indexes == {Lexical!Index("workspace", TRUE, "ONLINE")}
           t == Lexical!Advance([s EXCEPT !.indexes = indexes])
<1>1. /\ indexes \in SUBSET IndexType
      /\ \A index \in indexes : Lexical!Expected(index) /\ index.state = "ONLINE"
  BY DEF Lexical!Index, IndexType, Lexical!Expected
<1> HIDE DEF indexes
<1>2. t.indexes = indexes
  BY <1>1, IndexAdvance
<1> HIDE DEF t
<1>3. IndexesKept(t)
  BY <1>1, <1>2 DEF IndexesKept, indexes
<1>4. LexicalInv(t)
  BY <1>1, <1>3, IndexStep DEF t
<1> QED
  BY <1>4 DEF t, indexes

LEMMA VersionsKeep ==
    ASSUME Lexical!FilesAssumption, NEW s, LexicalInv(s), AtStatement(s, "versions")
    PROVE  LexicalInv(Lexical!Advance(Lexical!ensureVersions(s)))
<1> DEFINE u == Lexical!ensureVersions(s)
           t == Lexical!Advance(u)
           m == u.meta
<1>0. s \in State /\ s.meta \in [projection : Versions, tokenizer : Versions, stats : {"missing", "incomplete", "current"}]
  BY DEF LexicalInv, State
<1> DEFINE new == [projection |-> IF s.meta.projection = "missing" THEN "current" ELSE s.meta.projection,
                   tokenizer |-> IF s.meta.tokenizer = "missing" THEN "current" ELSE s.meta.tokenizer,
                   stats |-> IF s.provider = "neo4j" THEN IF s.meta.stats = "missing" THEN "incomplete"
                             ELSE s.meta.stats ELSE s.meta.stats]
<1>1. u = [s EXCEPT !.meta = new]
  BY DEF Lexical!ensureVersions
<1>2. /\ new \in [projection : Versions, tokenizer : Versions, stats : {"missing", "incomplete", "current"}]
      /\ new.stats = "current" <=> s.meta.stats = "current"
      /\ new.projection # "missing"
      /\ new.projection = "current" => s.meta.projection \in {"missing", "current"}
  BY <1>0 DEF Versions
<1> HIDE DEF new, u
<1>3. /\ u \in State /\ u.provider = s.provider /\ u.run = s.run /\ u.tables = s.tables
      /\ u.docs = s.docs /\ u.stats = s.stats /\ u.meta = new /\ u.indexes = s.indexes
  BY <1>0, <1>1, <1>2 DEF State
<1>4. /\ t \in State /\ Follows(s, t, "versions") /\ t.tables = s.tables /\ t.docs = s.docs /\ t.meta = new
      /\ t.stats = s.stats /\ t.indexes = s.indexes
  BY <1>3, AdvanceFollows, Advanced
<1> HIDE DEF t
<1>5. StatsKept(t)
  <2>1. SameSizes(s, t)
    BY <1>4, SameDocs
  <2>2. t.meta.stats = "current" <=> s.meta.stats = "current"
    BY <1>2, <1>4
  <2> QED
    BY <1>4, <2>1, <2>2, StatsFollow
<1>6. Lexical!Active(t) = Lexical!Active(s)
  BY <1>4 DEF Lexical!Active
<1>7. TextsKept(t)
  BY <1>2, <1>4, <1>6 DEF LexicalInv, TextsKept
<1>8. TablesKept(t)
  <2>1. s.tables \subseteq t.tables /\ t.tables \subseteq AllTables /\ "versions" \notin AllTables
    BY <1>0, <1>4 DEF State, AllTables
  <2> QED
    BY <1>4, <2>1, TablesFollow
<1>9. DocsKept(t) /\ IndexesKept(t)
  BY <1>4, DocsFollow, IndexesFollow
<1>10. RunKept(t)
  BY <1>4, RunFollows
<1> QED
  BY <1>4, <1>5, <1>7, <1>8, <1>9, <1>10 DEF t, u, LexicalInv

LEMMA CountedType ==
    ASSUME Lexical!FilesAssumption, NEW s, s \in State
    PROVE  Lexical!Counted(s) \in [count : Int, bytes : Int] /\ Lexical!Counted(s).count \in Nat
              /\ Lexical!Counted(s).bytes \in Nat
<1>1. Lexical!Cardinality(Lexical!Active(s)) \in Nat /\ Lexical!Bytes(s, Lexical!Active(s)) \in Nat
  BY ActiveIsKnown, BytesFinite
<1> QED
  BY <1>1 DEF Lexical!Counted

LEMMA RebuildKeeps ==
    ASSUME Lexical!FilesAssumption, NEW s, LexicalInv(s), AtStatement(s, "rebuild")
    PROVE  LexicalInv(Lexical!Advance(Lexical!rebuildAllWorkspaceStats(s)))
<1> DEFINE u == Lexical!rebuildAllWorkspaceStats(s)
           t == Lexical!Advance(u)
<1>0. s \in State /\ Lexical!Counted(s) \in [count : Int, bytes : Int]
  BY CountedType DEF LexicalInv
<1>1. Done(s, "sizes") /\ "stats" \in s.tables
  BY <1>0, Order DEF LexicalInv, TablesKept, AllTables
<1>2. /\ u \in State /\ u.provider = s.provider /\ u.run = s.run /\ u.tables = s.tables
      /\ u.docs = s.docs /\ u.indexes = s.indexes /\ u.stats = Lexical!Counted(s)
      /\ u.meta.stats = "current" /\ u.meta.projection = s.meta.projection
  <2>1. CASE s.meta.stats = "current"
    BY <1>0, <1>1, <2>1 DEF Lexical!rebuildAllWorkspaceStats, LexicalInv, StatsKept
  <2>2. CASE s.meta.stats # "current"
    <3> DEFINE m == [s.meta EXCEPT !.stats = "current"]
               c == Lexical!Counted(s)
    <3>1. /\ m \in [projection : Versions, tokenizer : Versions, stats : {"missing", "incomplete", "current"}]
          /\ m.stats = "current" /\ m.projection = s.meta.projection
      BY <1>0 DEF State
    <3>2. u = [s EXCEPT !.stats = c, !.meta = m]
      BY <2>2 DEF Lexical!rebuildAllWorkspaceStats
    <3>3. c \in [count : Int, bytes : Int]
      BY <1>0
    <3> HIDE DEF m, c, u
    <3>4. /\ u \in State /\ u.provider = s.provider /\ u.run = s.run /\ u.tables = s.tables
          /\ u.docs = s.docs /\ u.indexes = s.indexes /\ u.stats = c /\ u.meta = m
      BY <1>0, <3>1, <3>2, <3>3 DEF State
    <3> QED
      BY <3>1, <3>4 DEF c
  <2> QED
    BY <2>1, <2>2
<1> HIDE DEF u
<1>3. /\ t \in State /\ Follows(s, t, "rebuild") /\ t.tables = s.tables /\ t.docs = s.docs /\ t.meta.stats = "current"
      /\ t.stats = Lexical!Counted(s)
  BY <1>2, AdvanceFollows, Advanced
<1> HIDE DEF t
<1>4. \A n : Done(t, n) => Done(s, n) \/ n = "rebuild"
  BY <1>0, <1>3, Following
<1>5. Lexical!Counted(t) = Lexical!Counted(s) /\ Lexical!Sizeless(t) = Lexical!Sizeless(s)
  BY <1>3, SameDocs, SameSizesCount
<1>6. StatsKept(t)
  BY <1>1, <1>3, <1>4, <1>5 DEF LexicalInv, StatsKept
<1>7. LexicalInv(t)
  BY <1>2, <1>6, TablesStep DEF t, AtStatement, AllTables
<1> QED
  BY <1>7 DEF t, u
-----------------------------------------------------------------------------
(* The other steps that write no document. *)

\* What holds wherever a run ended.
Base(s) ==
    /\ \A d \in DOMAIN s.docs : s.docs[d].file = FileOf[d] /\ s.docs[d].fileId \in {0, FileOf[d]}
    /\ s.provider = "neo4j" => s.tables = AllTables
    /\ s.provider = "kuzu" => \A index \in s.indexes : index.state = "ONLINE"
    /\ s.meta.stats = "current" /\ "stats" \in s.tables => s.stats = Lexical!Counted(s)
    /\ s.meta.projection = "current" => \A d \in Lexical!Active(s) : s.docs[d].text = Lexical!Today
    /\ s.meta.projection = "missing" => Lexical!Active(s) = {}

LEMMA InvIsBase ==
    ASSUME NEW s, LexicalInv(s)
    PROVE  s \in State /\ Base(s)
BY DEF LexicalInv, Base, DocsKept, TablesKept, IndexesKept, StatsKept, TextsKept

LEMMA NothingDone ==
    ASSUME NEW s, s \in State, s.run.step \in {0, 1}
    PROVE  \A n : ~Done(s, n)
BY SchemaIsSequence DEF Done

LEMMA SchemaIsLong ==
    ASSUME NEW s, s \in State
    PROVE  Len(SchemaOf(s)) \in {8, 13}
BY SchemaIsSequence DEF State

LEMMA BaseKeeps ==
    ASSUME Lexical!FilesAssumption, NEW s, s \in State, Base(s), s.run.step \in {0, 1},
           s.run.step = 1 =>
               /\ s.run.todo = s.run.repos /\ s.run.alive = {}
               /\ s.run.kind \in {"copy", "full"} => s.run.repos = Lexical!Repos
    PROVE  LexicalInv(s)
<1>1. DocsKept(s) /\ TablesKept(s) /\ IndexesKept(s) /\ StatsKept(s) /\ TextsKept(s)
  BY NothingDone DEF Base, DocsKept, TablesKept, IndexesKept, StatsKept, TextsKept
<1>2. \A d \in DOMAIN FileOf : RepoOf[d] \in Lexical!Repos
  BY DEF Lexical!Repos, Lexical!FilesAssumption
<1>3. Len(SchemaOf(s)) \in {8, 13} /\ DOMAIN SchemaOf(s) = 1..Len(SchemaOf(s))
  BY SchemaIsLong, SchemaIsSequence
<1>4. /\ s.run.step \in 0..(Len(SchemaOf(s)) + 2) /\ s.run.step # Len(SchemaOf(s)) + 2
      /\ InSchema(s) => s.run.step = 1
  BY <1>3 DEF InSchema
<1>5. s.run.step # 0 => s.run.step = 1
  OBVIOUS
<1>6. RunKept(s)
  BY <1>2, <1>4, <1>5 DEF RunKept
<1> QED
  BY <1>1, <1>6 DEF LexicalInv

\* A column more, an index less.
LEMMA SameStep ==
    ASSUME NEW s, NEW t, LexicalInv(s), t \in State, t.provider = s.provider, t.run = s.run,
           t.tables = s.tables,
           t.docs = s.docs, t.stats = s.stats, t.meta = s.meta, IndexesKept(t)
    PROVE  LexicalInv(t)
<1>1. SchemaOf(t) = SchemaOf(s) /\ (\A n : Done(t, n) <=> Done(s, n)) /\ (InSchema(t) <=> InSchema(s))
          /\ Lexical!Active(t) = Lexical!Active(s)
  BY DEF SchemaOf, Done, InSchema, Lexical!Active
<1>2. Lexical!Counted(t) = Lexical!Counted(s) /\ Lexical!Sizeless(t) = Lexical!Sizeless(s)
  BY SameDocs, SameSizesCount
<1>3. DocsKept(t)
  BY <1>1 DEF LexicalInv, DocsKept
<1>4. TablesKept(t)
  BY <1>1 DEF LexicalInv, TablesKept
<1>5. StatsKept(t)
  BY <1>1, <1>2 DEF LexicalInv, StatsKept
<1>6. TextsKept(t)
  BY <1>1 DEF LexicalInv, TextsKept
<1>7. RunKept(t)
  BY <1>1 DEF LexicalInv, RunKept
<1> QED
  BY <1>3, <1>4, <1>5, <1>6, <1>7 DEF LexicalInv

LEMMA AddColumnKeeps ==
    ASSUME NEW s, NEW k, LexicalInv(s), k \in DOMAIN Lexical!Columns
    PROVE  LexicalInv([s EXCEPT !.columns = @ \union {Lexical!Columns[k]}])
<1> DEFINE cc == s.columns \union {Lexical!Columns[k]}
           t == [s EXCEPT !.columns = cc]
<1>0. s \in State
  BY DEF LexicalInv
<1>1. cc \in SUBSET Lexical!AllColumns
  BY <1>0 DEF State, Lexical!AllColumns
<1> HIDE DEF cc
<1>2. /\ t \in State /\ t.provider = s.provider /\ t.run = s.run /\ t.tables = s.tables
      /\ t.docs = s.docs /\ t.stats = s.stats /\ t.meta = s.meta /\ t.indexes = s.indexes
  BY <1>0, <1>1 DEF State
<1> HIDE DEF t
<1>3. IndexesKept(t)
  BY <1>2 DEF LexicalInv, IndexesKept, Done, SchemaOf
<1>4. LexicalInv(t)
  BY <1>2, <1>3, SameStep
<1> QED
  BY <1>4 DEF t, cc

LEMMA DropKeeps ==
    ASSUME NEW s, NEW index, LexicalInv(s), AtStatement(s, "drop")
    PROVE  LexicalInv([s EXCEPT !.indexes = @ \ {index}])
<1> DEFINE ii == s.indexes \ {index}
           t == [s EXCEPT !.indexes = ii]
<1>0. s \in State
  BY DEF LexicalInv
<1>1. ii \in SUBSET IndexType /\ ii \subseteq s.indexes
  BY <1>0 DEF State
<1> HIDE DEF ii
<1>2. /\ t \in State /\ t.provider = s.provider /\ t.run = s.run /\ t.tables = s.tables
      /\ t.docs = s.docs /\ t.stats = s.stats /\ t.meta = s.meta /\ t.indexes = ii
  BY <1>0, <1>1 DEF State
<1>3. ~Done(s, "await") /\ ~Done(s, "index")
  BY <1>0, Order
<1> HIDE DEF t
<1>4. \A n : Done(t, n) <=> Done(s, n)
  BY <1>2 DEF Done, SchemaOf
<1>5. IndexesKept(t)
  BY <1>1, <1>2, <1>3, <1>4 DEF LexicalInv, IndexesKept
<1>6. LexicalInv(t)
  BY <1>2, <1>5, SameStep
<1> QED
  BY <1>6 DEF t, ii

LEMMA StopKeeps ==
    ASSUME Lexical!FilesAssumption, NEW s, LexicalInv(s)
    PROVE  LexicalInv([s EXCEPT !.run.step = 0])
<1> DEFINE r == [s.run EXCEPT !.step = 0]
           t == [s EXCEPT !.run = r]
<1>0. s \in State /\ Base(s)
  BY InvIsBase
<1>1. r \in RunType /\ r.step = 0
  BY <1>0 DEF State, RunType
<1> HIDE DEF r
<1>2. /\ t \in State /\ t.provider = s.provider /\ t.run = r /\ t.tables = s.tables
      /\ t.docs = s.docs /\ t.stats = s.stats /\ t.meta = s.meta /\ t.indexes = s.indexes
  BY <1>0, <1>1 DEF State
<1> HIDE DEF t
<1>3. Lexical!Active(t) = Lexical!Active(s) /\ Lexical!Counted(t) = Lexical!Counted(s)
  BY <1>2, SameDocs, SameSizesCount DEF Lexical!Active
<1>4. Base(t)
  BY <1>0, <1>2, <1>3 DEF Base
<1>5. LexicalInv(t)
  BY <1>1, <1>2, <1>4, BaseKeeps
<1> QED
  BY <1>5 DEF t, r

LEMMA FailKeeps ==
    ASSUME Lexical!FilesAssumption, NEW s, LexicalInv(s), AtStatement(s, "await")
    PROVE  LexicalInv([s EXCEPT !.indexes = {Lexical!Index("workspace", TRUE, "FAILED")}, !.run.step = 0])
<1> DEFINE r == [s.run EXCEPT !.step = 0]
           ii == {Lexical!Index("workspace", TRUE, "FAILED")}
           t == [s EXCEPT !.indexes = ii, !.run = r]
<1>0. s \in State /\ Base(s) /\ s.provider = "neo4j"
  BY InvIsBase, Order
<1>1. r \in RunType /\ r.step = 0 /\ ii \in SUBSET IndexType
  BY <1>0 DEF State, RunType, IndexType, Lexical!Index
<1>2. [s EXCEPT !.indexes = {Lexical!Index("workspace", TRUE, "FAILED")}, !.run.step = 0] = t
  BY <1>0 DEF State
<1> HIDE DEF r, ii
<1>3. /\ t \in State /\ t.provider = s.provider /\ t.run = r /\ t.tables = s.tables
      /\ t.docs = s.docs /\ t.stats = s.stats /\ t.meta = s.meta
  BY <1>0, <1>1 DEF State
<1> HIDE DEF t
<1>4. Lexical!Active(t) = Lexical!Active(s) /\ Lexical!Counted(t) = Lexical!Counted(s)
  BY <1>3, SameDocs, SameSizesCount DEF Lexical!Active
<1>5. Base(t)
  BY <1>0, <1>3, <1>4 DEF Base
<1>6. LexicalInv(t)
  BY <1>1, <1>3, <1>5, BaseKeeps
<1> QED
  BY <1>2, <1>6

LEMMA StartKeeps ==
    ASSUME Lexical!FilesAssumption, NEW kind \in {"copy", "full", "changed", "repo"},
           NEW repos \in SUBSET Lexical!Repos,
           LexicalInv(lexical), Lexical!Start(kind, repos), kind \in {"copy", "full"} => repos = Lexical!Repos
    PROVE  LexicalInv(lexical)'
<1> DEFINE s == lexical
           r == [kind |-> kind, step |-> 1, repos |-> repos, todo |-> repos, alive |-> {},
                 number |-> s.run.number + 1, graphEmpty |-> s.run.graphEmpty]
           t == [s EXCEPT !.run = r]
<1>0. s \in State /\ Base(s)
  BY InvIsBase
<1>1. s.run \in RunType
  BY <1>0 DEF State
<1>2. /\ r \in RunType /\ r.step = 1 /\ r.kind = kind /\ r.repos = repos /\ r.todo = repos /\ r.alive = {}
  BY <1>1 DEF RunType
<1>3. lexical' = t
  BY DEF Lexical!Start
<1> HIDE DEF r, s
<1>4. /\ t \in State /\ t.provider = s.provider /\ t.run = r /\ t.tables = s.tables
      /\ t.docs = s.docs /\ t.stats = s.stats /\ t.meta = s.meta /\ t.indexes = s.indexes
  BY <1>0, <1>2 DEF State
<1> HIDE DEF t
<1>5. Lexical!Active(t) = Lexical!Active(s) /\ Lexical!Counted(t) = Lexical!Counted(s)
  BY <1>4, SameDocs, SameSizesCount DEF Lexical!Active
<1>6. Base(t)
  BY <1>0, <1>4, <1>5 DEF Base
<1>7. LexicalInv(t)
  BY <1>2, <1>4, <1>6, BaseKeeps
<1> QED
  BY <1>3, <1>7
-----------------------------------------------------------------------------
(* The databases a run may find. *)

LEMMA BytesEarlier ==
    ASSUME Lexical!FilesAssumption, NEW s, NEW A \in SUBSET DOMAIN FileOf,
           \A d \in A : s.docs[d].size = Lexical!Earlier
    PROVE  Lexical!Bytes(s, A) = Lexical!Cardinality(A)
<1>1. BytesOf(s, A) = A \X {1}
  <2>1. ASSUME NEW byte \in A \X (1..Lexical!Today) PROVE byte[2] <= s.docs[byte[1]].size <=> byte[2] = 1
    BY DEF Lexical!Today, Lexical!Earlier
  <2>2. A \X {1} \subseteq A \X (1..Lexical!Today)
            /\ \A byte \in A \X (1..Lexical!Today) : byte \in A \X {1} <=> byte[2] = 1
    BY DEF Lexical!Today
  <2> QED
    BY <2>1, <2>2 DEF BytesOf
<1>2. Lexical!IsFiniteSet(A) /\ Lexical!Cardinality(A) \in Nat
  BY BytesFinite
<1>3. Lexical!IsFiniteSet({1}) /\ Lexical!Cardinality({1}) = 1
  BY LX_Singleton
<1>4. Lexical!Cardinality(A \X {1}) = Lexical!Cardinality(A) * 1
  BY <1>2, <1>3, LX_Product
<1> QED
  BY <1>1, <1>2, <1>4, BytesFinite

LEMMA EmptyKeeps ==
    ASSUME Lexical!FilesAssumption, NEW p \in {"kuzu", "neo4j"}
    PROVE  /\ LexicalInv(Lexical!Empty(p)) /\ Lexical!Empty(p).run = Lexical!Idle /\ Lexical!Empty(p).provider = p
           /\ Lexical!Empty(p).stats = Lexical!NoStats
           /\ Lexical!Empty(p).tables = IF p = "kuzu" THEN {} ELSE AllTables
           /\ Lexical!Empty(p).meta = [projection |-> "missing", tokenizer |-> "missing", stats |-> "missing"]
<1> DEFINE s == Lexical!Empty(p)
<1>1. Lexical!Idle \in RunType /\ Lexical!Idle.step = 0
  BY DEF Lexical!Idle, RunType
<1>2. /\ s.docs = <<>> /\ s.run = Lexical!Idle /\ s.provider = p /\ s.indexes = {} /\ s.stats = Lexical!NoStats
      /\ s.tables = IF p = "kuzu" THEN {} ELSE AllTables
      /\ s.meta = [projection |-> "missing", tokenizer |-> "missing", stats |-> "missing"]
  BY DEF Lexical!Empty, AllTables
<1>3. DOMAIN s.docs = {}
  BY <1>2
<1>4. s.docs \in Docs
  <2>1. s.docs = [d \in {} |-> 0]
    BY <1>2
  <2>2. s.docs \in [{} -> DocType]
    BY <2>1
  <2> QED
    BY <2>2 DEF Docs
<1>5. s \in State
  BY <1>1, <1>4 DEF Lexical!Empty, State, AllTables, Lexical!NoStats, Versions, Lexical!AllColumns
<1>6. Lexical!Active(s) = {}
  BY <1>3 DEF Lexical!Active
<1>7. Base(s)
  BY <1>2, <1>3, <1>6 DEF Base
<1> QED
  BY <1>1, <1>2, <1>5, <1>7, BaseKeeps

Former(provider) ==
    [Lexical!Empty(provider) EXCEPT
        !.tables = @ \union {"documents", "metadata"}, !.docs = Lexical!Legacy(Lexical!Null, DOMAIN FileOf),
        !.indexes = {Lexical!Index("workspace", FALSE, "ONLINE"), Lexical!Index("title", TRUE, "ONLINE")},
        !.meta = [projection |-> "earlier", tokenizer |-> "earlier", stats |-> "missing"]]
Unmarked(provider) ==
    [Former(provider) EXCEPT
        !.docs = Lexical!Legacy(Lexical!Today, {d \in DOMAIN FileOf : FileOf[d] # 0}), !.columns = {"ftsText"},
        !.indexes = {Lexical!Index("workspace", TRUE, "ONLINE")},
        !.meta = [projection |-> "current", tokenizer |-> "current", stats |-> "current"]]
SizedLegacy == [d \in DOMAIN FileOf |-> [Lexical!Legacy(Lexical!Earlier, DOMAIN FileOf)[d] EXCEPT !.size =
          Lexical!Earlier, !.fileId = FileOf[d]]]
Projected(provider) ==
    [Former(provider) EXCEPT
        !.tables = {"documents", "metadata", "stats"}, !.columns = Lexical!AllColumns, !.docs = SizedLegacy,
        !.indexes = {Lexical!Index("workspace", TRUE, "ONLINE")},
        !.meta = [projection |-> "earlier", tokenizer |-> "current", stats |-> "current"],
        !.stats = [count |-> Lexical!Cardinality(DOMAIN FileOf), bytes |-> Lexical!Cardinality(DOMAIN FileOf)]]

LEMMA LegaciesAre ==
    ASSUME NEW p
    PROVE  \A s \in Lexical!Legacies(p) : s = Former(p) \/ (p # "neo4j" /\ s = Unmarked(p)) \/ s = Projected(p)
BY DEF Lexical!Legacies, Former, Unmarked, Projected, SizedLegacy

LEMMA LegacyDocs ==
    ASSUME Lexical!FilesAssumption, NEW text \in 0..2, NEW active \in SUBSET DOMAIN FileOf
    PROVE  /\ Lexical!Legacy(text, active) \in [DOMAIN FileOf -> DocType] /\ Lexical!Legacy(text, active) \in Docs
           /\ \A d \in DOMAIN FileOf :
                  LET doc == Lexical!Legacy(text, active)[d]
                  IN  doc.file = FileOf[d] /\ doc.fileId = 0 /\ doc.text = text /\ doc.active = (d \in active)
<1>1. \A d \in DOMAIN FileOf : FileOf[d] \in Nat
  BY DEF Lexical!FilesAssumption
<1>2. Lexical!Legacy(text, active) \in [DOMAIN FileOf -> DocType]
  BY <1>1 DEF Lexical!Legacy, DocType, Lexical!Unsized
<1> QED
  BY <1>2 DEF Docs, Lexical!Legacy

LEMMA FormerFields ==
    ASSUME Lexical!FilesAssumption, NEW p \in {"kuzu", "neo4j"}
    PROVE  LET s == Former(p)
           IN  /\ s \in State /\ s.provider = p /\ s.run = Lexical!Idle
                     /\ s.docs = Lexical!Legacy(Lexical!Null, DOMAIN FileOf)
               /\ s.tables = (IF p = "kuzu" THEN {} ELSE AllTables) \union {"documents", "metadata"}
               /\ s.indexes = {Lexical!Index("workspace", FALSE, "ONLINE"), Lexical!Index("title", TRUE, "ONLINE")}
               /\ s.meta = [projection |-> "earlier", tokenizer |-> "earlier", stats |-> "missing"]
<1> DEFINE e == Lexical!Empty(p)
           tt == e.tables \union {"documents", "metadata"}
           dd == Lexical!Legacy(Lexical!Null, DOMAIN FileOf)
           ii == {Lexical!Index("workspace", FALSE, "ONLINE"), Lexical!Index("title", TRUE, "ONLINE")}
           mm == [projection |-> "earlier", tokenizer |-> "earlier", stats |-> "missing"]
<1>1. /\ e \in State /\ e.provider = p /\ e.run = Lexical!Idle
      /\ e.tables = IF p = "kuzu" THEN {} ELSE AllTables
      /\ e.meta = [projection |-> "missing", tokenizer |-> "missing", stats |-> "missing"]
  BY EmptyKeeps DEF LexicalInv
<1>2. tt \in SUBSET AllTables
  BY <1>1 DEF AllTables
<1>3. dd \in Docs
  BY LegacyDocs DEF Lexical!Null
<1>4. ii \in SUBSET IndexType
  BY DEF Lexical!Index, IndexType
<1>5. mm \in [projection : Versions, tokenizer : Versions, stats : {"missing", "incomplete", "current"}]
  BY DEF Versions
<1>6. Former(p) = [e EXCEPT !.tables = tt, !.docs = dd, !.indexes = ii, !.meta = mm]
  BY DEF Former
<1> DEFINE s == Former(p)
<1> HIDE DEF e, tt, dd, ii, mm, s
<1>7. s = [e EXCEPT !.tables = tt, !.docs = dd, !.indexes = ii, !.meta = mm]
  BY <1>6 DEF s
<1>8. s \in State
  BY <1>1, <1>2, <1>3, <1>4, <1>5, <1>7 DEF State
<1>9. /\ s.provider = p /\ s.run = Lexical!Idle /\ s.docs = dd /\ s.tables = tt
      /\ s.indexes = ii /\ s.meta = mm
  BY <1>1, <1>7 DEF State
<1> USE DEF s
<1>10. LET u == Former(p)
       IN  /\ u \in State /\ u.provider = p /\ u.run = Lexical!Idle /\ u.docs = dd /\ u.tables = tt
           /\ u.indexes = ii /\ u.meta = mm
  BY <1>8, <1>9
<1> QED
  BY <1>1, <1>10 DEF tt, dd, ii, mm

LEMMA FormerKeeps ==
    ASSUME Lexical!FilesAssumption, NEW p \in {"kuzu", "neo4j"}
    PROVE  LexicalInv(Former(p))
<1> DEFINE s == Former(p)
<1>1. /\ s \in State /\ s.provider = p /\ s.run = Lexical!Idle /\ s.docs = Lexical!Legacy(Lexical!Null, DOMAIN FileOf)
      /\ s.tables = (IF p = "kuzu" THEN {} ELSE AllTables) \union {"documents", "metadata"}
      /\ s.indexes = {Lexical!Index("workspace", FALSE, "ONLINE"), Lexical!Index("title", TRUE, "ONLINE")}
      /\ s.meta = [projection |-> "earlier", tokenizer |-> "earlier", stats |-> "missing"]
  BY FormerFields
<1>2. \A d \in DOMAIN s.docs : s.docs[d].file = FileOf[d] /\ s.docs[d].fileId = 0
  BY <1>1, LegacyDocs DEF Lexical!Null
<1> HIDE DEF s
<1>3. Base(s)
  BY <1>1, <1>2 DEF Base, Lexical!Index, AllTables
<1>4. LexicalInv(s)
  BY <1>1, <1>3, BaseKeeps DEF Lexical!Idle
<1> QED
  BY <1>4 DEF s

LEMMA UnmarkedKeeps ==
    ASSUME Lexical!FilesAssumption
    PROVE  LexicalInv(Unmarked("kuzu"))
<1> DEFINE e == Former("kuzu")
           dd == Lexical!Legacy(Lexical!Today, {d \in DOMAIN FileOf : FileOf[d] # 0})
           cc == {"ftsText"}
           ii == {Lexical!Index("workspace", TRUE, "ONLINE")}
           mm == [projection |-> "current", tokenizer |-> "current", stats |-> "current"]
           s == Unmarked("kuzu")
<1>1. e \in State /\ e.provider = "kuzu" /\ e.run = Lexical!Idle /\ e.tables = {"documents", "metadata"}
  BY FormerFields
<1>2. cc \in SUBSET Lexical!AllColumns
  <2>1. "ftsText" = Lexical!Columns[2] /\ 2 \in DOMAIN Lexical!Columns
    BY DEF Lexical!Columns
  <2> QED
    BY <2>1 DEF Lexical!AllColumns
<1>3. {d \in DOMAIN FileOf : FileOf[d] # 0} \in SUBSET DOMAIN FileOf
  OBVIOUS
<1>4. dd \in [DOMAIN FileOf -> DocType] /\ dd \in Docs /\ \A d \in DOMAIN dd : dd[d].file = FileOf[d]
          /\ dd[d].fileId = 0 /\ dd[d].text = Lexical!Today
  BY <1>3, LegacyDocs DEF Lexical!Today
<1>5. ii \in SUBSET IndexType /\ \A index \in ii : index.state = "ONLINE"
  BY DEF Lexical!Index, IndexType
<1>6. mm \in [projection : Versions, tokenizer : Versions, stats : {"missing", "incomplete", "current"}]
          /\ mm.projection = "current"
  BY DEF Versions
<1>7. s = [e EXCEPT !.docs = dd, !.columns = cc, !.indexes = ii, !.meta = mm]
  BY DEF Unmarked
<1> HIDE DEF e, dd, cc, ii, mm, s
<1>8. s \in State
  BY <1>1, <1>2, <1>4, <1>5, <1>6, <1>7 DEF State
<1>9. s.provider = "kuzu" /\ s.run = Lexical!Idle /\ s.docs = dd /\ s.tables = {"documents", "metadata"}
          /\ s.indexes = ii /\ s.meta = mm
  BY <1>1, <1>7 DEF State
<1>10. Base(s)
  BY <1>4, <1>5, <1>6, <1>9 DEF Base, Lexical!Active
<1>11. LexicalInv(s)
  BY <1>8, <1>9, <1>10, BaseKeeps DEF Lexical!Idle
<1> QED
  BY <1>11 DEF s

LEMMA ProjectedKeeps ==
    ASSUME Lexical!FilesAssumption, NEW p \in {"kuzu", "neo4j"}
    PROVE  LexicalInv(Projected(p))
<1> DEFINE e == Former(p)
           dd == SizedLegacy
           tt == {"documents", "metadata", "stats"}
           cc == Lexical!AllColumns
           ii == {Lexical!Index("workspace", TRUE, "ONLINE")}
           mm == [projection |-> "earlier", tokenizer |-> "current", stats |-> "current"]
           n == Lexical!Cardinality(DOMAIN FileOf)
           ss == [count |-> n, bytes |-> n]
           s == Projected(p)
<1>1. e \in State /\ e.provider = p /\ e.run = Lexical!Idle
  BY FormerFields
<1>2. tt \in SUBSET AllTables /\ cc \in SUBSET Lexical!AllColumns /\ tt = AllTables
  BY DEF AllTables
<1>3. DOMAIN FileOf \in SUBSET DOMAIN FileOf
  OBVIOUS
<1>4. /\ dd \in [DOMAIN FileOf -> DocType]
      /\ \A d \in DOMAIN FileOf : dd[d].file = FileOf[d] /\ dd[d].fileId = FileOf[d]
                /\ dd[d].size = Lexical!Earlier /\ dd[d].active
  <2>1. ASSUME NEW d \in DOMAIN FileOf
        PROVE  dd[d] \in DocType /\ dd[d].file = FileOf[d] /\ dd[d].fileId = FileOf[d]
                  /\ dd[d].size = Lexical!Earlier /\ dd[d].active
    <3> DEFINE doc == Lexical!Legacy(Lexical!Earlier, DOMAIN FileOf)[d]
    <3>0. doc = [file |-> FileOf[d], fileId |-> 0, text |-> Lexical!Earlier, size |-> Lexical!Unsized, active |-> TRUE]
      BY DEF Lexical!Legacy
    <3>2. dd[d] = [doc EXCEPT !.size = Lexical!Earlier, !.fileId = FileOf[d]]
      BY DEF SizedLegacy
    <3>1a. FileOf[d] \in Nat
      BY DEF Lexical!FilesAssumption
    <3> HIDE DEF doc
    <3>1. doc \in DocType /\ doc.file = FileOf[d] /\ doc.active
      BY <3>0, <3>1a DEF Lexical!Earlier, Lexical!Unsized, DocType
    <3> HIDE DEF dd
    <3> QED
      BY <3>1, <3>1a, <3>2 DEF DocType, Lexical!Earlier
  <2> QED
    BY <2>1 DEF SizedLegacy
<1>5. ii \in SUBSET IndexType /\ \A index \in ii : index.state = "ONLINE"
  BY DEF Lexical!Index, IndexType
<1>6. mm \in [projection : Versions, tokenizer : Versions, stats : {"missing", "incomplete", "current"}]
          /\ mm.projection = "earlier"
  BY DEF Versions
<1>7. n \in Nat
  BY <1>3, BytesFinite
<1>8. ss \in [count : Int, bytes : Int]
  BY <1>7
<1>9. s = [e EXCEPT !.tables = tt, !.columns = cc, !.docs = dd, !.indexes = ii, !.meta = mm, !.stats = ss]
  BY DEF Projected
<1>10. dd \in Docs
  BY <1>4 DEF Docs
<1> HIDE DEF e, dd, tt, cc, ii, mm, ss, s
<1>11. s \in State
  BY <1>1, <1>2, <1>5, <1>6, <1>8, <1>9, <1>10 DEF State
<1>12. s.provider = p /\ s.run = Lexical!Idle /\ s.docs = dd /\ s.tables = tt /\ s.indexes = ii
          /\ s.meta = mm /\ s.stats = ss
  BY <1>1, <1>9 DEF State
<1>13. Lexical!Active(s) = DOMAIN FileOf
  BY <1>4, <1>12 DEF Lexical!Active
<1>14. Lexical!Bytes(s, DOMAIN FileOf) = n
  BY <1>3, <1>4, <1>12, BytesEarlier
<1>15. s.stats = Lexical!Counted(s)
  BY <1>12, <1>13, <1>14 DEF ss, Lexical!Counted
<1>16. Base(s)
  BY <1>2, <1>4, <1>5, <1>6, <1>12, <1>15 DEF Base
<1>17. LexicalInv(s)
  BY <1>11, <1>12, <1>16, BaseKeeps DEF Lexical!Idle
<1> QED
  BY <1>17 DEF s

LEMMA FoundKeeps ==
    ASSUME Lexical!FilesAssumption, NEW s \in Lexical!Found
    PROVE  LexicalInv(s)
<1>1. PICK p \in Databases : s \in {Lexical!Empty(p)} \union Lexical!Legacies(p)
  BY DEF Lexical!Found
<1>2. p \in {"kuzu", "neo4j"}
  BY DEF Lexical!FilesAssumption
<1>3. s = Lexical!Empty(p) \/ s = Former(p) \/ (p # "neo4j" /\ s = Unmarked(p)) \/ s = Projected(p)
  BY <1>1, LegaciesAre
<1> QED
  BY <1>2, <1>3, EmptyKeeps, FormerKeeps, UnmarkedKeeps, ProjectedKeeps
-----------------------------------------------------------------------------
(* Writing. *)

\* Once the statements are done the schema is there, every document has a size and knows its file, and the statistics count.
LEMMA WrittenStands ==
    ASSUME NEW s, LexicalInv(s), s.run.step > Len(SchemaOf(s))
    PROVE  /\ s.stats = Lexical!Counted(s) /\ s.meta.stats = "current" /\ s.tables = AllTables /\ Lexical!Sizeless(s) = {}
           /\ \A d \in DOMAIN s.docs : s.docs[d].fileId = FileOf[d]
           /\ s.meta.projection # "missing"
           /\ s.indexes = {Lexical!Index("workspace", TRUE, "ONLINE")}
<1>0. s \in State /\ s.provider \in {"kuzu", "neo4j"} /\ s.run.step \in Nat
  BY DEF LexicalInv, State, RunType
<1>1. /\ s.provider = "kuzu" => Done(s, "documents") /\ Done(s, "metadata") /\ Done(s, "stats") /\ Done(s, "index")
      /\ s.provider = "neo4j" => Done(s, "await")
      /\ Done(s, "sizes") /\ Done(s, "files") /\ Done(s, "rebuild") /\ Done(s, "versions")
  <2>1. CASE s.provider = "kuzu"
    <3>1. SchemaOf(s) = <<"documents", "columns", "texts", "metadata", "mark", "stats", "unsized", "sizes",
              "files", "drop", "index",
           "versions", "rebuild">>
      BY <2>1 DEF SchemaOf, Lexical!ensureSchema
    <3>2. s.run.step > 13 /\ DOMAIN SchemaOf(s) = 1..13
      BY <3>1
    <3>3. /\ SchemaOf(s)[1] = "documents" /\ SchemaOf(s)[4] = "metadata" /\ SchemaOf(s)[6] = "stats"
               /\ SchemaOf(s)[8] = "sizes"
          /\ SchemaOf(s)[9] = "files" /\ SchemaOf(s)[11] = "index" /\ SchemaOf(s)[12] = "versions"
                    /\ SchemaOf(s)[13] = "rebuild"
      BY <3>1
    <3> QED
      BY <1>0, <2>1, <3>2, <3>3 DEF Done
  <2>2. CASE s.provider = "neo4j"
    <3>1. SchemaOf(s) = <<"drop", "index", "await", "versions", "unsized", "sizes", "files", "rebuild">>
      BY <2>2 DEF SchemaOf, Lexical!ensureSchema
    <3>2. s.run.step > 8 /\ DOMAIN SchemaOf(s) = 1..8
      BY <3>1
    <3>3. /\ SchemaOf(s)[3] = "await" /\ SchemaOf(s)[4] = "versions" /\ SchemaOf(s)[6] = "sizes" /\ SchemaOf(s)[7] = "files"
          /\ SchemaOf(s)[8] = "rebuild"
      BY <3>1
    <3> QED
      BY <1>0, <2>2, <3>2, <3>3 DEF Done
  <2> QED
    BY <1>0, <2>1, <2>2
<1>2. s.tables = AllTables
  BY <1>0, <1>1 DEF LexicalInv, TablesKept, State, AllTables
<1>3. s.stats = Lexical!Counted(s) /\ s.meta.stats = "current" /\ Lexical!Sizeless(s) = {}
  BY <1>1, <1>2 DEF LexicalInv, StatsKept, AllTables
<1>4. (\A d \in DOMAIN s.docs : s.docs[d].fileId = FileOf[d]) /\ s.meta.projection # "missing"
  BY <1>1 DEF LexicalInv, DocsKept, TextsKept
<1>5. s.indexes = {Lexical!Index("workspace", TRUE, "ONLINE")}
  BY <1>0, <1>1 DEF LexicalInv, IndexesKept
<1> QED
  BY <1>2, <1>3, <1>4, <1>5

LEMMA AtWriting ==
    ASSUME NEW s, LexicalInv(s), s.run.step = Len(SchemaOf(s)) + 1
    PROVE  /\ s.stats = Lexical!Counted(s) /\ s.meta.stats = "current" /\ s.tables = AllTables /\ Lexical!Sizeless(s) = {}
           /\ \A d \in DOMAIN s.docs : s.docs[d].fileId = FileOf[d]
           /\ s.meta.projection # "missing"
           /\ s.indexes = {Lexical!Index("workspace", TRUE, "ONLINE")}
<1>1. s.run.step > Len(SchemaOf(s))
  BY SchemaIsLong DEF LexicalInv
<1> QED
  BY <1>1, WrittenStands

\* A document is as it was, put away, or as today's version writes it.
Rewritten(s, t) ==
    \A d \in DOMAIN t.docs :
        \/ t.docs[d] = Lexical!documentParameters(d)
        \/ /\ d \in DOMAIN s.docs /\ (t.docs[d].active => s.docs[d].active)
           /\ t.docs[d].file = s.docs[d].file /\ t.docs[d].fileId = s.docs[d].fileId
           /\ t.docs[d].text = s.docs[d].text /\ t.docs[d].size = s.docs[d].size

LEMMA WriteKeeps ==
    ASSUME Lexical!FilesAssumption, NEW s, NEW t, LexicalInv(s), t \in State,
           s.run.step = Len(SchemaOf(s)) + 1, t.run.step = s.run.step,
           t.provider = s.provider, t.tables = s.tables, t.indexes = s.indexes, t.meta = s.meta,
           Rewritten(s, t), t.stats = Lexical!Counted(t), RunKept(t)
    PROVE  LexicalInv(t)
<1>1. \A n : Done(t, n) <=> Done(s, n)
  BY DEF Done, SchemaOf
<1>2. /\ s.meta.stats = "current" /\ s.tables = AllTables /\ Lexical!Sizeless(s) = {}
      /\ \A d \in DOMAIN s.docs : s.docs[d].fileId = FileOf[d]
      /\ s.meta.projection # "missing"
  BY AtWriting
<1>3. \A d \in DOMAIN t.docs :
         \/ t.docs[d].file = FileOf[d] /\ t.docs[d].fileId = FileOf[d] /\ t.docs[d].text = Lexical!Today
                   /\ t.docs[d].size = Lexical!Today
         \/ /\ d \in DOMAIN s.docs /\ (t.docs[d].active => s.docs[d].active)
            /\ t.docs[d].file = s.docs[d].file /\ t.docs[d].fileId = s.docs[d].fileId
            /\ t.docs[d].text = s.docs[d].text /\ t.docs[d].size = s.docs[d].size
  <2> TAKE d \in DOMAIN t.docs
  <2>1. CASE t.docs[d] = Lexical!documentParameters(d)
    BY <2>1 DEF Lexical!documentParameters
  <2> QED
    BY <2>1 DEF Rewritten
<1>4. DocsKept(t)
  BY <1>1, <1>2, <1>3 DEF LexicalInv, DocsKept
<1>5. Lexical!Sizeless(t) = {}
  BY <1>2, <1>3 DEF Lexical!Sizeless, Lexical!Unsized, Lexical!Today
<1>6. StatsKept(t)
  BY <1>2, <1>5 DEF StatsKept, AllTables
<1>7. \A d \in Lexical!Active(t) : t.docs[d].text = Lexical!Today \/ (d \in Lexical!Active(s)
          /\ t.docs[d].text = s.docs[d].text)
  BY <1>3 DEF Lexical!Active
<1>8. TextsKept(t)
  BY <1>1, <1>2, <1>7 DEF LexicalInv, TextsKept
<1>9. TablesKept(t) /\ IndexesKept(t)
  BY <1>1 DEF LexicalInv, TablesKept, IndexesKept
<1> QED
  BY <1>4, <1>6, <1>8, <1>9 DEF LexicalInv

LEMMA Subtract ==
    ASSUME Lexical!FilesAssumption, NEW s, NEW A \in SUBSET DOMAIN FileOf, NEW B \in SUBSET A
    PROVE  /\ Lexical!Cardinality(A \ B) = Lexical!Cardinality(A) - Lexical!Cardinality(B)
           /\ Lexical!Bytes(s, A \ B) = Lexical!Bytes(s, A) - Lexical!Bytes(s, B)
           /\ Lexical!Cardinality(B) \in Nat /\ Lexical!Bytes(s, B) \in Nat
                     /\ Lexical!Cardinality(A \ B) \in Nat /\ Lexical!Bytes(s, A \ B) \in Nat
<1>1. B \in SUBSET DOMAIN FileOf /\ A \ B \in SUBSET DOMAIN FileOf /\ (A \ B) \intersect B = {} /\ A = (A \ B) \union B
  OBVIOUS
<1>2. Lexical!Bytes(s, A) = Lexical!Bytes(s, A \ B) + Lexical!Bytes(s, B)
          /\ Lexical!Cardinality(A) = Lexical!Cardinality(A \ B) + Lexical!Cardinality(B)
  BY <1>1, BytesUnion
<1>3. Lexical!Cardinality(B) \in Nat /\ Lexical!Bytes(s, B) \in Nat /\ Lexical!Cardinality(A \ B) \in Nat
          /\ Lexical!Bytes(s, A \ B) \in Nat
  BY <1>1, BytesFinite
<1> QED
  BY <1>2, <1>3

LEMMA Deactivates ==
    ASSUME Lexical!FilesAssumption, NEW s, s \in State, NEW stale \in SUBSET Lexical!Active(s),
           s.stats = Lexical!Counted(s)
    PROVE  LET t == Lexical!Deactivate(s, stale)
           IN  /\ t \in State /\ t.provider = s.provider /\ t.run = s.run /\ t.tables = s.tables
               /\ t.indexes = s.indexes /\ t.meta = s.meta /\ t.stats = Lexical!Counted(t)
               /\ DOMAIN t.docs = DOMAIN s.docs /\ Lexical!Active(t) = Lexical!Active(s) \ stale
               /\ \A d \in DOMAIN s.docs :
                      /\ t.docs[d].file = s.docs[d].file /\ t.docs[d].fileId = s.docs[d].fileId
                      /\ t.docs[d].text = s.docs[d].text /\ t.docs[d].size = s.docs[d].size
                      /\ t.docs[d].active => s.docs[d].active
                      /\ d \notin stale => t.docs[d] = s.docs[d]
<1> DEFINE dd == [d \in DOMAIN s.docs |-> IF d \in stale THEN [s.docs[d] EXCEPT !.active = FALSE] ELSE s.docs[d]]
           ss == [count |-> s.stats.count - Lexical!Cardinality(stale), bytes |-> s.stats.bytes - Lexical!Bytes(s, stale)]
           t == Lexical!Deactivate(s, stale)
<1>1. s.docs \in [DOMAIN s.docs -> DocType] /\ DOMAIN s.docs \in SUBSET DOMAIN FileOf
  BY DEF State, Docs
<1>2. Lexical!Active(s) \in SUBSET DOMAIN FileOf /\ stale \in SUBSET DOMAIN FileOf
  BY ActiveIsKnown
<1>3. /\ Lexical!Cardinality(Lexical!Active(s) \ stale) =
           Lexical!Cardinality(Lexical!Active(s)) - Lexical!Cardinality(stale)
      /\ Lexical!Bytes(s, Lexical!Active(s) \ stale) = Lexical!Bytes(s, Lexical!Active(s)) - Lexical!Bytes(s, stale)
      /\ Lexical!Cardinality(stale) \in Nat /\ Lexical!Bytes(s, stale) \in Nat
      /\ Lexical!Cardinality(Lexical!Active(s) \ stale) \in Nat /\ Lexical!Bytes(s, Lexical!Active(s) \ stale) \in Nat
  BY <1>2, Subtract
<1>4. s.stats = [count |-> Lexical!Cardinality(Lexical!Active(s)), bytes |-> Lexical!Bytes(s, Lexical!Active(s))]
  BY DEF Lexical!Counted
<1>5. ss = [count |-> Lexical!Cardinality(Lexical!Active(s) \ stale), bytes |-> Lexical!Bytes(s, Lexical!Active(s) \ stale)]
  BY <1>3, <1>4
<1>6. ss \in [count : Int, bytes : Int]
  BY <1>3, <1>5
<1>7. \A d \in DOMAIN s.docs :
         /\ dd[d] \in DocType
         /\ dd[d].file = s.docs[d].file /\ dd[d].fileId = s.docs[d].fileId
         /\ dd[d].text = s.docs[d].text /\ dd[d].size = s.docs[d].size
         /\ dd[d].active = (s.docs[d].active /\ d \notin stale)
         /\ d \notin stale => dd[d] = s.docs[d]
  <2> TAKE d \in DOMAIN s.docs
  <2>1. s.docs[d] \in DocType
    BY <1>1
  <2>2. dd[d] = IF d \in stale THEN [s.docs[d] EXCEPT !.active = FALSE] ELSE s.docs[d]
    OBVIOUS
  <2> QED
    BY <2>1, <2>2 DEF DocType
<1>8. dd \in [DOMAIN s.docs -> DocType] /\ DOMAIN dd = DOMAIN s.docs
  BY <1>7
<1>9. dd \in Docs
  BY <1>1, <1>8 DEF Docs
<1>10. t = [[s EXCEPT !.docs = dd] EXCEPT !.stats = ss]
  <2>1. [s EXCEPT !.docs = dd].stats = s.stats
    BY DEF State
  <2>2. s.stats.count + (-Lexical!Cardinality(stale)) = s.stats.count - Lexical!Cardinality(stale)
            /\ s.stats.bytes + (-Lexical!Bytes(s, stale)) = s.stats.bytes - Lexical!Bytes(s, stale)
    BY <1>3, <1>4
  <2>3. t = [[s EXCEPT !.docs = dd] EXCEPT !.stats =
            [count |-> s.stats.count + (-Lexical!Cardinality(stale)), bytes |-> s.stats.bytes + (-Lexical!Bytes(s, stale))]]
    BY <2>1 DEF Lexical!Deactivate, Lexical!adjustWorkspaceStats
  <2> QED
    BY <2>2, <2>3
<1> HIDE DEF dd, ss, t
<1>11. t \in State
  BY <1>6, <1>9, <1>10 DEF State
<1>12. /\ t.provider = s.provider /\ t.run = s.run /\ t.tables = s.tables
       /\ t.indexes = s.indexes /\ t.meta = s.meta /\ t.docs = dd /\ t.stats = ss
  BY <1>6, <1>9, <1>10 DEF State
<1>13. Lexical!Active(t) = Lexical!Active(s) \ stale
  BY <1>7, <1>8, <1>12 DEF Lexical!Active
<1>14. Lexical!Bytes(t, Lexical!Active(s) \ stale) = Lexical!Bytes(s, Lexical!Active(s) \ stale)
  <2>1. \A d \in Lexical!Active(s) \ stale : t.docs[d].size = s.docs[d].size
    BY <1>7, <1>12 DEF Lexical!Active
  <2> QED
    BY <2>1, BytesSame
<1>15. t.stats = Lexical!Counted(t)
  BY <1>5, <1>12, <1>13, <1>14 DEF Lexical!Counted
<1>16. \A d \in DOMAIN s.docs :
         /\ t.docs[d].file = s.docs[d].file /\ t.docs[d].fileId = s.docs[d].fileId
         /\ t.docs[d].text = s.docs[d].text /\ t.docs[d].size = s.docs[d].size
         /\ t.docs[d].active => s.docs[d].active
         /\ d \notin stale => t.docs[d] = s.docs[d]
  BY <1>7, <1>12
<1>17. DOMAIN t.docs = DOMAIN s.docs
  BY <1>8, <1>12
<1> QED
  BY <1>11, <1>12, <1>13, <1>15, <1>16, <1>17 DEF t

LEMMA Upserts ==
    ASSUME Lexical!FilesAssumption, NEW s, s \in State, NEW ids \in SUBSET DOMAIN FileOf,
           s.stats = Lexical!Counted(s)
    PROVE  LET t == Lexical!upsertDocuments(s, ids)
           IN  /\ t \in State /\ t.provider = s.provider /\ t.run = s.run /\ t.tables = s.tables
               /\ t.indexes = s.indexes /\ t.meta = s.meta /\ t.stats = Lexical!Counted(t)
               /\ DOMAIN t.docs = DOMAIN s.docs \union ids /\ Lexical!Active(t) = Lexical!Active(s) \union ids
               /\ \A d \in DOMAIN t.docs : t.docs[d] = IF d \in ids THEN Lexical!documentParameters(d) ELSE s.docs[d]
<1> DEFINE dd == [d \in DOMAIN s.docs \union ids |-> IF d \in ids THEN Lexical!documentParameters(d) ELSE s.docs[d]]
           before == ids \intersect Lexical!Active(s)
           ss == [count |-> s.stats.count + (Lexical!Cardinality(ids) - Lexical!Cardinality(before)),
                  bytes |-> s.stats.bytes + (Lexical!Today * Lexical!Cardinality(ids) - Lexical!Bytes(s, before))]
           t == Lexical!upsertDocuments(s, ids)
           A == Lexical!Active(s) \ before
<1>1. s.docs \in [DOMAIN s.docs -> DocType] /\ DOMAIN s.docs \in SUBSET DOMAIN FileOf
  BY DEF State, Docs
<1>2. Lexical!Active(s) \in SUBSET DOMAIN FileOf /\ before \in SUBSET Lexical!Active(s) /\ A \in SUBSET DOMAIN FileOf
  BY ActiveIsKnown
<1>3. /\ Lexical!Cardinality(A) = Lexical!Cardinality(Lexical!Active(s)) - Lexical!Cardinality(before)
      /\ Lexical!Bytes(s, A) = Lexical!Bytes(s, Lexical!Active(s)) - Lexical!Bytes(s, before)
      /\ Lexical!Cardinality(before) \in Nat /\ Lexical!Bytes(s, before) \in Nat
      /\ Lexical!Cardinality(A) \in Nat /\ Lexical!Bytes(s, A) \in Nat
  BY <1>2, Subtract
<1>4. s.stats = [count |-> Lexical!Cardinality(Lexical!Active(s)), bytes |-> Lexical!Bytes(s, Lexical!Active(s))]
  BY DEF Lexical!Counted
<1>5. Lexical!Cardinality(ids) \in Nat /\ Lexical!Cardinality(Lexical!Active(s)) \in Nat
          /\ Lexical!Bytes(s, Lexical!Active(s)) \in Nat
  BY <1>2, BytesFinite
<1>6. ss = [count |-> Lexical!Cardinality(A) + Lexical!Cardinality(ids), bytes |-> Lexical!Bytes(s,
          A) + Lexical!Today * Lexical!Cardinality(ids)]
  BY <1>3, <1>4, <1>5 DEF Lexical!Today
<1>7. ss \in [count : Int, bytes : Int]
  <2>1. Lexical!Cardinality(A) + Lexical!Cardinality(ids) \in Int
            /\ Lexical!Bytes(s, A) + Lexical!Today * Lexical!Cardinality(ids) \in Int
    BY <1>3, <1>5 DEF Lexical!Today
  <2> HIDE DEF ss
  <2> QED
    BY <1>6, <2>1
<1>8. \A d \in ids : /\ Lexical!documentParameters(d) \in DocType /\ Lexical!documentParameters(d).active
                      /\ Lexical!documentParameters(d).size = Lexical!Today
  <2> TAKE d \in ids
  <2>1. FileOf[d] \in Nat
    BY DEF Lexical!FilesAssumption
  <2> QED
    BY <2>1 DEF Lexical!documentParameters, DocType, Lexical!Today
<1>9. dd \in [DOMAIN s.docs \union ids -> DocType] /\ DOMAIN dd = DOMAIN s.docs \union ids
  BY <1>1, <1>8
<1>10. dd \in Docs
  BY <1>1, <1>9 DEF Docs
<1>11. t = [[s EXCEPT !.stats = ss] EXCEPT !.docs = dd]
  <2>1. [s EXCEPT !.stats = ss].docs = s.docs
    BY DEF State
  <2>2. Lexical!Replacing(s, ids, before) = [s EXCEPT !.stats = ss]
    BY DEF Lexical!Replacing, Lexical!adjustWorkspaceStats
  <2> QED
    BY <2>1, <2>2 DEF Lexical!upsertDocuments
<1>12. \A d \in DOMAIN dd : dd[d] = IF d \in ids THEN Lexical!documentParameters(d) ELSE s.docs[d]
  OBVIOUS
<1> HIDE DEF dd, ss, t
<1>13. t \in State
  BY <1>7, <1>10, <1>11 DEF State
<1>14. /\ t.provider = s.provider /\ t.run = s.run /\ t.tables = s.tables
       /\ t.indexes = s.indexes /\ t.meta = s.meta /\ t.docs = dd /\ t.stats = ss
  BY <1>7, <1>10, <1>11 DEF State
<1>15. Lexical!Active(t) = Lexical!Active(s) \union ids /\ Lexical!Active(t) = A \union ids
  BY <1>8, <1>9, <1>12, <1>14 DEF Lexical!Active
<1> HIDE DEF A
<1>16. Lexical!Bytes(t, A) = Lexical!Bytes(s, A)
  <2>1. \A d \in A : t.docs[d].size = s.docs[d].size
    BY <1>9, <1>12, <1>14 DEF A, Lexical!Active
  <2> QED
    BY <2>1, BytesSame
<1>17. Lexical!Bytes(t, ids) = Lexical!Today * Lexical!Cardinality(ids)
  <2>1. \A d \in ids : t.docs[d].size = Lexical!Today
    BY <1>8, <1>9, <1>12, <1>14
  <2> QED
    BY <2>1, BytesToday
<1>18. A \intersect ids = {}
  BY DEF A
<1>19. Lexical!Bytes(t, A \union ids) = Lexical!Bytes(t, A) + Lexical!Bytes(t, ids)
          /\ Lexical!Cardinality(A \union ids) = Lexical!Cardinality(A) + Lexical!Cardinality(ids)
  BY <1>2, <1>18, BytesUnion
<1>20. t.stats = Lexical!Counted(t)
  BY <1>6, <1>14, <1>15, <1>16, <1>17, <1>19 DEF Lexical!Counted
<1> QED
  BY <1>9, <1>12, <1>13, <1>14, <1>15, <1>20 DEF t

WrittenRun(r, todo, ids) == [r EXCEPT !.todo = todo, !.alive = ids, !.graphEmpty = FALSE]
Ended(u, todo, alive) == [u EXCEPT !.run = WrittenRun(u.run, todo, alive)]

LEMMA WithRun ==
    ASSUME NEW u, u \in State, NEW todo \in SUBSET Lexical!Repos, NEW alive \in SUBSET DOMAIN FileOf
    PROVE  LET t == Ended(u, todo, alive)
           IN  /\ t \in State /\ t.provider = u.provider /\ t.tables = u.tables /\ t.indexes = u.indexes
               /\ t.meta = u.meta /\ t.stats = u.stats /\ t.docs = u.docs
                         /\ Lexical!Counted(t) = Lexical!Counted(u) /\ Lexical!Active(t) = Lexical!Active(u)
               /\ t.run.kind = u.run.kind /\ t.run.step = u.run.step /\ t.run.repos = u.run.repos
               /\ t.run.todo = todo /\ t.run.alive = alive
<1> DEFINE r == WrittenRun(u.run, todo, alive)
           t == [u EXCEPT !.run = r]
<1>1. u.run \in RunType
  BY DEF State
<1>2. /\ r \in RunType /\ r.kind = u.run.kind /\ r.step = u.run.step /\ r.repos = u.run.repos
      /\ r.todo = todo /\ r.alive = alive
  BY <1>1 DEF RunType, WrittenRun
<1> HIDE DEF r
<1>3. /\ t \in State /\ t.provider = u.provider /\ t.tables = u.tables /\ t.indexes = u.indexes
      /\ t.meta = u.meta /\ t.stats = u.stats /\ t.docs = u.docs /\ t.run = r
  BY <1>2 DEF State
<1> HIDE DEF t
<1>4. Lexical!Counted(t) = Lexical!Counted(u) /\ Lexical!Active(t) = Lexical!Active(u)
  BY <1>3, SameDocs, SameSizesCount DEF Lexical!Active
<1> QED
  BY <1>2, <1>3, <1>4 DEF t, r, Ended

\* What is written of ids, and put away of what is stale.
LEMMA Replaced ==
    ASSUME Lexical!FilesAssumption, NEW s, LexicalInv(s), s.run.step = Len(SchemaOf(s)) + 1,
           NEW ids \in SUBSET DOMAIN FileOf,
           NEW stale \in SUBSET Lexical!Active(Lexical!upsertDocuments(s, ids)), stale \intersect ids = {}
    PROVE  LET t == Lexical!Deactivate(Lexical!upsertDocuments(s, ids), stale)
           IN  /\ t \in State /\ t.provider = s.provider /\ t.run = s.run /\ t.tables = s.tables
               /\ t.indexes = s.indexes /\ t.meta = s.meta /\ t.stats = Lexical!Counted(t)
               /\ Rewritten(s, t) /\ Lexical!Active(t) = (Lexical!Active(s) \union ids) \ stale
               /\ \A d \in Lexical!Active(t) : IF d \in ids THEN t.docs[d].text = Lexical!Today
                                       ELSE d \in Lexical!Active(s) /\ t.docs[d].text = s.docs[d].text
<1> DEFINE u == Lexical!upsertDocuments(s, ids)
           t == Lexical!Deactivate(u, stale)
<1>1. s \in State /\ s.stats = Lexical!Counted(s)
  BY AtWriting DEF LexicalInv
<1>2. /\ u \in State /\ u.provider = s.provider /\ u.run = s.run /\ u.tables = s.tables
      /\ u.indexes = s.indexes /\ u.meta = s.meta /\ u.stats = Lexical!Counted(u)
      /\ DOMAIN u.docs = DOMAIN s.docs \union ids /\ Lexical!Active(u) = Lexical!Active(s) \union ids
      /\ \A d \in DOMAIN u.docs : u.docs[d] = IF d \in ids THEN Lexical!documentParameters(d) ELSE s.docs[d]
  BY <1>1, Upserts
<1>3. stale \in SUBSET Lexical!Active(u)
  OBVIOUS
<1> HIDE DEF u
<1>4. /\ t \in State /\ t.provider = u.provider /\ t.run = u.run /\ t.tables = u.tables
      /\ t.indexes = u.indexes /\ t.meta = u.meta /\ t.stats = Lexical!Counted(t)
      /\ DOMAIN t.docs = DOMAIN u.docs /\ Lexical!Active(t) = Lexical!Active(u) \ stale
      /\ \A d \in DOMAIN u.docs :
             /\ t.docs[d].file = u.docs[d].file /\ t.docs[d].fileId = u.docs[d].fileId
             /\ t.docs[d].text = u.docs[d].text /\ t.docs[d].size = u.docs[d].size
             /\ t.docs[d].active => u.docs[d].active
             /\ d \notin stale => t.docs[d] = u.docs[d]
  BY <1>2, <1>3, Deactivates
<1> HIDE DEF t
<1>5. Rewritten(s, t)
  <2> SUFFICES ASSUME NEW d \in DOMAIN t.docs
               PROVE  \/ t.docs[d] = Lexical!documentParameters(d)
                      \/ /\ d \in DOMAIN s.docs /\ (t.docs[d].active => s.docs[d].active)
                         /\ t.docs[d].file = s.docs[d].file /\ t.docs[d].fileId = s.docs[d].fileId
                         /\ t.docs[d].text = s.docs[d].text /\ t.docs[d].size = s.docs[d].size
    BY DEF Rewritten
  <2>1. CASE d \in ids
    BY <1>2, <1>4, <2>1
  <2>2. CASE d \notin ids
    <3>1. u.docs[d] = s.docs[d] /\ d \in DOMAIN s.docs /\ d \in DOMAIN u.docs
      BY <1>2, <1>4, <2>2
    <3> QED
      BY <1>4, <3>1
  <2> QED
    BY <2>1, <2>2
<1>6. ASSUME NEW d \in Lexical!Active(t)
      PROVE  IF d \in ids THEN t.docs[d].text = Lexical!Today
                ELSE d \in Lexical!Active(s) /\ t.docs[d].text = s.docs[d].text
  <2>1. d \in DOMAIN u.docs /\ t.docs[d].text = u.docs[d].text /\ d \in Lexical!Active(u)
    BY <1>4 DEF Lexical!Active
  <2>2. CASE d \in ids
    <3>1. u.docs[d] = Lexical!documentParameters(d)
      BY <1>2, <2>1, <2>2
    <3> QED
      BY <2>1, <2>2, <3>1 DEF Lexical!documentParameters
  <2>3. CASE d \notin ids
    BY <1>2, <2>1, <2>3
  <2> QED
    BY <2>2, <2>3
<1>7. Lexical!Active(t) = (Lexical!Active(s) \union ids) \ stale
  BY <1>2, <1>4
<1> QED
  BY <1>2, <1>4, <1>5, <1>6, <1>7 DEF t, u

\* The run's part of a write, the rest being what Replaced says.
LEMMA WriteOfDocuments ==
    ASSUME Lexical!FilesAssumption, NEW s, LexicalInv(s), s.run.step = Len(SchemaOf(s)) + 1, NEW u,
           u \in State, u.run = s.run,
           u.provider = s.provider, u.tables = s.tables, u.indexes = s.indexes, u.meta = s.meta,
           u.stats = Lexical!Counted(u), Rewritten(s, u), NEW todo \in SUBSET Lexical!Repos,
                     NEW alive \in SUBSET DOMAIN FileOf,
           s.run.kind \in {"copy", "full"} =>
               /\ \A d \in alive : RepoOf[d] \notin todo
               /\ \A d \in DOMAIN FileOf : RepoOf[d] \notin todo =>
                     (d \in Lexical!Active(u) <=> d \in alive) /\ (d \in Lexical!Active(u) =>
                               u.docs[d].text = Lexical!Today),
           s.run.kind = "changed" =>
               \A d \in Lexical!Active(u) : RepoOf[d] \in s.run.repos \ todo =>
                   FileOf[d] = 0 \/ \E e \in alive : FileOf[e] = FileOf[d]
    PROVE  LexicalInv(Ended(u, todo, alive))
<1> DEFINE t == Ended(u, todo, alive)
<1>1. /\ t \in State /\ t.provider = u.provider /\ t.tables = u.tables /\ t.indexes = u.indexes
      /\ t.meta = u.meta /\ t.stats = u.stats /\ t.docs = u.docs /\ Lexical!Counted(t) = Lexical!Counted(u)
                /\ Lexical!Active(t) = Lexical!Active(u)
      /\ t.run.kind = u.run.kind /\ t.run.step = u.run.step /\ t.run.repos = u.run.repos
      /\ t.run.todo = todo /\ t.run.alive = alive
  BY WithRun
<1> HIDE DEF t
<1>2. s \in State /\ Len(SchemaOf(s)) \in {8, 13} /\ DOMAIN SchemaOf(s) = 1..Len(SchemaOf(s)) /\ SchemaOf(t) = SchemaOf(s)
  BY <1>1, SchemaIsLong, SchemaIsSequence DEF LexicalInv, SchemaOf
<1>3. ~InSchema(t) /\ t.run.step \in 0..(Len(SchemaOf(t)) + 2) /\ t.run.step # Len(SchemaOf(t)) + 2
  BY <1>1, <1>2 DEF InSchema
<1>4. s.run.kind \in {"copy", "full"} => s.run.repos = Lexical!Repos
  BY <1>2 DEF LexicalInv, RunKept
<1>5. t.run.kind \in {"copy", "full"} =>
          /\ t.run.repos = Lexical!Repos
          /\ \A d \in t.run.alive : RepoOf[d] \notin t.run.todo
          /\ \A d \in DOMAIN FileOf : RepoOf[d] \notin t.run.todo =>
                /\ d \in Lexical!Active(t) <=> d \in t.run.alive
                /\ d \in Lexical!Active(t) => t.docs[d].text = Lexical!Today
  BY <1>1, <1>4
<1>6. t.run.kind = "changed" =>
          \A d \in Lexical!Active(t) : RepoOf[d] \in t.run.repos \ t.run.todo =>
              FileOf[d] = 0 \/ \E e \in t.run.alive : FileOf[e] = FileOf[d]
  BY <1>1
<1>7. RunKept(t)
  BY <1>3, <1>5, <1>6 DEF RunKept
<1>8. Rewritten(s, t)
  BY <1>1 DEF Rewritten
<1>9. LexicalInv(t)
  BY <1>1, <1>7, <1>8, WriteKeeps
<1> QED
  BY <1>9 DEF t

LEMMA FullWriteKeeps ==
    ASSUME Lexical!FilesAssumption, NEW s, LexicalInv(s), s.run.step = Len(SchemaOf(s)) + 1,
           s.run.kind \notin {"changed", "copy"},
           NEW repo \in s.run.todo, NEW ids \in SUBSET DOMAIN FileOf, \A d \in ids : RepoOf[d] = repo
    PROVE  LexicalInv(Ended(Lexical!reconcileRepoDocuments(Lexical!upsertDocuments(s, ids), repo, ids),
              s.run.todo \ {repo}, s.run.alive \union ids))
<1> DEFINE u == Lexical!upsertDocuments(s, ids)
           stale == {d \in Lexical!Active(u) : RepoOf[d] = repo /\ d \notin ids}
           v == Lexical!Deactivate(u, stale)
           todo == s.run.todo \ {repo}
           alive == s.run.alive \union ids
<1>1. stale \in SUBSET Lexical!Active(u) /\ stale \intersect ids = {}
  OBVIOUS
<1>2. Lexical!reconcileRepoDocuments(u, repo, ids) = v
  BY DEF Lexical!reconcileRepoDocuments
<1>3. /\ v \in State /\ v.provider = s.provider /\ v.run = s.run /\ v.tables = s.tables
      /\ v.indexes = s.indexes /\ v.meta = s.meta /\ v.stats = Lexical!Counted(v)
      /\ Rewritten(s, v) /\ Lexical!Active(v) = (Lexical!Active(s) \union ids) \ stale
      /\ \A d \in Lexical!Active(v) : IF d \in ids THEN v.docs[d].text = Lexical!Today
                              ELSE d \in Lexical!Active(s) /\ v.docs[d].text = s.docs[d].text
  BY <1>1, Replaced
<1>4. s \in State /\ Lexical!Active(u) = Lexical!Active(s) \union ids
  <2>1. s \in State /\ s.stats = Lexical!Counted(s)
    BY AtWriting DEF LexicalInv
  <2> QED
    BY <2>1, Upserts
<1>5. s.run.todo \in SUBSET Lexical!Repos /\ s.run.alive \in SUBSET DOMAIN FileOf
  BY <1>4 DEF State, RunType
<1>6. \A d : d \in stale <=> (d \in Lexical!Active(s) \union ids) /\ RepoOf[d] = repo /\ d \notin ids
  BY <1>4
<1> HIDE DEF u, stale, v
<1>7. \A d \in DOMAIN FileOf : RepoOf[d] = repo => (d \in Lexical!Active(v) <=> d \in ids)
  BY <1>3, <1>6
<1>8. \A d \in DOMAIN FileOf : RepoOf[d] # repo => (d \in Lexical!Active(v) <=> d \in Lexical!Active(s)) /\ d \notin ids
  BY <1>3, <1>6
<1>9. s.run.step # 0
  BY <1>4, SchemaIsLong
<1>10. s.run.kind \in {"copy", "full"} =>
          /\ \A d \in s.run.alive : RepoOf[d] \notin s.run.todo
          /\ \A d \in DOMAIN FileOf : RepoOf[d] \notin s.run.todo =>
                (d \in Lexical!Active(s) <=> d \in s.run.alive) /\ (d \in Lexical!Active(s) =>
                          s.docs[d].text = Lexical!Today)
  BY <1>9 DEF LexicalInv, RunKept
<1>11. ASSUME s.run.kind \in {"copy", "full"}
       PROVE  /\ \A d \in alive : RepoOf[d] \notin todo
              /\ \A d \in DOMAIN FileOf : RepoOf[d] \notin todo =>
                    (d \in Lexical!Active(v) <=> d \in alive) /\ (d \in Lexical!Active(v) => v.docs[d].text = Lexical!Today)
  <2>1. \A d \in alive : RepoOf[d] \notin todo
    BY <1>10, <1>11
  <2>2. ASSUME NEW d \in DOMAIN FileOf, RepoOf[d] \notin todo
        PROVE  (d \in Lexical!Active(v) <=> d \in alive) /\ (d \in Lexical!Active(v) => v.docs[d].text = Lexical!Today)
    <3>1. CASE RepoOf[d] = repo
      <4>1. d \notin s.run.alive
        BY <1>10, <1>11, <3>1
      <4> QED
        BY <1>3, <1>7, <3>1, <4>1
    <3>2. CASE RepoOf[d] # repo
      <4>1. RepoOf[d] \notin s.run.todo
        BY <2>2, <3>2
      <4>2. (d \in Lexical!Active(s) <=> d \in s.run.alive) /\ (d \in Lexical!Active(s) => s.docs[d].text = Lexical!Today)
        BY <1>10, <1>11, <4>1
      <4> QED
        BY <1>3, <1>8, <3>2, <4>2
    <3> QED
      BY <3>1, <3>2
  <2> QED
    BY <2>1, <2>2
<1>12. todo \in SUBSET Lexical!Repos /\ alive \in SUBSET DOMAIN FileOf
  BY <1>5
<1>13. s.run.kind # "changed"
  OBVIOUS
<1> HIDE DEF todo, alive
<1>14. LexicalInv(Ended(v, todo, alive))
  BY <1>3, <1>11, <1>12, <1>13, WriteOfDocuments
<1> QED
  BY <1>2, <1>14 DEF u, todo, alive

LEMMA ChangedWriteKeeps ==
    ASSUME Lexical!FilesAssumption, NEW s, LexicalInv(s), s.run.step = Len(SchemaOf(s)) + 1,
           s.run.kind = "changed",
           NEW repo \in s.run.todo, NEW ids \in SUBSET DOMAIN FileOf, \A d \in ids : RepoOf[d] = repo,
           NEW changed \in SUBSET ids
    PROVE  LexicalInv(Ended(Lexical!reconcileRepoFileDocuments(Lexical!upsertDocuments(s, changed), repo,
              {FileOf[d] : d \in ids}),
                      s.run.todo \ {repo}, s.run.alive \union ids))
<1> DEFINE u == Lexical!upsertDocuments(s, changed)
           stale == Lexical!Stale(u, repo, {FileOf[d] : d \in ids})
           v == Lexical!Deactivate(u, stale)
           todo == s.run.todo \ {repo}
           alive == s.run.alive \union ids
<1>1. changed \in SUBSET DOMAIN FileOf
  OBVIOUS
<1>2. Lexical!reconcileRepoFileDocuments(u, repo, {FileOf[d] : d \in ids}) = v
  BY DEF Lexical!reconcileRepoFileDocuments
<1>3. s \in State /\ s.stats = Lexical!Counted(s) /\ \A d \in DOMAIN s.docs : s.docs[d].fileId = FileOf[d]
  BY AtWriting DEF LexicalInv
<1>4. /\ Lexical!Active(u) = Lexical!Active(s) \union changed /\ DOMAIN u.docs = DOMAIN s.docs \union changed
      /\ \A d \in DOMAIN u.docs : u.docs[d] = IF d \in changed THEN Lexical!documentParameters(d) ELSE s.docs[d]
  BY <1>1, <1>3, Upserts
<1>5. \A d \in Lexical!Active(u) : u.docs[d].fileId = FileOf[d]
  <2> TAKE d \in Lexical!Active(u)
  <2>1. d \in DOMAIN u.docs
    BY DEF Lexical!Active
  <2>2. CASE d \in changed
    <3>1. u.docs[d] = Lexical!documentParameters(d)
      BY <1>4, <2>1, <2>2
    <3> QED
      BY <3>1 DEF Lexical!documentParameters
  <2>3. CASE d \notin changed
    BY <1>3, <1>4, <2>1, <2>3
  <2> QED
    BY <2>2, <2>3
<1> HIDE DEF u
<1>6. \A d : d \in stale <=> d \in Lexical!Active(u) /\ RepoOf[d] = repo /\ FileOf[d] # 0
          /\ FileOf[d] \notin {FileOf[e] : e \in ids}
  BY <1>5 DEF Lexical!Stale
<1>7. stale \in SUBSET Lexical!Active(u) /\ stale \intersect changed = {}
  BY <1>6
<1> HIDE DEF stale
<1>8. /\ v \in State /\ v.provider = s.provider /\ v.run = s.run /\ v.tables = s.tables
      /\ v.indexes = s.indexes /\ v.meta = s.meta /\ v.stats = Lexical!Counted(v)
      /\ Rewritten(s, v) /\ Lexical!Active(v) = (Lexical!Active(s) \union changed) \ stale
  BY <1>1, <1>7, Replaced DEF u
<1>9. s.run.todo \in SUBSET Lexical!Repos /\ s.run.alive \in SUBSET DOMAIN FileOf
  BY <1>3 DEF State, RunType
<1> HIDE DEF v
<1>10. s.run.step # 0
  BY <1>3, SchemaIsLong
<1>11. \A d \in Lexical!Active(s) : RepoOf[d] \in s.run.repos \ s.run.todo =>
          FileOf[d] = 0 \/ \E e \in s.run.alive : FileOf[e] = FileOf[d]
  BY <1>10 DEF LexicalInv, RunKept
<1>12. ASSUME NEW d \in Lexical!Active(v), RepoOf[d] \in s.run.repos \ todo
       PROVE  FileOf[d] = 0 \/ \E e \in alive : FileOf[e] = FileOf[d]
  <2>1. CASE RepoOf[d] = repo
    <3>1. d \in Lexical!Active(u) /\ d \notin stale
      BY <1>4, <1>8
    <3>2. FileOf[d] = 0 \/ FileOf[d] \in {FileOf[e] : e \in ids}
      BY <1>6, <2>1, <3>1
    <3> QED
      BY <3>2
  <2>2. CASE RepoOf[d] # repo
    <3>1. d \in Lexical!Active(s) /\ RepoOf[d] \in s.run.repos \ s.run.todo
      BY <1>8, <1>12, <2>2
    <3> QED
      BY <1>11, <3>1
  <2> QED
    BY <2>1, <2>2
<1>13. todo \in SUBSET Lexical!Repos /\ alive \in SUBSET DOMAIN FileOf
  BY <1>9
<1>14. s.run.kind \notin {"copy", "full"}
  OBVIOUS
<1> HIDE DEF todo, alive
<1>15. LexicalInv(Ended(v, todo, alive))
  BY <1>8, <1>12, <1>13, <1>14, WriteOfDocuments
<1> QED
  BY <1>2, <1>15 DEF u, todo, alive

\* A copy that reconciles nothing finds nothing active to reconcile.
LEMMA CopyKeeps ==
    ASSUME Lexical!FilesAssumption, NEW s, LexicalInv(s), s.run.step = Len(SchemaOf(s)) + 1,
           s.run.kind = "copy",
           NEW ids \in SUBSET DOMAIN FileOf
    PROVE  LexicalInv(Ended(Lexical!Copied(s, ids), {}, ids))
<1> DEFINE u == Lexical!upsertDocuments(s, ids)
           v == Lexical!Copied(s, ids)
<1>1. s \in State /\ s.stats = Lexical!Counted(s)
  BY AtWriting DEF LexicalInv
<1>2. /\ u \in State /\ u.provider = s.provider /\ u.run = s.run /\ u.tables = s.tables
      /\ u.indexes = s.indexes /\ u.meta = s.meta /\ u.stats = Lexical!Counted(u)
      /\ DOMAIN u.docs = DOMAIN s.docs \union ids /\ Lexical!Active(u) = Lexical!Active(s) \union ids
      /\ \A d \in DOMAIN u.docs : u.docs[d] = IF d \in ids THEN Lexical!documentParameters(d) ELSE s.docs[d]
  BY <1>1, Upserts
<1>3. /\ v \in State /\ v.provider = s.provider /\ v.run = s.run /\ v.tables = s.tables
      /\ v.indexes = s.indexes /\ v.meta = s.meta /\ v.stats = Lexical!Counted(v)
      /\ Rewritten(s, v) /\ Lexical!Active(v) = ids /\ (\A d \in Lexical!Active(v) : v.docs[d].text = Lexical!Today)
  <2>1. CASE Lexical!resolveFullCopyLexicalReconcile(s)
    <3> DEFINE stale == Lexical!Active(s) \ ids
    <3>1. v = Lexical!Deactivate(u, stale)
      BY <2>1 DEF Lexical!Copied
    <3>2. stale \in SUBSET Lexical!Active(u) /\ stale \intersect ids = {} /\ (Lexical!Active(s) \union ids) \ stale = ids
      BY <1>2
    <3> DEFINE w == Lexical!Deactivate(u, stale)
    <3>3. /\ w \in State /\ w.provider = s.provider /\ w.run = s.run /\ w.tables = s.tables
          /\ w.indexes = s.indexes /\ w.meta = s.meta /\ w.stats = Lexical!Counted(w)
          /\ Rewritten(s, w) /\ Lexical!Active(w) = (Lexical!Active(s) \union ids) \ stale
          /\ \A d \in Lexical!Active(w) : IF d \in ids THEN w.docs[d].text = Lexical!Today
                                  ELSE d \in Lexical!Active(s) /\ w.docs[d].text = s.docs[d].text
      BY <3>2, Replaced
    <3>4. v = w
      BY <3>1
    <3> HIDE DEF v, w, stale
    <3> QED
      BY <3>2, <3>3, <3>4
  <2>2. CASE ~Lexical!resolveFullCopyLexicalReconcile(s)
    <3>1. v = u
      BY <2>2 DEF Lexical!Copied
    <3>2. Lexical!Cardinality(Lexical!Active(s)) = 0
      BY <1>1, <2>2 DEF Lexical!resolveFullCopyLexicalReconcile, Lexical!Counted
    <3>3. Lexical!IsFiniteSet(Lexical!Active(s))
      BY <1>1, ActiveIsKnown, BytesFinite
    <3>4. Lexical!Active(s) = {}
      BY <3>2, <3>3, LX_EmptySet
    <3>5. \A d \in DOMAIN s.docs : ~s.docs[d].active
      BY <3>4 DEF Lexical!Active
    <3>6. Lexical!Active(u) = ids
      BY <1>2, <3>4
    <3>7. \A d \in ids : d \in DOMAIN u.docs /\ u.docs[d].text = Lexical!Today
      <4> TAKE d \in ids
      <4>1. d \in DOMAIN u.docs /\ u.docs[d] = Lexical!documentParameters(d)
        BY <1>2
      <4> QED
        BY <4>1 DEF Lexical!documentParameters
    <3>8. Rewritten(s, u)
      <4> SUFFICES ASSUME NEW d \in DOMAIN u.docs
                   PROVE  \/ u.docs[d] = Lexical!documentParameters(d)
                          \/ /\ d \in DOMAIN s.docs /\ (u.docs[d].active => s.docs[d].active)
                             /\ u.docs[d].file = s.docs[d].file /\ u.docs[d].fileId = s.docs[d].fileId
                             /\ u.docs[d].text = s.docs[d].text /\ u.docs[d].size = s.docs[d].size
        BY DEF Rewritten
      <4>1. CASE d \in ids
        BY <1>2, <4>1
      <4>2. CASE d \notin ids
        BY <1>2, <4>2
      <4> QED
        BY <4>1, <4>2
    <3> HIDE DEF u, v
    <3> QED
      BY <1>2, <3>1, <3>6, <3>7, <3>8
  <2> QED
    BY <2>1, <2>2
<1> HIDE DEF v
<1>4. {} \in SUBSET Lexical!Repos /\ ids \in SUBSET DOMAIN FileOf /\ s.run.kind # "changed"
  OBVIOUS
<1>5. LexicalInv(Ended(v, {}, ids))
  BY <1>3, <1>4, WriteOfDocuments
<1> QED
  BY <1>5 DEF v
-----------------------------------------------------------------------------
(* Every step. *)

LEMMA ExecuteKeeps ==
    ASSUME Lexical!FilesAssumption, LexicalInv(lexical), Lexical!Execute
    PROVE  LexicalInv(lexical)'
<1> DEFINE s == lexical
           name == Lexical!Schema[Lexical!run.step]
<1>1. s \in State /\ s.provider \in {"kuzu", "neo4j"} /\ Lexical!Schema = SchemaOf(s)
  BY DEF LexicalInv, State, Lexical!Schema, SchemaOf
<1>2. AtStatement(s, name) /\ lexical' = Lexical!Advance(Lexical!Statement(s, name))
          /\ name \notin {"columns", "drop", "await"}
  BY <1>1 DEF Lexical!Execute, AtStatement, InSchema, Lexical!run
<1>3. name \in {"documents", "columns", "texts", "metadata", "mark", "stats", "unsized", "sizes", "files", "drop", "index",
                "versions", "rebuild", "await"}
  <2>1. CASE s.provider = "kuzu"
    BY <1>1, <1>2, <2>1 DEF AtStatement, InSchema, SchemaOf, Lexical!ensureSchema
  <2>2. CASE s.provider = "neo4j"
    BY <1>1, <1>2, <2>2 DEF AtStatement, InSchema, SchemaOf, Lexical!ensureSchema
  <2> QED
    BY <1>1, <2>1, <2>2
<1> HIDE DEF name, s
<1>4. LexicalInv(Lexical!Advance(Lexical!Statement(s, name)))
  <2>0. LexicalInv(s)
    BY DEF s
  <2>1. CASE name = "documents"
    BY <1>2, <2>0, <2>1, CreateDocumentsKeeps DEF Lexical!Statement
  <2>2. CASE name = "texts"
    BY <1>2, <2>0, <2>2, FillTextsKeeps DEF Lexical!Statement
  <2>3. CASE name = "metadata"
    BY <1>2, <2>0, <2>3, CreateMetadataKeeps DEF Lexical!Statement
  <2>4. CASE name = "mark"
    BY <1>2, <2>0, <2>4, InvalidateMissingKeeps DEF Lexical!Statement
  <2>5. CASE name = "stats"
    BY <1>2, <2>0, <2>5, CreateStatsKeeps DEF Lexical!Statement
  <2>6. CASE name = "unsized"
    BY <1>2, <2>0, <2>6, InvalidateUnsizedKeeps DEF Lexical!Statement
  <2>7. CASE name = "sizes"
    BY <1>2, <2>0, <2>7, KuzuSizesKeep, Neo4jSizesKeep DEF Lexical!Statement
  <2>8. CASE name = "files"
    BY <1>2, <2>0, <2>8, FileIdsKeep DEF Lexical!Statement
  <2>9. CASE name = "index"
    BY <1>2, <2>0, <2>9, CreateIndexKeeps DEF Lexical!Statement
  <2>10. CASE name = "versions"
    BY <1>2, <2>0, <2>10, VersionsKeep DEF Lexical!Statement
  <2>11. CASE name = "rebuild"
    BY <1>2, <2>0, <2>11, RebuildKeeps DEF Lexical!Statement
  <2> QED
    BY <1>2, <1>3, <2>1, <2>2, <2>3, <2>4, <2>5, <2>6, <2>7, <2>8, <2>9, <2>10, <2>11
<1> QED
  BY <1>2, <1>4

LEMMA AtIsStatement ==
    ASSUME NEW name, LexicalInv(lexical)
    PROVE  Lexical!At(name) <=> AtStatement(lexical, name)
BY DEF Lexical!At, AtStatement, InSchema, SchemaOf, Lexical!Schema, Lexical!run

\* What was projected anew is everything there is, when the version is committed.
LEMMA CommitKeeps ==
    ASSUME Lexical!FilesAssumption, LexicalInv(lexical), Lexical!Commit
    PROVE  LexicalInv(lexical)'
<1> DEFINE s == lexical
           kind == Lexical!run.kind
           u == Lexical!commitVersions(s, kind)
           t == Lexical!Advance(u)
<1>1. s \in State /\ SchemaOf(s) = Lexical!Schema /\ s.run.step = Len(SchemaOf(s)) + 1 /\ s.run.todo = {} /\ lexical' = t
  BY DEF LexicalInv, SchemaOf, Lexical!Schema, Lexical!run, Lexical!Commit, Lexical!Writing
<1>2. Len(SchemaOf(s)) \in {8, 13} /\ DOMAIN SchemaOf(s) = 1..Len(SchemaOf(s))
  BY <1>1, SchemaIsLong, SchemaIsSequence
<1>3. kind \in {"copy", "full"} => s.run.repos = Lexical!Repos /\ (\A d \in DOMAIN FileOf :
          (d \in Lexical!Active(s) <=> d \in s.run.alive) /\ (d \in Lexical!Active(s) => s.docs[d].text = Lexical!Today))
  BY <1>1, <1>2 DEF LexicalInv, RunKept, Lexical!run
<1>4. /\ u \in State /\ u.provider = s.provider /\ u.run = s.run /\ u.tables = s.tables
      /\ u.docs = s.docs /\ u.indexes = s.indexes /\ u.stats = s.stats /\ u.meta.stats = s.meta.stats
      /\ kind \in {"copy", "full"} => u.meta.projection = "current" /\ u.meta.tokenizer = "current"
      /\ kind \notin {"copy", "full"} => u.meta = s.meta
  <2>1. CASE kind \notin {"copy", "full"}
    <3>1. u = s
      BY <2>1 DEF Lexical!commitVersions
    <3> QED
      BY <1>1, <2>1, <3>1
  <2>2. CASE kind \in {"copy", "full"}
    <3> DEFINE m == [[s.meta EXCEPT !.projection = "current"] EXCEPT !.tokenizer = "current"]
    <3>1. /\ m \in [projection : Versions, tokenizer : Versions, stats : {"missing", "incomplete", "current"}]
          /\ m.stats = s.meta.stats /\ m.projection = "current" /\ m.tokenizer = "current"
      BY <1>1 DEF State, Versions
    <3>2. u = [s EXCEPT !.meta = m]
      BY <1>1, <2>2 DEF Lexical!commitVersions, State
    <3> HIDE DEF m, u
    <3>3. /\ u \in State /\ u.provider = s.provider /\ u.run = s.run /\ u.tables = s.tables
          /\ u.docs = s.docs /\ u.indexes = s.indexes /\ u.stats = s.stats /\ u.meta = m
      BY <1>1, <3>1, <3>2 DEF State
    <3> QED
      BY <2>2, <3>1, <3>3
  <2> QED
    BY <2>1, <2>2
<1> HIDE DEF u
<1>5. /\ t \in State /\ t.run = [s.run EXCEPT !.step = s.run.step + 1] /\ t.provider = s.provider
      /\ t.tables = s.tables /\ t.docs = s.docs /\ t.stats = s.stats /\ t.indexes = s.indexes /\ t.meta = u.meta
  BY <1>4, Advanced
<1> HIDE DEF t
<1>6. t.run.step = Len(SchemaOf(s)) + 2 /\ t.run.kind = s.run.kind /\ t.run.todo = s.run.todo /\ t.run.repos = s.run.repos
      /\ t.run.alive = s.run.alive
  BY <1>1, <1>2, <1>5 DEF State, RunType
<1>7. SchemaOf(t) = SchemaOf(s)
  BY <1>5 DEF SchemaOf
<1>8. \A n : Done(t, n) <=> Done(s, n)
  BY <1>1, <1>2, <1>6, <1>7 DEF Done
<1>9. Lexical!Active(t) = Lexical!Active(s) /\ Lexical!Counted(t) = Lexical!Counted(s)
          /\ Lexical!Sizeless(t) = Lexical!Sizeless(s)
  BY <1>5, SameDocs, SameSizesCount DEF Lexical!Active
<1>10. DocsKept(t)
  BY <1>5, <1>8 DEF LexicalInv, DocsKept
<1>11. TablesKept(t) /\ IndexesKept(t)
  BY <1>5, <1>8 DEF LexicalInv, TablesKept, IndexesKept
<1>12. StatsKept(t)
  BY <1>4, <1>5, <1>8, <1>9 DEF LexicalInv, StatsKept
<1>13. TextsKept(t)
  <2>1. CASE kind \in {"copy", "full"}
    <3>1. \A d \in Lexical!Active(s) : s.docs[d].text = Lexical!Today
      BY <1>1, <1>3, <2>1, ActiveIsKnown
    <3> QED
      BY <1>4, <1>5, <1>9, <2>1, <3>1 DEF TextsKept
  <2>2. CASE kind \notin {"copy", "full"}
    BY <1>4, <1>5, <1>8, <1>9, <2>2 DEF LexicalInv, TextsKept
  <2> QED
    BY <2>1, <2>2
<1>14. s.run.kind = "changed" =>
          \A d \in Lexical!Active(s) : RepoOf[d] \in s.run.repos \ s.run.todo =>
              FileOf[d] = 0 \/ \E e \in s.run.alive : FileOf[e] = FileOf[d]
  BY <1>1, <1>2 DEF LexicalInv, RunKept
<1>15. ~InSchema(t) /\ t.run.step \in 0..(Len(SchemaOf(t)) + 2) /\ t.run.todo = {}
  BY <1>1, <1>2, <1>6, <1>7 DEF InSchema
<1>16. kind = t.run.kind
  BY <1>6 DEF Lexical!run
<1>17. t.run.kind \in {"copy", "full"} =>
          /\ t.run.repos = Lexical!Repos
          /\ \A d \in t.run.alive : RepoOf[d] \notin t.run.todo
          /\ \A d \in DOMAIN FileOf : RepoOf[d] \notin t.run.todo =>
                /\ d \in Lexical!Active(t) <=> d \in t.run.alive
                /\ d \in Lexical!Active(t) => t.docs[d].text = Lexical!Today
          /\ t.meta.projection = "current" /\ t.meta.tokenizer = "current"
  BY <1>3, <1>4, <1>5, <1>6, <1>9, <1>15, <1>16
<1>18. t.run.kind = "changed" =>
          \A d \in Lexical!Active(t) : RepoOf[d] \in t.run.repos \ t.run.todo =>
              FileOf[d] = 0 \/ \E e \in t.run.alive : FileOf[e] = FileOf[d]
  BY <1>6, <1>9, <1>14
<1>19. RunKept(t)
  BY <1>15, <1>17, <1>18 DEF RunKept
<1> QED
  BY <1>1, <1>5, <1>10, <1>11, <1>12, <1>13, <1>19 DEF LexicalInv

LEMMA NextKeeps ==
    ASSUME Lexical!FilesAssumption, LexicalInv(lexical), [Lexical!Next]_lexical
    PROVE  LexicalInv(lexical)'
<1>0. lexical \in State /\ Lexical!Schema = SchemaOf(lexical)
  BY DEF LexicalInv, Lexical!Schema, SchemaOf
<1>1. CASE Lexical!Open
  BY <1>1, FoundKeeps DEF Lexical!Open
<1>2. ASSUME NEW kind \in {"copy", "full", "changed"}, Lexical!Start(kind, Lexical!Repos)
      PROVE  LexicalInv(lexical)'
  BY <1>2, StartKeeps
<1>3. ASSUME NEW kind \in {"full", "changed"}, NEW repo \in Lexical!Repos,
             Lexical!Start(IF kind = "full" THEN "repo" ELSE kind, {repo})
      PROVE  LexicalInv(lexical)'
  <2> DEFINE actual == IF kind = "full" THEN "repo" ELSE kind
  <2>1. actual \in {"copy", "full", "changed", "repo"} /\ actual \notin {"copy", "full"} /\ {repo} \in SUBSET Lexical!Repos
    OBVIOUS
  <2>2. Lexical!Start(actual, {repo})
    BY <1>3
  <2> HIDE DEF actual
  <2> QED
    BY <2>1, <2>2, StartKeeps
<1>4. CASE Lexical!AddColumn
  <2>1. AtStatement(lexical, "columns")
    BY <1>4, AtIsStatement DEF Lexical!AddColumn
  <2>2. CASE lexical' = Lexical!Advance(lexical)
    BY <2>1, <2>2, ColumnsKeep
  <2>3. ASSUME NEW k \in Lexical!missingColumns(lexical),
               lexical' = [lexical EXCEPT !.columns = @ \union {Lexical!Columns[k]}]
        PROVE  LexicalInv(lexical)'
    <3>1. k \in DOMAIN Lexical!Columns
      BY DEF Lexical!missingColumns
    <3> QED
      BY <2>3, <3>1, AddColumnKeeps
  <2> QED
    BY <1>4, <2>2, <2>3 DEF Lexical!AddColumn
<1>5. CASE Lexical!DropIndex
  <2>1. AtStatement(lexical, "drop")
    BY <1>5, AtIsStatement DEF Lexical!DropIndex
  <2>2. CASE Lexical!Unexpected(lexical) = {} /\ lexical' = Lexical!Advance(lexical)
    BY <2>1, <2>2, DropIndexKeeps
  <2>3. ASSUME NEW index \in Lexical!Unexpected(lexical),
               lexical' = [lexical EXCEPT !.indexes = @ \ {index}]
        PROVE  LexicalInv(lexical)'
    BY <2>1, <2>3, DropKeeps
  <2> QED
    BY <1>5, <2>2, <2>3 DEF Lexical!DropIndex
<1>6. CASE Lexical!AwaitIndex
  <2>1. AtStatement(lexical, "await")
    BY <1>6, AtIsStatement DEF Lexical!AwaitIndex
  <2>2. CASE lexical' = Lexical!Advance([lexical EXCEPT !.indexes = {Lexical!Index("workspace", TRUE, "ONLINE")}])
    BY <2>1, <2>2, AwaitKeeps
  <2>3. CASE lexical' = [lexical EXCEPT !.indexes = {Lexical!Index("workspace", TRUE, "FAILED")}, !.run.step = 0]
    BY <2>1, <2>3, FailKeeps
  <2> QED
    BY <1>6, <2>2, <2>3 DEF Lexical!AwaitIndex
<1>7. CASE Lexical!Execute
  BY <1>7, ExecuteKeeps
<1>8. CASE Lexical!WriteRepo
  <2> DEFINE s == lexical
  <2>1. s.run.step = Len(SchemaOf(s)) + 1 /\ s.run.kind # "copy"
    BY <1>0, <1>8 DEF Lexical!WriteRepo, Lexical!Writing, Lexical!run
  <2>2. PICK repo \in s.run.todo, ids \in SUBSET DOMAIN FileOf :
           /\ \A d \in ids : RepoOf[d] = repo
           /\ \E changed \in SUBSET ids :
                 lexical' = [Lexical!Written(s, repo, ids, changed) EXCEPT
                               !.run = [@ EXCEPT !.todo = Lexical!run.todo \ {repo}, !.alive =
                                         Lexical!run.alive \union ids, !.graphEmpty = FALSE]]
    BY <1>8 DEF Lexical!WriteRepo, Lexical!run
  <2>3. PICK changed \in SUBSET ids :
           lexical' = Ended(Lexical!Written(s, repo, ids, changed), s.run.todo \ {repo}, s.run.alive \union ids)
    BY <2>2 DEF Ended, WrittenRun, Lexical!run
  <2>4. CASE s.run.kind = "changed"
    <3>1. Lexical!Written(s, repo, ids, changed) =
              Lexical!reconcileRepoFileDocuments(Lexical!upsertDocuments(s, changed), repo, {FileOf[d] : d \in ids})
      BY <2>4 DEF Lexical!Written, Lexical!run
    <3>2. \A d \in ids : RepoOf[d] = repo
      BY <2>2
    <3> HIDE DEF s
    <3>3. LexicalInv(s)
      BY DEF s
    <3> QED
      BY <2>1, <2>3, <2>4, <3>1, <3>2, <3>3, ChangedWriteKeeps
  <2>5. CASE s.run.kind # "changed"
    <3>1. Lexical!Written(s, repo, ids, changed) =
              Lexical!reconcileRepoDocuments(Lexical!upsertDocuments(s, ids), repo, ids)
      BY <2>5 DEF Lexical!Written, Lexical!run
    <3>2. \A d \in ids : RepoOf[d] = repo
      BY <2>2
    <3> HIDE DEF s
    <3>3. LexicalInv(s)
      BY DEF s
    <3> QED
      BY <2>1, <2>3, <2>5, <3>1, <3>2, <3>3, FullWriteKeeps
  <2> QED
    BY <2>4, <2>5
<1>9. CASE Lexical!WriteCopy
  <2> DEFINE s == lexical
  <2>1. s.run.step = Len(SchemaOf(s)) + 1 /\ s.run.kind = "copy"
    BY <1>0, <1>9 DEF Lexical!WriteCopy, Lexical!Writing, Lexical!run
  <2>2. PICK ids \in SUBSET DOMAIN FileOf : lexical' = Ended(Lexical!Copied(s, ids), {}, ids)
    BY <1>9 DEF Lexical!WriteCopy, Ended, WrittenRun
  <2> QED
    BY <2>1, <2>2, CopyKeeps
<1>10. CASE Lexical!Commit
  BY <1>10, CommitKeeps
<1>11. CASE Lexical!Interrupt
  BY <1>11, StopKeeps DEF Lexical!Interrupt
<1>12. CASE UNCHANGED lexical
  BY <1>12
<1> QED
  BY <1>1, <1>2, <1>3, <1>4, <1>5, <1>6, <1>7, <1>8, <1>9, <1>10, <1>11, <1>12 DEF Lexical!Next

LEMMA InvSound ==
    ASSUME Lexical!FilesAssumption, LexicalInv(lexical)
    PROVE  Lexical!ReadyMeansSound
<1> SUFFICES ASSUME Lexical!healthGateReason(lexical) = "ready"
             PROVE  (\A d \in Lexical!Active(lexical) : lexical.docs[d].text = Lexical!Today)
                       /\ lexical.stats = Lexical!Counted(lexical)
  BY DEF Lexical!ReadyMeansSound
<1>1. /\ lexical.meta.projection = "current" /\ Lexical!Reasons(lexical) = {}
  BY DEF Lexical!healthGateReason
<1>2. lexical.tables = AllTables /\ lexical.meta.stats = "current"
  BY <1>1 DEF Lexical!Reasons, AllTables
<1>3. "stats" \in lexical.tables
  BY <1>2 DEF AllTables
<1> QED
  BY <1>1, <1>2, <1>3 DEF LexicalInv, StatsKept, TextsKept

LEMMA InvServes ==
    ASSUME Lexical!FilesAssumption, LexicalInv(lexical)
    PROVE  Lexical!FinishedRunServes
<1> DEFINE s == lexical
<1>1. s \in State /\ Lexical!Schema = SchemaOf(s)
  BY DEF LexicalInv, Lexical!Schema, SchemaOf
<1> SUFFICES ASSUME Lexical!Finished
             PROVE  /\ s.run.kind \in {"copy", "full"} =>
                         Lexical!healthGateReason(s) = "ready" /\ Lexical!search(s) = s.run.alive
                    /\ s.run.kind = "changed" =>
                           \A d \in Lexical!search(s) : RepoOf[d] \in s.run.repos =>
                               FileOf[d] = 0 \/ FileOf[d] \in {FileOf[e] : e \in s.run.alive}
  BY DEF Lexical!FinishedRunServes, Lexical!run
<1>2. s.run.step = Len(SchemaOf(s)) + 2 /\ Len(SchemaOf(s)) \in {8, 13}
  BY <1>1, SchemaIsLong DEF Lexical!Finished, Lexical!run
<1>3. s.run.todo = {} /\ s.run.step # 0
  BY <1>2 DEF LexicalInv, RunKept
<1>4. Lexical!search(s) \subseteq Lexical!Active(s)
  BY DEF Lexical!search
<1>5. ASSUME s.run.kind = "changed", NEW d \in Lexical!search(s), RepoOf[d] \in s.run.repos
      PROVE  FileOf[d] = 0 \/ FileOf[d] \in {FileOf[e] : e \in s.run.alive}
  <2>1. FileOf[d] = 0 \/ \E e \in s.run.alive : FileOf[e] = FileOf[d]
    BY <1>3, <1>4, <1>5 DEF LexicalInv, RunKept
  <2> QED
    BY <2>1
<1>6. ASSUME s.run.kind \in {"copy", "full"}
      PROVE  Lexical!healthGateReason(s) = "ready" /\ Lexical!search(s) = s.run.alive
  <2>1. /\ \A d \in DOMAIN FileOf : (d \in Lexical!Active(s) <=> d \in s.run.alive)
             /\ (d \in Lexical!Active(s) => s.docs[d].text = Lexical!Today)
        /\ s.meta.projection = "current" /\ s.meta.tokenizer = "current"
    BY <1>2, <1>3, <1>6 DEF LexicalInv, RunKept
  <2>2. s.run.alive \subseteq DOMAIN FileOf /\ Lexical!Active(s) \subseteq DOMAIN FileOf
    BY <1>1, ActiveIsKnown DEF State, RunType
  <2>3. Lexical!search(s) = s.run.alive
    BY <2>1, <2>2 DEF Lexical!search, Lexical!Null, Lexical!Today
  <2>4. /\ s.stats = Lexical!Counted(s) /\ s.meta.stats = "current" /\ s.tables = AllTables
        /\ s.indexes = {Lexical!Index("workspace", TRUE, "ONLINE")}
    <3>1. s.run.step > Len(SchemaOf(s))
      BY <1>1, <1>2
    <3> HIDE DEF s
    <3>2. LexicalInv(s)
      BY DEF s
    <3> QED
      BY <3>1, <3>2, WrittenStands
  <2>5. s.stats.count \in Nat /\ s.stats.bytes \in Nat
    BY <1>1, <2>4, CountedType
  <2>6. Lexical!IndexReasons(s) = {}
    BY <2>4 DEF Lexical!IndexReasons, Lexical!Index
  <2>7. Lexical!Reasons(s) = {}
    BY <2>4, <2>6 DEF Lexical!Reasons, AllTables
  <2>8. ~(s.stats.count < 0 \/ s.stats.bytes < 0)
    BY <2>5
  <2> QED
    BY <2>1, <2>3, <2>4, <2>7, <2>8 DEF Lexical!healthGateReason
<1> QED
  BY <1>5, <1>6

\* Whatever was cut short before: when a question is let through, the
\* statistics are those of the documents and these are indexed as today; and
\* a run that finished serves what it has seen.
THEOREM LexicalStoreIsSound ==
    ASSUME Lexical!FilesAssumption
    PROVE  Lexical!Spec => [](Lexical!ReadyMeansSound /\ Lexical!FinishedRunServes)
<1>1. Lexical!Init => LexicalInv(lexical)
  BY EmptyKeeps DEF Lexical!Init
<1>2. LexicalInv(lexical) /\ [Lexical!Next]_lexical => LexicalInv(lexical)'
  BY NextKeeps
<1>3. LexicalInv(lexical) => Lexical!ReadyMeansSound /\ Lexical!FinishedRunServes
  BY InvSound, InvServes
<1> QED
  BY <1>1, <1>2, <1>3, PTL DEF Lexical!Spec
-----------------------------------------------------------------------------
(* The whole: what is asked first decides which component runs. *)

\* SemanticIndex's promise holds of every behaviour the run of the services checks, for
\* any inputs, levels and number of index runs (embeddings phase).
THEOREM EmbeddingsOfTheWhole == WholeSpec => []NothingStoredIsLost
<1>1. Init => Embeddings!Init
  BY DEF Init
<1>2. [Next]_vars => [Embeddings!Next]_semantic
  BY DEF Next, vars, Ask, Answer, machines
<1>3. Embeddings!Spec => []NothingStoredIsLost
  BY NothingIsLost DEF NothingStoredIsLost
<1> QED
  BY <1>1, <1>2, <1>3, PTL DEF WholeSpec, Embeddings!Spec

\* LexicalStore's promises hold of every behaviour the run of the services checks, for
\* any documents, files and repositories (Kuzu and Neo4j workspace lexical stores).
THEOREM LexicalStoreOfTheWhole == WholeSpec => []LexicalIndexIsHonest
<1>1. Init => Lexical!Init
  BY DEF Init
<1>2. [Next]_vars => [Lexical!Next]_lexical
  BY DEF Next, vars, Ask, Answer, machines
<1>3. Lexical!Spec => []LexicalIndexIsHonest
  BY LexicalStoreIsSound, ServicesAssumption DEF LexicalIndexIsHonest, ServicesAssumption
<1> QED
  BY <1>1, <1>2, <1>3, PTL DEF WholeSpec, Lexical!Spec
=============================================================================
