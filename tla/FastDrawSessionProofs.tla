----------------------- MODULE FastDrawSessionProofs ------------------------
(***************************************************************************)
(* Theorems about FastDrawSession, for every set of roles, models, presets *)
(* and scenes, and for every number of hr processes, calls and faults.     *)
(***************************************************************************)
EXTENDS FastDrawSession, FastDrawBridgeProofs

(***************************************************************************)
(* The OMO file: what is read is well-formed, and what a write does to it  *)
(***************************************************************************)

\* An entry is one of the file's, or none.
LEMMA EntryTyped ==
    ASSUME NEW o \in Omo!OmoFiles, NEW r \in Roles
    PROVE  Omo!EntryOf(o, r) \in {None} \cup Omo!Entries
  <1>1. CASE o \in {Absent, Torn}
    BY <1>1 DEF Omo!EntryOf
  <1>2. CASE o \notin {Absent, Torn}
    <2>1. o \in Omo!Parsed
      BY <1>2 DEF Omo!OmoFiles
    <2>2. o.top[r] \in {None} \cup Omo!Entries /\ o.block[r] \in {None} \cup Omo!Entries
      BY <2>1 DEF Omo!Parsed, Omo!Sections
    <2>3. QED
      BY <1>2, <2>2 DEF Omo!EntryOf
  <1>3. QED
    BY <1>1, <1>2

\* A target is a model and a chain, and a category's model is the head of its chain.
LEMMA TargetTyped ==
    ASSUME NEW o \in Omo!OmoFiles, NEW r \in Roles
    PROVE  /\ Omo!Target(o, r) \in Omo!Targets
           /\ r \in Categories /\ Omo!Target(o, r).models \notin {None, <<>>}
              => Omo!Target(o, r).model = Omo!Target(o, r).models[1]
  <1> DEFINE e == Omo!EntryOf(o, r)
             head == IF e # None /\ e.models \notin {None, <<>>} THEN e.models[1] ELSE None
             model == IF Omo!Kind(r) = "category" THEN IF head # None THEN head ELSE e.model
                      ELSE IF e.model # None THEN e.model ELSE head
  <1>1. e \in {None} \cup Omo!Entries
    BY EntryTyped
  <1>2. CASE e = None
    <2>1. Omo!Target(o, r) = [model |-> None, models |-> None]
      BY <1>2 DEF Omo!Target
    <2>2. QED
      BY <2>1 DEF Omo!Targets
  <1>3. CASE e # None
    <2>1. e \in Omo!Entries
      BY <1>1, <1>3
    <2>2. e.model \in {None} \cup Models /\ e.models \in {None} \cup Seq(Models)
      BY <2>1 DEF Omo!Entries
    <2>3. Omo!Target(o, r) = [model |-> model, models |-> e.models]
      BY <1>3 DEF Omo!Target
    <2>4. CASE e.models \in {None, <<>>}
      <3>1. head = None
        BY <2>4
      <3>2. model \in {None} \cup Models
        BY <2>2, <3>1
      <3> HIDE DEF e, head, model
      <3>3. QED
        BY <2>2, <2>3, <2>4, <3>2 DEF Omo!Targets
    <2>5. CASE e.models \notin {None, <<>>}
      <3>1. e.models \in Seq(Models) /\ e.models # <<>>
        BY <2>2, <2>5
      <3>2. e.models[1] \in Models
        BY <3>1
      <3>3. head = e.models[1] /\ head \in Models
        BY <1>3, <2>5, <3>2
      <3>4. model \in {None} \cup Models
        BY <2>2, <3>3
      <3>5. r \in Categories => model = e.models[1]
        BY <3>3, SessionAssumption DEF Omo!Kind
      <3> HIDE DEF e, head, model
      <3>6. QED
        BY <2>2, <2>3, <3>4, <3>5 DEF Omo!Targets
    <2>6. QED
      BY <2>4, <2>5
  <1>4. QED
    BY <1>2, <1>3

\* A spec of a model.
LEMMA SpecTyped ==
    ASSUME NEW m \in Models
    PROVE  Omo!Spec(m) \in Omo!Specs /\ Omo!Spec(m) # None
  BY SessionAssumption DEF Omo!Spec, Omo!Specs

\* A record of a target.
LEMMA RecordTyped ==
    ASSUME NEW prev \in {None} \cup Omo!Records, NEW m \in Models, NEW t \in Omo!Targets
    PROVE  Omo!Record(prev, m, t) \in Omo!Records /\ Omo!Record(prev, m, t) # None
  <1>1. t.model \in {None} \cup Models /\ t.models \in {None} \cup Seq(Models)
    BY DEF Omo!Targets
  <1>2. prev # None => /\ prev.original \in {None} \cup Models
                       /\ prev.chain \in {None} \cup Seq(Models)
    BY DEF Omo!Records
  <1> DEFINE original == IF prev # None /\ prev.original # None THEN prev.original ELSE t.model
             chain == IF prev # None /\ prev.chain # None THEN prev.chain ELSE t.models
  <1>3. Omo!Record(prev, m, t) = [model |-> m, original |-> original, chain |-> chain]
    BY DEF Omo!Record
  <1>4. original \in {None} \cup Models /\ chain \in {None} \cup Seq(Models)
    BY <1>1, <1>2
  <1> HIDE DEF original, chain
  <1>5. Omo!Record(prev, m, t) \in Omo!Records
    BY <1>3, <1>4 DEF Omo!Records
  <1>6. QED
    BY <1>5, SessionAssumption

\* What takes a record back is a spec, unless the record has no original.
LEMMA RevertTyped ==
    ASSUME NEW rec \in Omo!Records, NEW kind
    PROVE  /\ Omo!RevertSpec(kind, rec) \in {None} \cup Omo!Specs
           /\ rec.original # None => Omo!RevertSpec(kind, rec) # None
  <1>1. rec.original \in {None} \cup Models /\ rec.chain \in {None} \cup Seq(Models)
    BY DEF Omo!Records
  <1>2. CASE rec.original = None
    BY <1>2 DEF Omo!RevertSpec
  <1>3. CASE rec.original # None
    <2>1. [model |-> rec.original, models |-> rec.chain] \in Omo!Specs
      BY <1>1, <1>3 DEF Omo!Specs
    <2>2. Omo!Spec(rec.original) \in Omo!Specs
      BY <1>1, <1>3, SpecTyped
    <2>3. Omo!RevertSpec(kind, rec) \in Omo!Specs
      BY <1>3, <2>1, <2>2 DEF Omo!RevertSpec
    <2>4. QED
      BY <2>3, SessionAssumption
  <1>4. QED
    BY <1>2, <1>3

\* The chain an entry stands for.
LEMMA ChainTyped ==
    ASSUME NEW e \in {None} \cup Omo!Entries
    PROVE  Omo!ChainOf(e) \in Seq(Models)
  <1>1. CASE e = None
    BY <1>1 DEF Omo!ChainOf
  <1>2. CASE e # None
    <2>1. /\ e.model \in {None} \cup Models /\ e.models \in {None} \cup Seq(Models)
          /\ e.fallbacks \in Seq(Models)
      BY <1>2 DEF Omo!Entries
    <2>2. e.model # None => <<e.model>> \o e.fallbacks \in Seq(Models)
      BY <2>1
    <2>3. QED
      BY <1>2, <2>1, <2>2 DEF Omo!ChainOf
  <1>3. QED
    BY <1>1, <1>2

\* The chain a spec leads to: the spec's own, or one that begins with its model.
LEMMA CanonicalTyped ==
    ASSUME NEW e \in {None} \cup Omo!Entries, NEW spec \in Omo!Specs
    PROVE  /\ Omo!CanonicalChain(e, spec) \in Seq(Models)
           /\ spec.models # None => Omo!CanonicalChain(e, spec) = spec.models
           /\ spec.models = None => /\ Omo!CanonicalChain(e, spec) # <<>>
                                    /\ Omo!CanonicalChain(e, spec)[1] = spec.model
  <1> DEFINE chain == Omo!ChainOf(e)
  <1>1. spec.model \in Models /\ spec.models \in {None} \cup Seq(Models)
    BY DEF Omo!Specs
  <1>2. chain \in Seq(Models)
    BY ChainTyped
  <1>3. Omo!CanonicalChain(e, spec) = IF spec.models # None THEN spec.models
                                      ELSE IF chain = <<>> THEN <<spec.model>>
                                      ELSE <<spec.model>> \o Tail(chain)
    BY DEF Omo!CanonicalChain
  <1> HIDE DEF chain
  <1>4. chain # <<>> => Tail(chain) \in Seq(Models)
    BY <1>2
  <1>5. QED
    BY <1>1, <1>2, <1>3, <1>4

\* An entry that is written is an entry.
LEMMA WrittenEntryTyped ==
    ASSUME NEW r \in Roles, NEW e \in {None} \cup Omo!Entries, NEW spec \in Omo!Specs
    PROVE  Omo!WrittenEntry(r, e, spec) \in Omo!Entries
  <1>1. spec.model \in Models
    BY DEF Omo!Specs
  <1>a. /\ Omo!Bare \in Omo!Entries
        /\ Omo!Chain(Omo!CanonicalChain(e, spec))
               = [Omo!Bare EXCEPT !.models = Omo!CanonicalChain(e, spec)]
        /\ Omo!Scalar(spec.model) = [Omo!Bare EXCEPT !.model = spec.model]
    <2>1. <<>> \in Seq(Models)
      OBVIOUS
    <2>2. \A x \in Seq(Models) : [model |-> None, models |-> None, fallbacks |-> x] \in Omo!Entries
      BY DEF Omo!Entries
    <2>3. Omo!Bare \in Omo!Entries
      BY <2>1, <2>2 DEF Omo!Bare
    <2>4. QED
      BY <2>3 DEF Omo!Chain, Omo!Scalar
  <1>2. Omo!Chain(Omo!CanonicalChain(e, spec)) \in Omo!Entries
    <2> DEFINE chain == Omo!CanonicalChain(e, spec)
    <2>1. chain \in Seq(Models)
      BY CanonicalTyped
    <2> HIDE DEF chain
    <2>2. [Omo!Bare EXCEPT !.models = chain] \in Omo!Entries
      BY <1>a, <2>1 DEF Omo!Entries
    <2>3. QED
      BY <1>a, <2>2 DEF chain
  <1>3. Omo!Scalar(spec.model) \in Omo!Entries
    BY <1>1, <1>a DEF Omo!Entries
  <1>4. e # None => [e EXCEPT !.model = spec.model] \in Omo!Entries
    BY <1>1 DEF Omo!Entries
  <1>5. QED
    BY <1>2, <1>3, <1>4 DEF Omo!WrittenEntry

\* What a write does: it takes a readable file, and an entry of the file is
\* then the one written, or the one it was.
LEMMA WrittenTyped ==
    ASSUME NEW o \in Omo!OmoFiles, NEW specs \in [Roles -> {None} \cup Omo!Specs],
           Omo!Written(o, specs) # None
    PROVE  /\ Omo!Parseable(o) /\ Omo!Parseable(Omo!Written(o, specs))
           /\ Omo!Written(o, specs) \in Omo!Parsed
           /\ \A r \in Roles :
                  /\ specs[r] = None
                     => Omo!EntryOf(Omo!Written(o, specs), r) = Omo!EntryOf(o, r)
                  /\ specs[r] # None
                     => \E e \in {None} \cup Omo!Entries :
                            Omo!EntryOf(Omo!Written(o, specs), r)
                                = Omo!WrittenEntry(r, e, specs[r])
  <1> DEFINE old == IF o = Absent THEN Omo!NewFile ELSE o
             block == [r \in Roles |-> IF specs[r] = None THEN old.block[r]
                                       ELSE Omo!WrittenEntry(r, old.block[r], specs[r])]
             w == Omo!Written(o, specs)
  <1>1. Omo!Parseable(o)
    BY DEF Omo!Written
  <1>2. old \in Omo!Parsed
    <2>1. Omo!NewFile \in Omo!Parsed
      BY DEF Omo!NewFile, Omo!NoEntries, Omo!Parsed, Omo!Sections
    <2>2. QED
      BY <1>1, <2>1 DEF Omo!Parseable, Omo!OmoFiles
  <1>3. w = [old EXCEPT !.block = block]
    BY <1>1 DEF Omo!Written
  <1>4. \A r \in Roles : /\ old.block[r] \in {None} \cup Omo!Entries
                         /\ old.top[r] \in {None} \cup Omo!Entries
    BY <1>2 DEF Omo!Parsed, Omo!Sections
  <1>5. \A r \in Roles : specs[r] # None => specs[r] \in Omo!Specs
    OBVIOUS
  <1>6. \A r \in Roles : specs[r] # None =>
            Omo!WrittenEntry(r, old.block[r], specs[r]) \in Omo!Entries
    BY <1>4, <1>5, WrittenEntryTyped
  <1>7. block \in Omo!Sections
    BY <1>4, <1>6 DEF Omo!Sections
  <1>8. w \in Omo!Parsed /\ w.block = block /\ w.top = old.top
    <2> HIDE DEF block, old, w
    <2>1. QED
      BY <1>2, <1>3, <1>7 DEF Omo!Parsed
  <1>9. w \notin {Absent, Torn}
    BY <1>8, SessionAssumption
  <1>10. \A r \in Roles : Omo!EntryOf(w, r) = IF block[r] # None THEN block[r] ELSE old.top[r]
    BY <1>8, <1>9 DEF Omo!EntryOf
  <1>11. ASSUME NEW r \in Roles
         PROVE  /\ specs[r] = None => Omo!EntryOf(w, r) = Omo!EntryOf(o, r)
                /\ specs[r] # None => \E e \in {None} \cup Omo!Entries :
                                          Omo!EntryOf(w, r) = Omo!WrittenEntry(r, e, specs[r])
    <2>1. CASE specs[r] = None
      <3>1. block[r] = old.block[r]
        BY <2>1
      <3>2. CASE o = Absent
        <4>1. old.block[r] = None /\ old.top[r] = None
          BY <3>2 DEF Omo!NewFile, Omo!NoEntries
        <4>2. Omo!EntryOf(o, r) = None
          BY <3>2 DEF Omo!EntryOf
        <4>3. QED
          BY <1>10, <2>1, <3>1, <4>1, <4>2
      <3>3. CASE o # Absent
        BY <1>1, <1>10, <2>1, <3>1, <3>3 DEF Omo!EntryOf, Omo!Parseable
      <3>4. QED
        BY <3>2, <3>3
    <2>2. CASE specs[r] # None
      <3>1. block[r] = Omo!WrittenEntry(r, old.block[r], specs[r])
        BY <2>2
      <3>2. block[r] # None
        BY <1>6, <2>2, <3>1, SessionAssumption
      <3>3. Omo!EntryOf(w, r) = Omo!WrittenEntry(r, old.block[r], specs[r])
        BY <1>10, <3>1, <3>2
      <3> HIDE DEF old, block, w
      <3>4. QED
        BY <1>4, <2>2, <3>3
    <2>3. QED
      BY <2>1, <2>2
  <1>12. Omo!Parseable(w)
    BY <1>9 DEF Omo!Parseable
  <1> HIDE DEF w
  <1>13. QED
    BY <1>1, <1>8, <1>11, <1>12 DEF w

\* A role that is written has an entry, and its target is the spec's.
LEMMA WrittenTarget ==
    ASSUME NEW o \in Omo!OmoFiles, NEW specs \in [Roles -> {None} \cup Omo!Specs],
           Omo!Written(o, specs) # None, NEW r \in Roles, specs[r] # None
    PROVE  LET target == Omo!Target(Omo!Written(o, specs), r)
           IN /\ Omo!EntryOf(Omo!Written(o, specs), r) # None
              /\ r \notin Categories \/ specs[r].models = None => target.model = specs[r].model
              /\ r \in Categories /\ specs[r].models \notin {None, <<>>}
                 => target.models = specs[r].models /\ target.model = specs[r].models[1]
  <1> DEFINE w == Omo!Written(o, specs)
             spec == specs[r]
             entry == Omo!EntryOf(w, r)
             head == IF entry # None /\ entry.models \notin {None, <<>>} THEN entry.models[1]
                     ELSE None
  <1>1. spec \in Omo!Specs
    OBVIOUS
  <1>2. spec.model \in Models /\ spec.model # None /\ spec.models \in {None} \cup Seq(Models)
    BY <1>1, SessionAssumption DEF Omo!Specs
  <1>3. PICK e \in {None} \cup Omo!Entries : entry = Omo!WrittenEntry(r, e, spec)
    BY WrittenTyped
  <1>4. entry \in Omo!Entries /\ entry # None
    BY <1>1, <1>3, WrittenEntryTyped, SessionAssumption
  <1>5. Omo!Target(w, r) = [model |-> IF Omo!Kind(r) = "category"
                                      THEN IF head # None THEN head ELSE entry.model
                                      ELSE IF entry.model # None THEN entry.model ELSE head,
                            models |-> entry.models]
    BY <1>4 DEF Omo!Target
  <1>6. CASE r \in Categories
    <2> DEFINE chain == Omo!CanonicalChain(e, spec)
    <2>1. entry = [Omo!Bare EXCEPT !.models = chain]
      BY <1>3, <1>6 DEF Omo!WrittenEntry, Omo!Kind, Omo!Chain
    <2>2. entry.models = chain
      BY <2>1 DEF Omo!Bare
    <2>3. /\ chain \in Seq(Models)
          /\ spec.models # None => chain = spec.models
          /\ spec.models = None => chain # <<>> /\ chain[1] = spec.model
      BY <1>1, CanonicalTyped
    <2>c. chain # None
      BY <2>3, SessionAssumption
    <2> HIDE DEF chain
    <2>4. chain \notin {None, <<>>} => chain[1] \in Models /\ chain[1] # None
      BY <2>3, SessionAssumption
    <2>5. CASE spec.models \notin {None, <<>>}
      <3>1. chain = spec.models /\ head = chain[1] /\ head # None
        BY <1>4, <2>2, <2>3, <2>4, <2>5
      <3> HIDE DEF head, entry, w, spec
      <3>2. QED
        BY <1>4, <1>5, <1>6, <2>2, <2>5, <3>1 DEF Omo!Kind, entry, w, spec
    <2>6. CASE spec.models = None
      <3>1. chain # <<>> /\ chain[1] = spec.model
        BY <2>3, <2>6
      <3>2. head # None => head = spec.model
        BY <2>2, <3>1
      <3>3. chain # None => head = spec.model
        BY <1>4, <2>2, <3>1
      <3>4. chain = None => entry.models = None
        BY <2>2
      <3> HIDE DEF head, entry, w, spec
      <3>6. QED
        BY <1>2, <1>4, <1>5, <1>6, <2>6, <2>c, <3>3 DEF Omo!Kind, entry, w, spec
    <2>7. CASE spec.models = <<>>
      <3> HIDE DEF head, entry, w
      <3>1. spec.models # None
        <4>1. <<>> \in Seq(Models)
          OBVIOUS
        <4>2. QED
          BY <2>7, <4>1, SessionAssumption
      <3> HIDE DEF spec
      <3>2. QED
        BY <1>4, <1>6, <2>7, <3>1 DEF entry, w, spec
    <2>8. QED
      BY <2>5, <2>6, <2>7
  <1>7. CASE r \notin Categories
    <2>1. Omo!Kind(r) # "category"
      BY <1>7 DEF Omo!Kind
    <2>2. entry.model = spec.model
      <3>1. CASE e = None
        BY <1>3, <2>1, <3>1 DEF Omo!WrittenEntry, Omo!Scalar, Omo!Bare
      <3>2. CASE e # None
        <4>1. e \in Omo!Entries
          BY <3>2
        <4>2. entry = [e EXCEPT !.model = spec.model]
          BY <1>3, <2>1, <3>2 DEF Omo!WrittenEntry
        <4> HIDE DEF entry, spec
        <4>3. QED
          BY <4>1, <4>2 DEF Omo!Entries
      <3>3. QED
        BY <3>1, <3>2
    <2> HIDE DEF head, entry, w, spec
    <2>3. QED
      BY <1>2, <1>4, <1>5, <1>7, <2>1, <2>2 DEF entry, w, spec
  <1>8. QED
    BY <1>6, <1>7

\* A role that has the same entry has the same target.
LEMMA SameTarget ==
    ASSUME NEW o, NEW w, NEW r, Omo!EntryOf(o, r) = Omo!EntryOf(w, r)
    PROVE  Omo!Target(o, r) = Omo!Target(w, r)
  BY DEF Omo!Target

\* Writing roles that are OMO's makes no other role OMO's, and takes none away.
LEMMA NamesKept ==
    ASSUME NEW o \in Omo!OmoFiles, NEW specs \in [Roles -> {None} \cup Omo!Specs],
           Omo!Written(o, specs) # None,
           \A r \in Roles : specs[r] # None => Omo!IsOmoName(o, r), NEW q \in Roles
    PROVE  Omo!IsOmoName(Omo!Written(o, specs), q) = Omo!IsOmoName(o, q)
  <1>1. Omo!Parseable(o) /\ Omo!Parseable(Omo!Written(o, specs))
    BY WrittenTyped
  <1>2. CASE specs[q] = None
    <2>1. Omo!EntryOf(Omo!Written(o, specs), q) = Omo!EntryOf(o, q)
      BY <1>2, WrittenTyped
    <2>2. QED
      BY <1>1, <2>1 DEF Omo!IsOmoName
  <1>3. CASE specs[q] # None
    <2>1. Omo!EntryOf(Omo!Written(o, specs), q) # None
      BY <1>3, WrittenTarget
    <2>2. QED
      BY <1>1, <1>3, <2>1 DEF Omo!IsOmoName
  <1>4. QED
    BY <1>2, <1>3

\* A file without entries is as good as none.
LEMMA NewFileEmpty ==
    ASSUME NEW r \in Roles
    PROVE  /\ Omo!NewFile \in Omo!Parsed /\ Omo!Parseable(Omo!NewFile) /\ Omo!Parseable(Absent)
           /\ Omo!EntryOf(Omo!NewFile, r) = Omo!EntryOf(Absent, r)
  <1>1. Omo!NewFile \in Omo!Parsed
    BY DEF Omo!NewFile, Omo!NoEntries, Omo!Parsed, Omo!Sections
  <1>2. Omo!NewFile \notin {Absent, Torn}
    BY <1>1, SessionAssumption
  <1>3. Omo!EntryOf(Omo!NewFile, r) = None
    BY <1>2 DEF Omo!NewFile, Omo!NoEntries, Omo!EntryOf
  <1>4. QED
    BY <1>1, <1>2, <1>3, DistinctAssumption DEF Omo!EntryOf, Omo!Parseable

(***************************************************************************)
(* Configuration files and presets                                         *)
(***************************************************************************)

\* Of the layers that bind a role there is one on top.
LEMMA TopLayer ==
    ASSUME NEW S \in SUBSET Layers!LayerFiles, S # {}
    PROVE  \E f \in S : \A g \in S : Layers!Precedence(g) <= Layers!Precedence(f)
  <1>1. Layers!LayerFiles = {"json", "jsonc", "env", "project", "md"}
    BY DEF Layers!LayerFiles, Layers!LayerOrder
  <1>2. /\ Layers!Precedence("json") = 1 /\ Layers!Precedence("jsonc") = 2
        /\ Layers!Precedence("env") = 3 /\ Layers!Precedence("project") = 4
        /\ Layers!Precedence("md") = 5
    <2>1. DOMAIN Layers!LayerOrder = 1..5
      BY DEF Layers!LayerOrder
    <2>2. /\ Layers!LayerOrder[1] = "json" /\ Layers!LayerOrder[2] = "jsonc"
          /\ Layers!LayerOrder[3] = "env" /\ Layers!LayerOrder[4] = "project"
          /\ Layers!LayerOrder[5] = "md"
      BY DEF Layers!LayerOrder
    <2>3. QED
      BY <2>1, <2>2 DEF Layers!Precedence
  <1>3. CASE "md" \in S
    BY <1>1, <1>2, <1>3
  <1>4. CASE "md" \notin S /\ "project" \in S
    BY <1>1, <1>2, <1>4
  <1>5. CASE "md" \notin S /\ "project" \notin S /\ "env" \in S
    BY <1>1, <1>2, <1>5
  <1>6. CASE "md" \notin S /\ "project" \notin S /\ "env" \notin S /\ "jsonc" \in S
    BY <1>1, <1>2, <1>6
  <1>7. CASE "md" \notin S /\ "project" \notin S /\ "env" \notin S /\ "jsonc" \notin S
    <2>1. S = {"json"}
      BY <1>1, <1>7
    <2>2. QED
      BY <1>2, <2>1
  <1>8. QED
    BY <1>3, <1>4, <1>5, <1>6, <1>7

\* What is harvested is a preset.
LEMMA HarvestTyped ==
    ASSUME config \in [Layers!LayerFiles -> Layers!LayerContents]
    PROVE  Layers!Harvest(config) \in Layers!Preset
  <1> DEFINE binding(r) == {f \in Layers!LayerFiles : Layers!LayerModels(config[f])[r] # None}
             top(r) == CHOOSE f \in binding(r) : \A g \in binding(r) :
                           Layers!Precedence(g) <= Layers!Precedence(f)
             at(r) == IF binding(r) = {} THEN None
                      ELSE [model |-> config[top(r)].models[r],
                            origin |-> Layers!PortableFile(top(r))]
  <1>1. ASSUME NEW r \in Roles
        PROVE  at(r) \in [model : Models, origin : Layers!Origins] \cup {None}
    <2>1. CASE binding(r) = {}
      BY <2>1
    <2>2. CASE binding(r) # {}
      <3>1. \E f \in binding(r) : \A g \in binding(r) :
                Layers!Precedence(g) <= Layers!Precedence(f)
        <4> DEFINE S == binding(r)
        <4>1. S \in SUBSET Layers!LayerFiles /\ S # {}
          BY <2>2
        <4> HIDE DEF S
        <4>2. \E f \in S : \A g \in S : Layers!Precedence(g) <= Layers!Precedence(f)
          BY <4>1, TopLayer
        <4>3. QED
          BY <4>2 DEF S
      <3>2. top(r) \in binding(r)
        BY <3>1
      <3> DEFINE f == top(r)
      <3> HIDE DEF top
      <3>3. f \in Layers!LayerFiles /\ Layers!LayerModels(config[f])[r] # None
        BY <3>2
      <3>4. config[f] \in Layers!LayerContents
        BY <3>3
      <3>5. Layers!Strict(config[f])
        BY <3>3 DEF Layers!LayerModels, Layers!Unbound
      <3>6. config[f] \in [models : Layers!Bindings, loose : BOOLEAN]
        BY <3>4, <3>5 DEF Layers!Strict, Layers!Lenient, Layers!LayerContents
      <3>7. config[f].models[r] \in Models
        BY <3>3, <3>5, <3>6 DEF Layers!LayerModels, Layers!Bindings
      <3>8. Layers!PortableFile(f) \in Layers!Origins
        BY <3>3 DEF Layers!PortableFile, Layers!Origins
      <3> HIDE DEF binding
      <3>9. at(r) = [model |-> config[f].models[r], origin |-> Layers!PortableFile(f)]
        BY <2>2
      <3>10. QED
        BY <3>7, <3>8, <3>9
    <2>3. QED
      BY <2>1, <2>2
  <1>2. Layers!Harvest(config) = [r \in Roles |-> at(r)]
    BY DEF Layers!Harvest
  <1> HIDE DEF at
  <1>3. QED
    BY <1>1, <1>2 DEF Layers!Preset

\* What opencode makes of the files is a binding of roles.
LEMMA ResolvedTyped ==
    ASSUME config \in [Layers!LayerFiles -> Layers!LayerContents]
    PROVE  Layers!Resolved(config) \in Layers!Bindings
  <1> DEFINE binding(r) == {f \in Layers!LayerFiles :
                               Layers!Lenient(config[f]) /\ config[f].models[r] # None}
             top(r) == CHOOSE f \in binding(r) : \A g \in binding(r) :
                           Layers!Precedence(g) <= Layers!Precedence(f)
             at(r) == IF binding(r) = {} THEN None ELSE config[top(r)].models[r]
  <1>1. ASSUME NEW r \in Roles
        PROVE  at(r) \in Models \cup {None}
    <2>1. CASE binding(r) = {}
      BY <2>1
    <2>2. CASE binding(r) # {}
      <3>1. \E f \in binding(r) : \A g \in binding(r) :
                Layers!Precedence(g) <= Layers!Precedence(f)
        <4> DEFINE S == binding(r)
        <4>1. S \in SUBSET Layers!LayerFiles /\ S # {}
          BY <2>2
        <4> HIDE DEF S
        <4>2. \E f \in S : \A g \in S : Layers!Precedence(g) <= Layers!Precedence(f)
          BY <4>1, TopLayer
        <4>3. QED
          BY <4>2 DEF S
      <3>2. top(r) \in binding(r)
        BY <3>1
      <3> DEFINE f == top(r)
      <3> HIDE DEF top
      <3>3. f \in Layers!LayerFiles /\ Layers!Lenient(config[f])
        BY <3>2
      <3>4. config[f] \in [models : Layers!Bindings, loose : BOOLEAN]
        BY <3>3 DEF Layers!Lenient, Layers!LayerContents
      <3>5. config[f].models[r] \in Models \cup {None}
        BY <3>4 DEF Layers!Bindings
      <3> HIDE DEF binding
      <3>6. QED
        BY <2>2, <3>5
    <2>3. QED
      BY <2>1, <2>2
  <1>2. Layers!Resolved(config) = [r \in Roles |-> at(r)]
    BY DEF Layers!Resolved
  <1> HIDE DEF at
  <1>3. QED
    BY <1>1, <1>2 DEF Layers!Bindings

\* Putting bindings over bindings leaves bindings, and so with presets.
LEMMA OverlayTyped ==
    ASSUME NEW S, NEW a \in [Roles -> S \cup {None}], NEW b \in [Roles -> S \cup {None}]
    PROVE  Layers!Overlay(a, b) \in [Roles -> S \cup {None}]
  BY DEF Layers!Overlay

\* An edited file is a file of its layer.
LEMMA EditedTyped ==
    ASSUME NEW content \in Layers!LayerContents, NEW entries \in Layers!Bindings,
           Layers!Edited(content, entries) # None
    PROVE  Layers!Edited(content, entries) \in Layers!LayerContents
  <1>1. CASE content = Absent
    BY <1>1 DEF Layers!Edited, Layers!LayerContents
  <1>2. CASE content # Absent
    <2>1. Layers!Lenient(content)
      BY <1>2 DEF Layers!Edited
    <2>2. content.models \in Layers!Bindings
      BY <2>1 DEF Layers!Lenient, Layers!LayerContents
    <2>3. Layers!Overlay(content.models, entries) \in Layers!Bindings
      BY <2>2, OverlayTyped DEF Layers!Bindings
    <2>4. QED
      BY <1>2, <2>1, <2>3 DEF Layers!Edited, Layers!LayerContents
  <1>3. QED
    BY <1>1, <1>2

\* A plan writes bindings, into files of the layers or into the OMO file.
FilePlans == UNION {[fs -> Layers!Bindings] : fs \in SUBSET (Layers!LayerFiles \cup {"omo"})}

\* A call without files has such a plan.
LEMMA NoPlan == <<>> \in FilePlans
  <1>1. <<>> \in [{} -> Layers!Bindings]
    OBVIOUS
  <1>2. QED
    BY <1>1 DEF FilePlans

\* And so has a load.
LEMMA PlanTyped ==
    ASSUME NEW preset \in Layers!Preset, NEW present, NEW seen, NEW mode \in Layers!Modes
    PROVE  Planned(preset, present, seen, mode) \in FilePlans
  <1> DEFINE roles == Applicable(preset, present) \ OmoSide(Applicable(preset, present), seen)
             chosen == [r \in Roles |-> IF r \in roles THEN preset[r] ELSE None]
             target(r) == Layers!RestoreTarget(r, chosen[r], mode, config)
             fs == {target(r) : r \in Layers!Bound(chosen)} \ {"state"}
             plan == Planned(preset, present, seen, mode)
  <1>1. plan = [g \in fs |-> [r \in Roles |-> IF chosen[r] # None /\ target(r) = g
                                              THEN chosen[r].model ELSE None]]
    BY DEF Planned, Layers!PlanRestore
  <1>2. \A r \in Roles : chosen[r] # None =>
            chosen[r].model \in Models /\ chosen[r].origin \in Layers!Origins
    <2>1. \A r \in Roles : preset[r] # None =>
              preset[r].model \in Models /\ preset[r].origin \in Layers!Origins
      BY DEF Layers!Preset
    <2>2. QED
      BY <2>1
  <1>3. \A g \in fs : g \in Layers!LayerFiles \cup {"omo"}
    <2> SUFFICES ASSUME NEW r \in Roles, chosen[r] # None, target(r) # "state"
                 PROVE  target(r) \in Layers!LayerFiles \cup {"omo"}
      BY DEF Layers!Bound
    <2>1. Layers!LayerFiles = {"json", "jsonc", "env", "project", "md"}
      BY DEF Layers!LayerFiles, Layers!LayerOrder
    <2>2. Layers!GlobalTarget(config) \in {"json", "jsonc"}
      BY DEF Layers!GlobalTarget
    <2>3. chosen[r].origin \in Layers!LayerFiles \cup {"state", "omo", None}
      BY <1>2 DEF Layers!Origins
    <2> HIDE DEF chosen
    <2>4. QED
      BY <2>1, <2>2, <2>3 DEF Layers!RestoreTarget, Layers!Modes
  <1> HIDE DEF chosen, fs, target, plan
  <1>4. plan \in [fs -> Layers!Bindings]
    BY <1>1, <1>2 DEF Layers!Bindings
  <1>5. fs \in SUBSET (Layers!LayerFiles \cup {"omo"})
    BY <1>3
  <1>6. QED
    BY <1>4, <1>5 DEF FilePlans, plan

(***************************************************************************)
(* The types of a session                                                  *)
(***************************************************************************)
FileValues == [presets : {Absent, Torn} \cup Library, state : {Absent, Torn} \cup States]
Calls == [tool : {"none", "migrate", "assign", "remove", "load"},
          stage : {"none", "choose", "confirm", "omo", "state", "files"},
          specs : [Roles -> {None} \cup Omo!Specs], next : States, basis : States,
          swap : SUBSET Roles, files : FilePlans, preset : Layers!Preset, seen : Omo!OmoFiles]

\* What FastDraw reads from a state file, and from none.
LEMMA StateTyped ==
    /\ EmptyState \in States
    /\ file \in FileValues => LoadedState \in States
  <1>1. EmptyState \in States
    BY DEF EmptyState, States, NoRecords, Layers!Unbound, Layers!Bindings
  <1>2. QED
    BY <1>1 DEF LoadedState, FileValues

\* A store as it is read.
LEMMA NormalizedTyped ==
    ASSUME NEW x \in {None} \cup Seatings \cup Saved
    PROVE  Normalized(x) \in {None} \cup Saved
  <1>1. CASE x \in Seatings
    <2>1. x.agents \in Layers!Bindings
      BY <1>1, SessionAssumption DEF States
    <2>2. From(x.agents, None) \in Layers!Preset
      BY <2>1 DEF From, Layers!Bindings, Layers!Preset, Layers!Origins
    <2>3. QED
      BY <1>1, <2>2 DEF Normalized, Saved
  <1>2. CASE x \notin Seatings
    BY <1>2 DEF Normalized
  <1>3. QED
    BY <1>1, <1>2

\* The store as the server or a dialog holds it.
LEMMA PresetsTyped ==
    ASSUME file \in FileValues
    PROVE  LoadedPresets \in HeldStores
  <1>1. CASE file.presets \in {Absent, Torn}
    BY <1>1 DEF LoadedPresets, EmptyStore, HeldStores
  <1>2. CASE file.presets \notin {Absent, Torn}
    <2>1. file.presets \in Library
      BY <1>2 DEF FileValues
    <2>2. \A n \in Names : file.presets[n] \in {None} \cup Seatings \cup Saved
      BY <2>1 DEF Library
    <2>3. QED
      BY <1>2, <2>2, NormalizedTyped DEF LoadedPresets, HeldStores
  <1>3. QED
    BY <1>1, <1>2

\* The call there is at first.
LEMMA NoCallTyped == NoCall \in Calls
  <1>1. NoRecords \in [Roles -> {None} \cup Omo!Specs]
    BY DEF NoRecords
  <1>2. Layers!NoPreset \in Layers!Preset
    BY DEF Layers!NoPreset, Layers!Preset
  <1>3. Absent \in Omo!OmoFiles
    BY DEF Omo!OmoFiles
  <1>4. EmptyState \in States /\ <<>> \in FilePlans
    BY NoPlan, StateTyped
  <1> DEFINE plan == <<>>
  <1> HIDE DEF plan
  <1>5. [tool |-> "none", stage |-> "none", specs |-> NoRecords, next |-> EmptyState,
         basis |-> EmptyState, swap |-> {}, files |-> plan, preset |-> Layers!NoPreset,
         seen |-> Absent] \in Calls
    BY <1>1, <1>2, <1>3, <1>4 DEF Calls, plan
  <1>6. QED
    BY <1>5 DEF NoCall, plan

\* A call that starts.
LEMMA StartedTyped ==
    ASSUME NEW c \in Calls
    PROVE  /\ Started(c) \in Calls
           /\ Started(c).stage \in {"omo", "state"}
           /\ Started(c).stage = "state" <=> c.specs = NoRecords
           /\ Started(c) = [c EXCEPT !.stage = Started(c).stage]
  BY DEF Started, Calls

(***************************************************************************)
(* What a call is about to write, and of what it was made                  *)
(***************************************************************************)

\* Of a role a call writes nothing, or it binds the role, or takes its record back.
Keeps(c, r) == c.next.omo[r] = c.basis.omo[r] /\ c.specs[r] = None
Binds(c, r) ==
    /\ Omo!IsOmoName(c.seen, r)
    /\ \E m \in Models :
           /\ c.specs[r] = Omo!Spec(m)
           /\ c.next.omo[r] = Omo!Record(c.basis.omo[r], m, Omo!Target(c.seen, r))
Reverts(c, r) ==
    /\ c.basis.omo[r] # None /\ c.next.omo[r] = None
    /\ c.specs[r] = Omo!RevertSpec(Omo!TargetKind(c.seen, r), c.basis.omo[r])

\* A load gives a model to a role that is not OMO's, and a record to one that is.
LoadShape(c, r) ==
    /\ c.next.agents[r] # None => ~Omo!IsOmoName(c.seen, r)
    /\ c.next.omo[r] # None => /\ Omo!IsOmoName(c.seen, r)
                               /\ c.specs[r] = Omo!Spec(c.next.omo[r].model)

Shaped(c) ==
    \A r \in Roles :
        /\ Keeps(c, r) \/ Binds(c, r) \/ Reverts(c, r)
        /\ c.tool = "load" => LoadShape(c, r)
        /\ r \notin c.swap => c.next.agents[r] \in {None, c.basis.agents[r]}

\* A call of this tool, made from this state and this OMO file, that is about to write.
Made(c, tool, state, seen) ==
    c \in Calls /\ Shaped(c) /\ c.tool = tool /\ c.basis = state /\ c.seen = seen

\* Where a call starts does not matter to what it writes.
LEMMA StartedMade ==
    ASSUME NEW c, NEW tool, NEW state, NEW seen, Made(c, tool, state, seen)
    PROVE  Made(Started(c), tool, state, seen)
  <1>1. c \in Calls /\ Started(c) \in Calls
    BY StartedTyped DEF Made
  <1> DEFINE d == Started(c)
  <1>2. /\ d.tool = c.tool /\ d.basis = c.basis /\ d.seen = c.seen /\ d.next = c.next
        /\ d.specs = c.specs /\ d.swap = c.swap
    BY <1>1 DEF Started, Calls
  <1> HIDE DEF d
  <1>3. Shaped(d)
    BY <1>2 DEF Made, Shaped, Keeps, Binds, Reverts, LoadShape
  <1>4. QED
    BY <1>1, <1>2, <1>3 DEF Made, d

\* What assigns a model, by the tool or by the dialog.
LEMMA AssignMade ==
    ASSUME NEW state \in States, NEW seen \in Omo!OmoFiles, NEW r \in Roles, NEW m \in Models
    PROVE  Made(AssignCall(state, seen, r, m), "assign", state, seen)
  <1> DEFINE c == AssignCall(state, seen, r, m)
             target == Omo!Target(seen, r)
             record == Omo!Record(state.omo[r], m, target)
  <1>1. /\ state.agents \in [Roles -> Models \cup {None}]
        /\ state.omo \in [Roles -> {None} \cup Omo!Records]
        /\ state = [agents |-> state.agents, omo |-> state.omo]
    BY DEF States, Layers!Bindings
  <1>2. target \in Omo!Targets
    BY TargetTyped
  <1>3. record \in Omo!Records /\ record # None
    BY <1>1, <1>2, RecordTyped
  <1>4. Omo!Spec(m) \in Omo!Specs /\ Omo!Spec(m) # None
    BY SpecTyped
  <1> HIDE DEF target, record
  <1>5. CASE Omo!IsOmoName(seen, r)
    <2> DEFINE specs == [NoRecords EXCEPT ![r] = Omo!Spec(m)]
               next == [agents |-> [state.agents EXCEPT ![r] = None],
                        omo |-> [state.omo EXCEPT ![r] = record]]
    <2>1. c = [NoCall EXCEPT !.tool = "assign", !.basis = state, !.seen = seen,
                             !.specs = specs, !.next = next]
      BY <1>5 DEF AssignCall, Only, record, target
    <2>2. specs \in [Roles -> {None} \cup Omo!Specs] /\ next \in States
      BY <1>1, <1>3, <1>4 DEF NoRecords, States, Layers!Bindings
    <2>3. /\ specs[r] = Omo!Spec(m) /\ \A q \in Roles \ {r} : specs[q] = None
          /\ next.omo[r] = record /\ \A q \in Roles \ {r} : next.omo[q] = state.omo[q]
          /\ \A q \in Roles : next.agents[q] \in {None, state.agents[q]}
      BY <1>1 DEF NoRecords
    <2> HIDE DEF c, specs, next
    <2>4. /\ c \in Calls /\ c.tool = "assign" /\ c.basis = state /\ c.seen = seen
          /\ c.specs = specs /\ c.next = next
      BY <2>1, <2>2, NoCallTyped DEF Calls
    <2>5. Binds(c, r)
      BY <1>5, <2>3, <2>4 DEF Binds, record, target
    <2>6. \A q \in Roles \ {r} : Keeps(c, q)
      BY <2>3, <2>4 DEF Keeps
    <2>7. QED
      BY <2>3, <2>4, <2>5, <2>6 DEF Made, Shaped, c
  <1>6. CASE ~Omo!IsOmoName(seen, r)
    <2> DEFINE next == [agents |-> [state.agents EXCEPT ![r] = m], omo |-> state.omo]
    <2>1. c = [NoCall EXCEPT !.tool = "assign", !.basis = state, !.seen = seen,
                             !.swap = {r}, !.next = [state EXCEPT !.agents[r] = m]]
      BY <1>6 DEF AssignCall
    <2>2. [state EXCEPT !.agents[r] = m] = next
      BY DEF States
    <2>3. next \in States
      BY <1>1 DEF States, Layers!Bindings
    <2>4. /\ next.omo = state.omo
          /\ \A q \in Roles \ {r} : next.agents[q] = state.agents[q]
      BY <1>1
    <2> HIDE DEF c, next
    <2>5. /\ c \in Calls /\ c.tool = "assign" /\ c.basis = state /\ c.seen = seen
          /\ c.specs = NoCall.specs /\ c.next = next /\ c.swap = {r}
      BY <2>1, <2>2, <2>3, NoCallTyped DEF Calls
    <2>6. \A q \in Roles : c.specs[q] = None
      BY <2>5 DEF NoCall, NoRecords
    <2>7. QED
      BY <2>4, <2>5, <2>6 DEF Made, Shaped, Keeps, c
  <1>7. QED
    BY <1>5, <1>6

\* What takes back the record of a role, or its model in the state.
LEMMA RemoveMade ==
    ASSUME NEW state \in States, NEW seen \in Omo!OmoFiles, NEW r \in Roles
    PROVE  /\ state.omo[r] # None =>
                  Made([NoCall EXCEPT
                           !.tool = "remove", !.basis = state, !.seen = seen,
                           !.specs = Only(r, Omo!RevertSpec(Omo!TargetKind(seen, r), state.omo[r])),
                           !.next = [state EXCEPT !.omo[r] = None]],
                       "remove", state, seen)
           /\ state.omo[r] = None =>
                  Made([NoCall EXCEPT
                           !.tool = "remove", !.basis = state, !.seen = seen,
                           !.swap = {r}, !.next = [state EXCEPT !.agents[r] = None]],
                       "remove", state, seen)
  <1>1. /\ state.agents \in [Roles -> Models \cup {None}]
        /\ state.omo \in [Roles -> {None} \cup Omo!Records]
        /\ state = [agents |-> state.agents, omo |-> state.omo]
    BY DEF States, Layers!Bindings
  <1>2. ASSUME state.omo[r] # None
        PROVE  Made([NoCall EXCEPT
                           !.tool = "remove", !.basis = state, !.seen = seen,
                           !.specs = Only(r, Omo!RevertSpec(Omo!TargetKind(seen, r), state.omo[r])),
                           !.next = [state EXCEPT !.omo[r] = None]],
                       "remove", state, seen)
    <2> DEFINE kind == Omo!TargetKind(seen, r)
               spec == Omo!RevertSpec(kind, state.omo[r])
               specs == [NoRecords EXCEPT ![r] = spec]
               next == [agents |-> state.agents, omo |-> [state.omo EXCEPT ![r] = None]]
               c == [NoCall EXCEPT !.tool = "remove", !.basis = state, !.seen = seen,
                                   !.specs = specs, !.next = next]
    <2>1. state.omo[r] \in Omo!Records
      BY <1>1, <1>2
    <2>2. spec \in {None} \cup Omo!Specs
      <3> HIDE DEF kind
      <3>1. QED
        BY <2>1, RevertTyped
    <2>3. [state EXCEPT !.omo[r] = None] = next
      BY DEF States
    <2> HIDE DEF kind, spec
    <2>4. specs \in [Roles -> {None} \cup Omo!Specs] /\ next \in States
      BY <1>1, <2>2 DEF NoRecords, States, Layers!Bindings
    <2>5. /\ specs[r] = spec /\ \A q \in Roles \ {r} : specs[q] = None
          /\ next.omo[r] = None /\ \A q \in Roles \ {r} : next.omo[q] = state.omo[q]
          /\ next.agents = state.agents
      BY <1>1 DEF NoRecords
    <2>6. /\ c \in Calls /\ c.tool = "remove" /\ c.basis = state /\ c.seen = seen
          /\ c.specs = specs /\ c.next = next
      <3> HIDE DEF specs, next
      <3>1. QED
        BY <2>4, NoCallTyped DEF Calls
    <2> HIDE DEF c, specs, next
    <2>7. Reverts(c, r)
      BY <1>2, <2>5, <2>6 DEF Reverts, spec, kind
    <2>8. \A q \in Roles \ {r} : Keeps(c, q)
      BY <2>5, <2>6 DEF Keeps
    <2>9. Made(c, "remove", state, seen)
      BY <2>5, <2>6, <2>7, <2>8 DEF Made, Shaped
    <2>10. QED
      BY <2>3, <2>9 DEF c, specs, spec, kind, Only
  <1>3. ASSUME state.omo[r] = None
        PROVE  Made([NoCall EXCEPT
                           !.tool = "remove", !.basis = state, !.seen = seen,
                           !.swap = {r}, !.next = [state EXCEPT !.agents[r] = None]],
                       "remove", state, seen)
    <2> DEFINE next == [agents |-> [state.agents EXCEPT ![r] = None], omo |-> state.omo]
               c == [NoCall EXCEPT !.tool = "remove", !.basis = state, !.seen = seen,
                                   !.swap = {r}, !.next = next]
    <2>1. [state EXCEPT !.agents[r] = None] = next
      BY DEF States
    <2>2. next \in States
      BY <1>1 DEF States, Layers!Bindings
    <2>3. /\ next.omo = state.omo
          /\ \A q \in Roles : next.agents[q] \in {None, state.agents[q]}
      BY <1>1
    <2>4. /\ c \in Calls /\ c.tool = "remove" /\ c.basis = state /\ c.seen = seen
          /\ c.specs = NoCall.specs /\ c.next = next
      <3> HIDE DEF next
      <3>1. QED
        BY <2>2, NoCallTyped DEF Calls
    <2> HIDE DEF c, next
    <2>5. \A q \in Roles : c.specs[q] = None
      BY <2>4 DEF NoCall, NoRecords
    <2>6. Made(c, "remove", state, seen)
      BY <2>3, <2>4, <2>5 DEF Made, Shaped, Keeps
    <2>7. QED
      BY <2>1, <2>6 DEF c
  <1>4. QED
    BY <1>2, <1>3

\* What moves the roles of OMO out of an older state, when a session starts.
LEMMA MigrateMade ==
    ASSUME NEW state \in States, omo \in Omo!OmoFiles
    PROVE  Made([NoCall EXCEPT
                    !.tool = "migrate", !.stage = "omo", !.basis = state,
                    !.seen = omo, !.next = Migrated(state),
                    !.specs = [r \in Roles |-> IF r \in Migrating(state)
                                               THEN Omo!Spec(state.agents[r]) ELSE None]],
                "migrate", state, omo)
  <1> DEFINE moved == Migrating(state)
             target(r) == Omo!Target(omo, r)
             record(r) == Omo!Record(state.omo[r], state.agents[r], target(r))
             specs == [r \in Roles |-> IF r \in moved THEN Omo!Spec(state.agents[r]) ELSE None]
             next == Migrated(state)
             c == [NoCall EXCEPT !.tool = "migrate", !.stage = "omo", !.basis = state,
                                 !.seen = omo, !.next = next, !.specs = specs]
  <1>1. /\ state.agents \in [Roles -> Models \cup {None}]
        /\ state.omo \in [Roles -> {None} \cup Omo!Records]
    BY DEF States, Layers!Bindings
  <1>2. \A r \in moved : /\ r \in Roles /\ state.agents[r] \in Models
                         /\ Omo!IsOmoName(omo, r)
    BY <1>1 DEF Migrating
  <1>3. next = [agents |-> [r \in Roles |-> IF r \in moved THEN None ELSE state.agents[r]],
                omo |-> [r \in Roles |-> IF r \in moved THEN record(r) ELSE state.omo[r]]]
    BY DEF Migrated
  <1>4. ASSUME NEW r \in moved
        PROVE  /\ record(r) \in Omo!Records
               /\ Omo!Spec(state.agents[r]) \in Omo!Specs
    <2>1. target(r) \in Omo!Targets
      BY <1>2, TargetTyped
    <2> HIDE DEF target
    <2>2. QED
      BY <1>1, <1>2, <2>1, RecordTyped, SpecTyped
  <1> HIDE DEF moved
  <1>5. specs \in [Roles -> {None} \cup Omo!Specs]
    BY <1>4
  <1>6. next \in States
    <2> HIDE DEF record
    <2>1. [r \in Roles |-> IF r \in moved THEN record(r) ELSE state.omo[r]]
              \in [Roles -> {None} \cup Omo!Records]
      BY <1>1, <1>4
    <2>2. [r \in Roles |-> IF r \in moved THEN None ELSE state.agents[r]] \in Layers!Bindings
      BY <1>1 DEF Layers!Bindings
    <2> HIDE DEF next
    <2>3. QED
      BY <1>3, <2>1, <2>2 DEF States
  <1>7. \A r \in Roles :
            /\ next.agents[r] \in {None, state.agents[r]}
            /\ r \in moved => specs[r] = Omo!Spec(state.agents[r]) /\ next.omo[r] = record(r)
            /\ r \notin moved => specs[r] = None /\ next.omo[r] = state.omo[r]
    BY <1>3
  <1>8. /\ c \in Calls /\ c.tool = "migrate" /\ c.basis = state /\ c.seen = omo
        /\ c.specs = specs /\ c.next = next
    <2> HIDE DEF specs, next
    <2>1. QED
      BY <1>5, <1>6, NoCallTyped DEF Calls
  <1> HIDE DEF c, specs, next
  <1>9. \A r \in moved : Binds(c, r)
    BY <1>2, <1>7, <1>8 DEF Binds
  <1>10. \A r \in Roles \ moved : Keeps(c, r)
    BY <1>7, <1>8 DEF Keeps
  <1>11. Made(c, "migrate", state, omo)
    BY <1>7, <1>8, <1>9, <1>10 DEF Made, Shaped
  <1>12. QED
    BY <1>11 DEF c, specs, next, moved

\* What loads a preset, by the tool or by the dialog.
LEMMA LoadMade ==
    ASSUME NEW preset \in Layers!Preset, NEW present, NEW seen \in Omo!OmoFiles,
           NEW state \in States, NEW files \in FilePlans
    PROVE  Made(LoadCall(preset, present, seen, state, files), "load", state, seen)
  <1> DEFINE roles == Applicable(preset, present)
             bound == OmoSide(roles, seen)
             kind(r) == Omo!TargetKind(seen, r)
             target(r) == Omo!Target(seen, r)
             revert(r) == Omo!RevertSpec(kind(r), state.omo[r])
             record(r) == Omo!Record(state.omo[r], preset[r].model, target(r))
             specs == [r \in Roles |-> IF r \in bound THEN Omo!Spec(preset[r].model)
                                       ELSE IF state.omo[r] = None THEN None ELSE revert(r)]
             agents == [r \in Roles |-> IF r \in roles \ bound THEN preset[r].model ELSE None]
             records == [r \in Roles |-> IF r \in bound THEN record(r) ELSE None]
             next == [agents |-> agents, omo |-> records]
             c == [NoCall EXCEPT !.tool = "load", !.basis = state, !.seen = seen, !.swap = Roles,
                                 !.files = files, !.preset = preset, !.specs = specs,
                                 !.next = next]
  <1>1. state.omo \in [Roles -> {None} \cup Omo!Records]
    BY DEF States
  <1>2. \A r \in roles : r \in Roles /\ preset[r].model \in Models
    BY DEF Applicable, Layers!Bound, Layers!Preset
  <1>3. \A r \in roles : r \in bound <=> Omo!IsOmoName(seen, r)
    BY DEF OmoSide
  <1>4. \A r \in bound : r \in roles
    BY DEF OmoSide
  <1>5. LoadCall(preset, present, seen, state, files) = Started(c)
    BY DEF LoadCall
  <1>6. ASSUME NEW r \in bound
        PROVE  record(r) \in Omo!Records /\ record(r) # None /\ record(r).model = preset[r].model
               /\ Omo!Spec(preset[r].model) \in Omo!Specs
    <2>1. target(r) \in Omo!Targets
      BY <1>2, <1>4, TargetTyped
    <2>2. record(r).model = preset[r].model
      BY DEF Omo!Record
    <2> HIDE DEF target
    <2>3. QED
      BY <1>1, <1>2, <1>4, <2>1, <2>2, RecordTyped, SpecTyped
  <1>7. ASSUME NEW r \in Roles, state.omo[r] # None
        PROVE  revert(r) \in {None} \cup Omo!Specs
    <2> HIDE DEF kind
    <2>1. QED
      BY <1>1, <1>7, RevertTyped
  <1> HIDE DEF roles, bound, record, revert
  <1>8. specs \in [Roles -> {None} \cup Omo!Specs]
    BY <1>6, <1>7
  <1>9. next \in States
    <2>1. agents \in Layers!Bindings
      BY <1>2 DEF Layers!Bindings
    <2>2. records \in [Roles -> {None} \cup Omo!Records]
      BY <1>6
    <2> HIDE DEF agents, records
    <2>3. QED
      BY <2>1, <2>2 DEF States
  <1>10. \A r \in Roles :
             /\ next.agents[r] # None => r \in roles \ bound
             /\ r \in bound => specs[r] = Omo!Spec(preset[r].model) /\ next.omo[r] = record(r)
             /\ r \notin bound => /\ next.omo[r] = None
                                  /\ specs[r] = IF state.omo[r] = None THEN None ELSE revert(r)
    OBVIOUS
  <1>11. /\ c \in Calls /\ c.tool = "load" /\ c.basis = state /\ c.seen = seen
         /\ c.specs = specs /\ c.next = next /\ c.swap = Roles
    <2> HIDE DEF specs, next
    <2>1. QED
      BY <1>8, <1>9, NoCallTyped DEF Calls
  <1> HIDE DEF c, specs, next
  <1>12. \A r \in bound : Binds(c, r)
    BY <1>2, <1>3, <1>4, <1>10, <1>11 DEF Binds, record
  <1>13. \A r \in Roles \ bound : Keeps(c, r) \/ Reverts(c, r)
    BY <1>10, <1>11 DEF Keeps, Reverts, revert
  <1>14. \A r \in Roles : LoadShape(c, r)
    BY <1>3, <1>4, <1>6, <1>10, <1>11 DEF LoadShape
  <1>15. Made(c, "load", state, seen)
    BY <1>11, <1>12, <1>13, <1>14 DEF Made, Shaped
  <1>16. QED
    BY <1>5, <1>15, StartedMade

(***************************************************************************)
(* What hr writes: its presets and seatings, and whatever it has backed up *)
(***************************************************************************)
SharedWrites == [to : {"presets"}, content : {Absent, Torn} \cup Library]
                \cup [to : {"state"}, content : {Absent, Torn} \cup States]

\* A job has a plan of such writes, and of one when it has truncated a file.
Planning(j) ==
    /\ {"pc", "plan", "intact"} \subseteq DOMAIN j
    /\ j.plan \in Seq(SharedWrites)
    /\ j.pc = "fill" => j.plan # <<>>

SharedInv ==
    /\ file \in FileValues
    /\ verdict \in Seatings \cup {None}
    /\ \A b \in backups : "blob" \in DOMAIN b /\ b.blob \in FileValues
    /\ DOMAIN job = Procs /\ \A p \in Procs : Planning(job[p])

\* A job that has not begun has an empty plan.
LEMMA IdlePlans == Planning(Idle)
  <1>1. <<>> \in Seq(SharedWrites)
    OBVIOUS
  <1>2. QED
    BY <1>1 DEF Planning, Idle

\* That another wrote does not change a plan.
LEMMA OthersPlan ==
    ASSUME NEW j, Planning(j)
    PROVE  Planning([j EXCEPT !.intact = FALSE])
  BY DEF Planning

\* What puts a backup back is such a plan.
LEMMA RestorePlans ==
    ASSUME NEW b, b.blob \in FileValues
    PROVE  RestorePlan(b) \in Seq(SharedWrites)
  <1> DEFINE back(f) == [to |-> f, content |-> IF b.hash[f] = Absent THEN Absent ELSE b.blob[f]]
  <1>1. /\ b.blob["presets"] \in {Absent, Torn} \cup Library
        /\ b.blob["state"] \in {Absent, Torn} \cup States
    BY DEF FileValues
  <1>2. back("presets") \in SharedWrites /\ back("state") \in SharedWrites
    BY <1>1 DEF SharedWrites
  <1>3. RestorePlan(b) = <<back("presets"), back("state")>>
    BY DEF RestorePlan
  <1> HIDE DEF back
  <1>4. QED
    BY <1>2, <1>3

\* The job an apply goes on with when it fails.
LEMMA RecoveredPlans ==
    ASSUME SharedInv, NEW p \in Procs
    PROVE  Planning(Recovered(p))
  <1>1. CASE \E b \in OwnBackup(p) : Valid(b)
    <2> DEFINE b == CHOOSE own_ \in OwnBackup(p) : Valid(own_)
    <2>1. b \in OwnBackup(p)
      BY <1>1
    <2>2. b \in backups
      BY <2>1 DEF OwnBackup
    <2>3. b.blob \in FileValues
      BY <2>2 DEF SharedInv
    <2> DEFINE plan == RestorePlan(b)
    <2>4. plan \in Seq(SharedWrites)
      <3> HIDE DEF b
      <3>1. QED
        BY <2>3, RestorePlans
    <2>5. Recovered(p) = [job[p] EXCEPT !.kind = "restore", !.pc = "write", !.plan = plan,
                                        !.goal = job[p].base]
      BY <1>1 DEF Recovered
    <2> HIDE DEF plan
    <2>6. Planning(job[p])
      BY DEF SharedInv
    <2>7. QED
      BY <2>4, <2>5, <2>6 DEF Planning
  <1>2. CASE ~ \E b \in OwnBackup(p) : Valid(b)
    BY <1>2, IdlePlans DEF Recovered
  <1>3. QED
    BY <1>1, <1>2

\* A write is the first of a plan, the rest of the plan is one.
LEMMA PlanParts ==
    ASSUME NEW plan \in Seq(SharedWrites), plan # <<>>
    PROVE  Head(plan) \in SharedWrites /\ Tail(plan) \in Seq(SharedWrites)
  BY HeadTailProperties

\* What a write leaves.
LEMMA FileKept ==
    ASSUME file \in FileValues, NEW w \in SharedWrites
    PROVE  /\ [file EXCEPT ![w.to] = w.content] \in FileValues
           /\ [file EXCEPT ![w.to] = Torn] \in FileValues
           /\ [file EXCEPT ![w.to] = Absent] \in FileValues
  BY DEF FileValues, SharedWrites

\* One job changes, and the others are told.
LEMMA JobsKept ==
    ASSUME SharedInv, NEW p \in Procs, NEW mine, Planning(mine)
    PROVE  /\ DOMAIN Others(p, mine) = Procs
           /\ \A q \in Procs : Planning(Others(p, mine)[q])
           /\ DOMAIN [job EXCEPT ![p] = mine] = Procs
           /\ \A q \in Procs : Planning([job EXCEPT ![p] = mine][q])
  BY OthersPlan DEF Others, SharedInv

\* hr's steps keep it so.
LEMMA SharedStep == SharedInv /\ Next => SharedInv'
  <1> SUFFICES ASSUME SharedInv, Next
               PROVE  SharedInv'
    OBVIOUS
  <1>1. /\ file \in FileValues /\ verdict \in Seatings \cup {None}
        /\ \A b \in backups : "blob" \in DOMAIN b /\ b.blob \in FileValues
        /\ DOMAIN job = Procs /\ \A p \in Procs : Planning(job[p])
    BY DEF SharedInv
  <1>2. ASSUME NEW dirs
        PROVE  Kept(dirs) \subseteq dirs
    BY DEF Kept
  \* A step of a job that writes no file: a new plan for one job.
  <1>3. ASSUME NEW p \in Procs, NEW mine, Planning(mine), job' = [job EXCEPT ![p] = mine],
               file' = file, verdict' = verdict, backups' \subseteq backups
        PROVE  SharedInv'
    <2>1. DOMAIN job' = Procs /\ \A q \in Procs : Planning(job'[q])
      BY <1>3, JobsKept
    <2>2. QED
      BY <1>1, <1>3, <2>1 DEF SharedInv
  <1>4. ASSUME NEW p \in Procs, Command(p) \/ Step(p) \/ Crash(p)
        PROVE  SharedInv'
    <2> DEFINE j == job[p]
    <2>1. Planning(j) /\ {"pc", "plan", "intact"} \subseteq DOMAIN j
      BY <1>1 DEF Planning
    <2>2. ASSUME NEW arg, NEW setState, Check(p, arg, setState)
          PROVE  SharedInv'
      <3> DEFINE mine == [Idle EXCEPT !.pc = "checked", !.arg = arg, !.setState = setState,
                                      !.bound = LatestPreview, !.since = now]
      <3>1. Planning(mine)
        BY IdlePlans DEF Planning, Idle
      <3>2. job' = [job EXCEPT ![p] = mine] /\ UNCHANGED <<file, verdict, backups>>
        BY <2>2 DEF Check
      <3> HIDE DEF mine
      <3>3. QED
        BY <1>3, <3>1, <3>2
    <2>3. ASSUME NEW arg, NEW setState, NEW tie, Preview(p, arg, setState, tie)
          PROVE  SharedInv'
      BY <1>1, <2>3 DEF Preview, SharedInv
    <2>4. ASSUME NEW b \in backups, Rollback(p, b)
          PROVE  SharedInv'
      <3> DEFINE plan == RestorePlan(b)
                 mine == [Idle EXCEPT !.kind = "restore", !.pc = "write", !.backup = b.stamp,
                                      !.plan = plan, !.since = now, !.base = file,
                                      !.goal = b.hash]
      <3>1. plan \in Seq(SharedWrites)
        BY <1>1, RestorePlans
      <3>2. job' = [job EXCEPT ![p] = mine] /\ UNCHANGED <<file, verdict, backups>>
        BY <2>4 DEF Rollback
      <3> HIDE DEF plan
      <3>3. Planning(mine)
        BY <3>1 DEF Planning, Idle
      <3> HIDE DEF mine
      <3>4. QED
        BY <1>3, <3>2, <3>3
    <2>5. ASSUME Prune(p)
          PROVE  SharedInv'
      <3>1. backups' \subseteq backups /\ UNCHANGED <<file, verdict, job>>
        BY <1>2, <2>5 DEF Prune
      <3>2. QED
        BY <1>1, <3>1 DEF SharedInv
    <2>6. ASSUME NEW tie, MakeManifest(p, tie)
          PROVE  SharedInv'
      <3> DEFINE new == [stamp |-> <<now, tie>>, sealed |-> FALSE, hash |-> file,
                         blob |-> [presets |-> Absent, state |-> Absent]]
                 mine == [j EXCEPT !.pc = "hashed", !.backup = <<now, tie>>, !.base = file]
      <3>1. new.blob \in FileValues /\ "blob" \in DOMAIN new
        BY DEF FileValues
      <3>2. /\ backups' = backups \cup {new} /\ file' = file /\ verdict' = verdict
            /\ job' = [job EXCEPT ![p].pc = "hashed", ![p].backup = <<now, tie>>, ![p].base = file]
        BY <2>6 DEF MakeManifest
      <3>3. job' = [job EXCEPT ![p] = mine]
        BY <1>1, <3>2
      <3>4. Planning(mine)
        BY <2>1 DEF Planning
      <3> HIDE DEF new, mine
      <3>5. DOMAIN job' = Procs /\ \A q \in Procs : Planning(job'[q])
        BY <3>3, <3>4, JobsKept
      <3>6. QED
        BY <1>1, <3>1, <3>2, <3>5 DEF SharedInv
    <2>7. ASSUME Seal(p)
          PROVE  SharedInv'
      <3> DEFINE sealed(b) == IF b \in OwnBackup(p) THEN [b EXCEPT !.sealed = TRUE, !.blob = file]
                              ELSE b
                 mine == IF OwnBackup(p) = {} THEN Idle ELSE [j EXCEPT !.pc = "sealed"]
      <3>1. /\ backups' = {sealed(b) : b \in backups} /\ file' = file /\ verdict' = verdict
            /\ job' = [job EXCEPT ![p] = mine]
        BY <2>7 DEF Seal
      <3>2. \A b \in backups : "blob" \in DOMAIN sealed(b) /\ sealed(b).blob \in FileValues
        BY <1>1
      <3>3. Planning(mine)
        BY <2>1, IdlePlans DEF Planning
      <3> HIDE DEF mine, sealed
      <3>4. DOMAIN job' = Procs /\ \A q \in Procs : Planning(job'[q])
        BY <3>1, <3>3, JobsKept
      <3>5. \A b \in backups' : "blob" \in DOMAIN b /\ b.blob \in FileValues
        BY <3>1, <3>2
      <3>6. QED
        BY <1>1, <3>1, <3>4, <3>5 DEF SharedInv
    <2>8. ASSUME PruneOwn(p)
          PROVE  SharedInv'
      <3> DEFINE mine == [j EXCEPT !.pc = "ready"]
      <3>1. job' = [job EXCEPT ![p] = mine] /\ backups' \subseteq backups
            /\ file' = file /\ verdict' = verdict
        BY <1>2, <2>8 DEF PruneOwn
      <3>2. Planning(mine)
        BY <2>1 DEF Planning
      <3> HIDE DEF mine
      <3>3. QED
        BY <1>3, <3>1, <3>2
    <2>9. ASSUME Load(p)
          PROVE  SharedInv'
      <3>1. CASE verdict = None \/ file.presets = Torn
        <4>1. job' = [job EXCEPT ![p] = Recovered(p)] /\ UNCHANGED <<file, verdict, backups>>
          BY <2>9, <3>1 DEF Load
        <4>2. QED
          BY <1>3, <4>1, RecoveredPlans
      <3>2. CASE ~(verdict = None \/ file.presets = Torn)
        <4> DEFINE store == IF file.presets = Absent THEN EmptyStore ELSE file.presets
                   entry == [to |-> "presets", content |-> [store EXCEPT ![JobName(p)] = verdict]]
                   boot == [to |-> "state", content |-> verdict]
                   plan == IF job[p].setState THEN <<entry, boot>> ELSE <<entry>>
                   mine == [j EXCEPT !.pc = "write", !.seating = verdict, !.plan = plan]
        <4>1. /\ job' = [job EXCEPT ![p].pc = "write", ![p].seating = verdict, ![p].plan = plan]
              /\ UNCHANGED <<file, verdict, backups>>
          BY <2>9, <3>2 DEF Load
        <4>2. job' = [job EXCEPT ![p] = mine]
          BY <1>1, <4>1
        <4>3. verdict \in Seatings /\ verdict \in States
          BY <1>1, <3>2, SessionAssumption
        <4>4. store \in Library
          BY <1>1, <3>2 DEF FileValues, Library, EmptyStore
        <4>5. [store EXCEPT ![JobName(p)] = verdict] \in Library
          BY <4>3, <4>4 DEF Library
        <4> HIDE DEF store
        <4>6. entry \in SharedWrites /\ boot \in SharedWrites
          BY <4>3, <4>5 DEF SharedWrites
        <4> HIDE DEF entry, boot
        <4>7. plan \in Seq(SharedWrites)
          BY <4>6
        <4> HIDE DEF plan
        <4>8. Planning(mine)
          BY <2>1, <4>7 DEF Planning
        <4> HIDE DEF mine
        <4>9. QED
          BY <1>3, <4>1, <4>2, <4>8
      <3>3. QED
        BY <3>1, <3>2
    <2>10. ASSUME NEW content, file' = [file EXCEPT ![Target(p)] = content], NEW mine,
                  j.plan # <<>>, content \in {Torn, Absent, Head(j.plan).content},
                  job' = Others(p, mine), Planning(mine), UNCHANGED <<verdict, backups>>
           PROVE  SharedInv'
      <3>1. Head(j.plan) \in SharedWrites
        BY <2>1, <2>10, PlanParts DEF Planning
      <3>2. file' \in FileValues
        BY <1>1, <2>10, <3>1, FileKept DEF Target
      <3>3. DOMAIN job' = Procs /\ \A q \in Procs : Planning(job'[q])
        BY <2>10, JobsKept
      <3>4. QED
        BY <1>1, <2>10, <3>2, <3>3 DEF SharedInv
    <2>11. j.plan # <<>> => Tail(j.plan) \in Seq(SharedWrites)
      BY <2>1, PlanParts DEF Planning
    <2>12. ASSUME Truncate(p)
           PROVE  SharedInv'
      <3> DEFINE mine == [j EXCEPT !.pc = "fill", !.wrote = TRUE]
      <3>1. /\ file' = [file EXCEPT ![Target(p)] = Torn] /\ j.plan # <<>>
            /\ job' = Others(p, mine) /\ UNCHANGED <<verdict, backups>>
        BY <2>12 DEF Truncate, Writing
      <3>2. Planning(mine)
        BY <2>1, <3>1 DEF Planning
      <3> HIDE DEF mine, j
      <3>3. QED
        BY <2>10, <3>1, <3>2
    <2>13. ASSUME Fill(p)
           PROVE  SharedInv'
      <3> DEFINE mine == [j EXCEPT !.pc = "write", !.plan = Tail(@)]
      <3>1. /\ file' = [file EXCEPT ![Target(p)] = Head(j.plan).content] /\ j.plan # <<>>
            /\ job' = Others(p, mine) /\ UNCHANGED <<verdict, backups>>
        BY <2>1, <2>13 DEF Fill, Planning
      <3>2. Planning(mine)
        BY <2>1, <2>11, <3>1 DEF Planning
      <3> HIDE DEF mine, j
      <3>3. QED
        BY <2>10, <3>1, <3>2
    <2>14. ASSUME Unlink(p)
           PROVE  SharedInv'
      <3> DEFINE mine == [j EXCEPT !.plan = Tail(@)]
      <3>1. /\ file' = [file EXCEPT ![Target(p)] = Absent] /\ j.plan # <<>> /\ j.pc = "write"
            /\ job' = Others(p, mine) /\ UNCHANGED <<verdict, backups>>
        BY <2>14 DEF Unlink, Writing
      <3>2. Planning(mine)
        BY <2>1, <2>11, <3>1 DEF Planning
      <3> HIDE DEF mine, j
      <3>3. QED
        BY <2>10, <3>1, <3>2
    <2>15. ASSUME j.plan # <<>>
           PROVE  Planning(NextFile(p))
      BY <2>1, <2>11, <2>15 DEF Planning, NextFile
    <2>16. ASSUME SkipMissing(p)
           PROVE  SharedInv'
      <3>1. /\ job' = [job EXCEPT ![p] = NextFile(p)] /\ UNCHANGED <<file, verdict, backups>>
            /\ j.plan # <<>>
        BY <2>16 DEF SkipMissing, Writing
      <3>2. QED
        BY <1>3, <2>15, <3>1
    <2>17. ASSUME Verify(p)
           PROVE  SharedInv'
      BY <1>3, <2>17, IdlePlans, RecoveredPlans DEF Verify
    <2>18. ASSUME RestoreDone(p)
           PROVE  SharedInv'
      BY <1>3, <2>18, IdlePlans DEF RestoreDone
    <2>19. ASSUME WriteFails(p)
           PROVE  SharedInv'
      <3>1. j.plan # <<>>
        BY <2>1, <2>19 DEF WriteFails, Writing, Planning
      <3>2. /\ job' = [job EXCEPT ![p] = IF job[p].kind = "apply" THEN Recovered(p) ELSE NextFile(p)]
            /\ UNCHANGED <<file, verdict, backups>>
        BY <2>19 DEF WriteFails
      <3>3. QED
        BY <1>3, <2>15, <3>1, <3>2, RecoveredPlans
    <2>20. ASSUME ReadFails(p)
           PROVE  SharedInv'
      BY <1>3, <2>20, RecoveredPlans DEF ReadFails
    <2>21. ASSUME Crash(p)
           PROVE  SharedInv'
      BY <1>3, <2>21, IdlePlans DEF Crash
    <2>22. CASE Command(p)
      BY <2>2, <2>3, <2>4, <2>5, <2>22 DEF Command
    <2>23. CASE Step(p)
      BY <2>6, <2>7, <2>8, <2>9, <2>12, <2>13, <2>14, <2>16, <2>17, <2>18, <2>19, <2>20, <2>23
         DEF Step
    <2>24. QED
      BY <1>4, <2>21, <2>22, <2>23
  <1>5. CASE NewVerdict
    BY <1>1, <1>5 DEF NewVerdict, SharedInv
  <1>6. CASE Tick
    BY <1>1, <1>6 DEF Tick, SharedInv
  <1>7. QED
    BY <1>4, <1>5, <1>6 DEF Next

(***************************************************************************)
(* The session's part                                                      *)
(***************************************************************************)
SessionTypes ==
    /\ scene \in Scenes /\ SharedInv
    /\ omo \in Omo!OmoFiles
    /\ config \in [Layers!LayerFiles -> Layers!LayerContents]
    /\ server \in {None} \cup Servers
    /\ call \in [Actors -> Calls]
    /\ own \in [Roles -> Omo!Targets]
    /\ loaded \in {None} \cup Layers!Bindings

\* A call that has nothing to do is NoCall, and there is no other once opencode
\* is closed.  Until the config hook has run, the server migrates at most.  A
\* tool of the server was made from what it still has in memory.
CallsInv ==
    /\ \A a \in Actors : /\ call[a].tool = "none" => call[a] = NoCall
                         /\ call[a].stage \in {"omo", "state"} => Shaped(call[a])
    /\ server = None => \A a \in Actors : call[a] = NoCall
    /\ call["tui"].tool \notin {"migrate", "remove"}
    /\ Open => IF server.live = None
               THEN call["server"].tool \in {"none", "migrate"} /\ call["server"].swap = {}
               ELSE server.originals \in Originals
    /\ call["server"].stage \in {"omo", "state"} => call["server"].basis = Memory

\* The memory of the server is a state.
LEMMA MemoryTyped ==
    ASSUME server \in Servers
    PROVE  Memory \in States /\ Memory.agents = server.agents /\ Memory.omo = server.omo
  BY DEF Memory, Servers, States

\* What save_preset collects is a preset.
LEMMA SnappedTyped ==
    ASSUME SessionTypes, server \in Servers, server.live # None,
           NEW state \in States, NEW a \in Actors
    PROVE  Snapped(a, state) \in Layers!Preset
  <1> DEFINE usable == omo \notin {Absent, Torn}
             inOmo == [r \in Roles |-> IF usable THEN Omo!Target(omo, r).model ELSE None]
             records == [r \in Roles |-> IF state.omo[r] = None THEN None ELSE state.omo[r].model]
             recordOrigin == IF a = "server" THEN IF usable THEN "omo" ELSE None
                             ELSE IF omo # Absent THEN "omo" ELSE "state"
             live == [r \in Roles |-> IF a = "server" /\ ~Omo!IsOmoName(omo, r)
                                      THEN server.live[r] ELSE None]
  <1> DEFINE Entry == [model : Models, origin : Layers!Origins]
  <1>1. ASSUME NEW models \in Layers!Bindings, NEW origin \in Layers!Origins
        PROVE  From(models, origin) \in [Roles -> Entry \cup {None}]
    BY DEF From, Layers!Bindings
  <1>2. inOmo \in Layers!Bindings
    <2>1. \A r \in Roles : Omo!Target(omo, r).model \in {None} \cup Models
      BY TargetTyped DEF SessionTypes, Omo!Targets
    <2>2. QED
      BY <2>1 DEF Layers!Bindings
  <1>3. records \in Layers!Bindings
    <2>1. \A r \in Roles : state.omo[r] # None => state.omo[r].model \in Models
      BY DEF States, Omo!Records
    <2>2. QED
      BY <2>1 DEF Layers!Bindings
  <1>4. live \in Layers!Bindings
    <2>1. server.live \in Layers!Bindings
      BY DEF Servers
    <2>2. QED
      BY <2>1 DEF Layers!Bindings
  <1>5. state.agents \in Layers!Bindings
    BY DEF States
  <1>6. recordOrigin \in Layers!Origins /\ None \in Layers!Origins
        /\ "omo" \in Layers!Origins /\ "state" \in Layers!Origins
    BY DEF Layers!Origins
  <1>7. Snapped(a, state)
            = Layers!Overlay(From(live, None),
                  Layers!Overlay(Layers!Overlay(Layers!Harvest(config), From(inOmo, "omo")),
                      Layers!Overlay(From(state.agents, "state"), From(records, recordOrigin))))
    BY DEF Snapped
  <1>8. Layers!Harvest(config) \in [Roles -> Entry \cup {None}]
    BY HarvestTyped DEF SessionTypes, Layers!Preset
  <1> HIDE DEF inOmo, records, recordOrigin, live, Entry
  <1>9. /\ From(live, None) \in [Roles -> Entry \cup {None}]
        /\ From(inOmo, "omo") \in [Roles -> Entry \cup {None}]
        /\ From(state.agents, "state") \in [Roles -> Entry \cup {None}]
        /\ From(records, recordOrigin) \in [Roles -> Entry \cup {None}]
    BY <1>1, <1>2, <1>3, <1>4, <1>5, <1>6
  <1>10. Snapped(a, state) \in [Roles -> Entry \cup {None}]
    <2>1. Layers!Overlay(Layers!Harvest(config), From(inOmo, "omo")) \in [Roles -> Entry \cup {None}]
      BY <1>8, <1>9, OverlayTyped
    <2>2. Layers!Overlay(From(state.agents, "state"), From(records, recordOrigin))
              \in [Roles -> Entry \cup {None}]
      BY <1>9, OverlayTyped
    <2>3. Layers!Overlay(Layers!Overlay(Layers!Harvest(config), From(inOmo, "omo")),
              Layers!Overlay(From(state.agents, "state"), From(records, recordOrigin)))
              \in [Roles -> Entry \cup {None}]
      BY <2>1, <2>2, OverlayTyped
    <2>4. QED
      BY <1>7, <1>9, <2>3, OverlayTyped
  <1>11. QED
    BY <1>10 DEF Layers!Preset, Entry

\* snapshotOriginals adds the live models of some roles.
LEMMA SnapshotTyped ==
    ASSUME server \in Servers, server.originals \in Originals, server.live \in Layers!Bindings,
           NEW names \in SUBSET Roles
    PROVE  /\ Snapshot(names) \in Originals
           /\ \A r \in Roles : OriginalOf(r) \in {None} \cup Models
  <1>1. PICK rs \in SUBSET Roles : server.originals \in [rs -> {None} \cup Models]
    BY DEF Originals
  <1>2. DOMAIN server.originals = rs
    BY <1>1
  <1>3. Snapshot(names) \in [rs \cup names -> {None} \cup Models]
    BY <1>1, <1>2 DEF Snapshot, Layers!Bindings
  <1>4. rs \cup names \in SUBSET Roles
    BY <1>1
  <1>5. QED
    BY <1>1, <1>2, <1>3, <1>4 DEF OriginalOf, Originals

\* The server after a hot swap.
LEMMA SwappedTyped ==
    ASSUME server \in Servers, NEW c \in Calls,
           IF server.live = None THEN c.swap = {} ELSE server.originals \in Originals
    PROVE  /\ Swapped(c) \in Servers
           /\ Swapped(c).agents = c.next.agents /\ Swapped(c).omo = c.next.omo
           /\ server.live = None =>
                  Swapped(c).live = None /\ Swapped(c).originals = server.originals
           /\ server.live # None =>
                  /\ Swapped(c).originals \in Originals
                  /\ Swapped(c).live # None
                  /\ \A r \in Roles :
                        /\ r \in c.swap /\ c.next.agents[r] # None
                           => Swapped(c).live[r] = c.next.agents[r]
                        /\ r \notin c.swap => Swapped(c).live[r] = server.live[r]
  <1> DEFINE originals == IF Given(c) = {} THEN server.originals ELSE Snapshot(Given(c))
             live == IF c.swap = {} THEN server.live
                     ELSE [r \in Roles |->
                              IF r \in Given(c) THEN c.next.agents[r]
                              ELSE IF r \in c.swap /\ server.agents[r] # None THEN OriginalOf(r)
                              ELSE server.live[r]]
  <1>1. /\ c.swap \in SUBSET Roles /\ c.next.agents \in Layers!Bindings
        /\ c.next.omo \in [Roles -> {None} \cup Omo!Records]
    BY DEF Calls, States
  <1>2. Given(c) \in SUBSET Roles /\ Given(c) = {r \in c.swap : c.next.agents[r] # None}
    BY <1>1 DEF Given
  <1>3. Swapped(c) = [server EXCEPT !.agents = c.next.agents, !.omo = c.next.omo,
                                    !.originals = originals, !.live = live]
    BY DEF Swapped, Servers
  <1>4. CASE server.live = None
    <2>1. originals = server.originals /\ live = server.live
      BY <1>2, <1>4
    <2> HIDE DEF originals, live
    <2>2. QED
      BY <1>1, <1>3, <1>4, <2>1 DEF Servers
  <1>5. CASE server.live # None
    <2>1. server.live \in Layers!Bindings
      BY <1>5 DEF Servers
    <2>2. originals \in Originals
      BY <1>2, <1>5, <2>1, SnapshotTyped
    <2>3. \A r \in Roles : OriginalOf(r) \in {None} \cup Models
      BY <1>5, <2>1, SnapshotTyped
    <2>4. live \in Layers!Bindings
      BY <1>1, <1>2, <2>1, <2>3 DEF Layers!Bindings
    <2>5. \A r \in Roles : /\ r \in c.swap /\ c.next.agents[r] # None
                              => live[r] = c.next.agents[r]
                           /\ r \notin c.swap => live[r] = server.live[r]
      BY <1>1, <1>2
    <2>6. live # None
      BY <2>4, SessionAssumption
    <2> HIDE DEF originals, live
    <2>7. /\ Swapped(c).live = live /\ Swapped(c).originals = originals
          /\ Swapped(c).agents = c.next.agents /\ Swapped(c).omo = c.next.omo
          /\ Swapped(c).presets = server.presets
      BY <1>3 DEF Servers
    <2>8. Swapped(c) \in Servers
      BY <1>1, <1>3, <2>2, <2>4 DEF Servers
    <2>9. QED
      BY <1>5, <2>2, <2>5, <2>6, <2>7, <2>8
  <1>6. QED
    BY <1>4, <1>5

(***************************************************************************)
(* The steps of a session, each by what it changes                         *)
(***************************************************************************)
SessionInv == SessionTypes /\ CallsInv

\* A tool or a dialog begins, goes on after the user's answer, or is dismissed:
\* nothing is written yet.
Begins(a, c) ==
    /\ call' = [call EXCEPT ![a] = c] /\ c \in Calls
    /\ Open /\ call[a].stage \in {"none", "choose", "confirm"}
    /\ c.stage # "files" /\ c.tool # "migrate"
    /\ c.tool = "none" => c = NoCall
    /\ c.tool # "none" => c.seen = omo \/ (Busy(a) /\ c.seen = call[a].seen)
    /\ c.stage \in {"omo", "state"} => Shaped(c)
    /\ c.stage = "state" => c.specs = NoRecords
    /\ a = "server" => /\ server.live # None
                       /\ c.stage \in {"omo", "state"} => c.basis = Memory
    /\ a = "tui" => c.tool # "remove"
    /\ UNCHANGED <<vars, scene, omo, config, server, own, loaded, odd>>

\* A call that was made from what its actor sees, and starts.
LEMMA StartBegins ==
    ASSUME SessionInv, NEW a \in Actors, NEW c, NEW tool \in {"assign", "remove", "load"},
           NEW state, NEW seen, Made(c, tool, state, seen),
           seen = omo \/ (Busy(a) /\ seen = call[a].seen),
           Open, call[a].stage \in {"none", "choose", "confirm"},
           a = "server" => server.live # None /\ state = Memory,
           a = "tui" => tool # "remove",
           call' = [call EXCEPT ![a] = Started(c)],
           UNCHANGED <<vars, scene, omo, config, server, own, loaded, odd>>
    PROVE  Begins(a, Started(c))
  <1>1. Made(Started(c), tool, state, seen)
    BY StartedMade
  <1>2. c \in Calls
    BY DEF Made
  <1>3. /\ Started(c).stage \in {"omo", "state"}
        /\ Started(c).stage = "state" <=> c.specs = NoRecords
        /\ Started(c).specs = c.specs
    BY <1>2, StartedTyped DEF Calls, Started
  <1>4. QED
    BY <1>1, <1>3 DEF Begins, Made

\* A load is a call that has started.
LEMMA LoadStarted ==
    ASSUME NEW preset, NEW present, NEW seen, NEW state, NEW files
    PROVE  LoadCall(preset, present, seen, state, files)
               = Started(LoadCall(preset, present, seen, state, files))
  BY ZenonT(40) DEF LoadCall, Started, NoCall

\* What a tool of the server or a dialog does before its first write.
LEMMA BeginStep ==
    ASSUME SessionInv, ServerTool \/ Dialog
    PROVE  \E a \in Actors : \E c : Begins(a, c)
  <1>1. /\ scene \in Scenes /\ file \in FileValues /\ omo \in Omo!OmoFiles
        /\ server \in {None} \cup Servers /\ call \in [Actors -> Calls]
    BY DEF SessionInv, SessionTypes, SharedInv
  <1>2. \A a \in Actors : ~Busy(a) => call[a].stage = "none"
    BY DEF SessionInv, CallsInv, Busy, NoCall
  <1>3. Ready => /\ server \in Servers /\ server.live # None /\ Open /\ Memory \in States
                 /\ Memory.omo = server.omo /\ Memory.agents = server.agents
    BY <1>1, MemoryTyped DEF Ready, Open
  <1>4. ASSUME call["tui"].stage # "none"
        PROVE  Open
    BY <1>4 DEF SessionInv, CallsInv, NoCall, Open, Actors
  <1>5. LoadedState \in States
    BY <1>1, StateTyped
  <1>6. "server" \in Actors /\ "tui" \in Actors
    BY DEF Actors
  <1>7. ASSUME NEW r \in Roles, NEW m \in Offered, Assign(r, m)
        PROVE  \E a \in Actors : \E c : Begins(a, c)
    <2> DEFINE c == AssignCall(Memory, omo, r, m)
    <2>1. Made(c, "assign", Memory, omo)
      BY <1>1, <1>3, <1>7, AssignMade, SessionAssumption DEF Assign
    <2>2. /\ call' = [call EXCEPT !["server"] = Started(c)]
          /\ Ready /\ ~Busy("server")
          /\ UNCHANGED <<vars, scene, omo, config, server, own, loaded, odd>>
      BY <1>7 DEF Assign, HrUntouched
    <2> HIDE DEF c
    <2>3. Begins("server", Started(c))
      BY <1>2, <1>3, <1>6, <2>1, <2>2, StartBegins
    <2>4. QED
      BY <1>6, <2>3
  <1>8. ASSUME NEW r \in Roles, Remove(r)
        PROVE  \E a \in Actors : \E c : Begins(a, c)
    <2> DEFINE rec == server.omo[r]
               c1 == [NoCall EXCEPT !.tool = "remove", !.basis = Memory, !.seen = omo,
                          !.specs = Only(r, Omo!RevertSpec(Omo!TargetKind(omo, r), rec)),
                          !.next = [Memory EXCEPT !.omo[r] = None]]
               c2 == [NoCall EXCEPT !.tool = "remove", !.basis = Memory, !.seen = omo,
                          !.swap = {r}, !.next = [Memory EXCEPT !.agents[r] = None]]
    <2>1. /\ Ready /\ ~Busy("server")
          /\ UNCHANGED <<vars, scene, omo, config, server, own, loaded, odd>>
          /\ \/ rec # None /\ call' = [call EXCEPT !["server"] = Started(c1)]
             \/ rec = None /\ call' = [call EXCEPT !["server"] = Started(c2)]
      BY <1>8 DEF Remove, HrUntouched
    <2>2. rec # None => Made(c1, "remove", Memory, omo)
      BY <1>1, <1>3, <2>1, RemoveMade
    <2>3. rec = None => Made(c2, "remove", Memory, omo)
      BY <1>1, <1>3, <2>1, RemoveMade
    <2> HIDE DEF c1, c2, rec
    <2>4. Begins("server", Started(c1)) \/ Begins("server", Started(c2))
      BY <1>2, <1>3, <1>6, <2>1, <2>2, <2>3, StartBegins
    <2>5. QED
      BY <1>6, <2>4
  <1>9. ASSUME NEW name \in Names, NEW mode \in scene.modes, LoadPreset(name, mode)
        PROVE  \E a \in Actors : \E c : Begins(a, c)
    <2> DEFINE preset == server.presets[name].bindings
               present == scene.here \cup DOMAIN server.originals \cup Layers!Bound(server.live)
                              \cup Targets(omo)
               files == Planned(preset, present, omo, mode)
               c == LoadCall(preset, present, omo, Memory, files)
    <2>1. /\ Ready /\ ~Busy("server") /\ server.presets[name] # None
          /\ UNCHANGED <<vars, scene, omo, config, server, own, loaded, odd>>
          /\ call' = [call EXCEPT !["server"] = c]
      BY <1>9 DEF LoadPreset, HrUntouched
    <2>2. preset \in Layers!Preset
      BY <1>3, <2>1 DEF Servers, HeldStores, Saved
    <2>3. mode \in Layers!Modes
      BY <1>1, SessionAssumption
    <2> HIDE DEF preset, present
    <2>4. files \in FilePlans
      BY <2>2, <2>3, PlanTyped
    <2> HIDE DEF files
    <2>5. Made(c, "load", Memory, omo)
      BY <1>1, <1>3, <2>1, <2>2, <2>4, LoadMade
    <2>6. c = Started(c)
      BY LoadStarted
    <2> HIDE DEF c
    <2>7. Begins("server", Started(c))
      BY <1>2, <1>3, <1>6, <2>1, <2>5, <2>6, StartBegins
    <2>8. QED
      BY <1>6, <2>7
  <1>10. ASSUME OpenAssign
         PROVE  \E a \in Actors : \E c : Begins(a, c)
    <2> DEFINE c == [NoCall EXCEPT !.tool = "assign", !.stage = "choose", !.seen = omo]
    <2>1. /\ Ready /\ ~Busy("tui")
          /\ UNCHANGED <<vars, scene, omo, config, server, own, loaded, odd>>
          /\ call' = [call EXCEPT !["tui"] = c]
      BY <1>10 DEF OpenAssign, HrUntouched
    <2>2. c \in Calls /\ c.stage = "choose" /\ c.tool = "assign" /\ c.seen = omo
      BY <1>1, NoCallTyped DEF Calls
    <2> HIDE DEF c
    <2>3. Begins("tui", c)
      BY <1>2, <1>3, <1>6, <2>1, <2>2 DEF Begins
    <2>4. QED
      BY <1>6, <2>3
  <1>11. ASSUME NEW r \in Roles, NEW m \in Offered, Pick(r, m)
         PROVE  \E a \in Actors : \E c : Begins(a, c)
    <2> DEFINE seen == call["tui"].seen
               c == AssignCall(LoadedState, seen, r, m)
    <2>1. /\ call["tui"].stage = "choose"
          /\ UNCHANGED <<vars, scene, omo, config, server, own, loaded, odd>>
          /\ call' = [call EXCEPT !["tui"] = Started(c)]
      BY <1>1, <1>6, <1>11 DEF Pick, HrUntouched
    <2>2. seen \in Omo!OmoFiles
      BY <1>1, <1>6 DEF Calls
    <2> HIDE DEF seen
    <2>3. Made(c, "assign", LoadedState, seen)
      BY <1>5, <2>2, AssignMade, SessionAssumption
    <2> HIDE DEF c
    <2>4. Busy("tui") /\ Open
      BY <1>2, <1>4, <1>6, <2>1
    <2>5. Begins("tui", Started(c))
      BY <1>6, <2>1, <2>3, <2>4, StartBegins DEF seen
    <2>6. QED
      BY <1>6, <2>5
  <1>12. ASSUME Dismiss
         PROVE  \E a \in Actors : \E c : Begins(a, c)
    <2>1. /\ call["tui"].stage \in {"choose", "confirm"}
          /\ UNCHANGED <<vars, scene, omo, config, server, own, loaded, odd>>
          /\ call' = [call EXCEPT !["tui"] = NoCall]
      BY <1>12 DEF Dismiss, HrUntouched
    <2>2. Open
      BY <1>4, <2>1
    <2>3. NoCall \in Calls /\ NoCall.stage = "none" /\ NoCall.tool = "none"
      BY NoCallTyped DEF NoCall
    <2>4. Begins("tui", NoCall)
      BY <2>1, <2>2, <2>3 DEF Begins
    <2>5. QED
      BY <1>6, <2>4
  <1>13. ASSUME NEW name \in Names, NEW mode \in scene.modes, OpenLoad(name, mode)
         PROVE  \E a \in Actors : \E c : Begins(a, c)
    <2> DEFINE preset == LoadedPresets[name].bindings
               files == Planned(preset, scene.here \cup Targets(omo), omo, mode)
               c == [NoCall EXCEPT !.tool = "load", !.stage = "confirm", !.preset = preset,
                                   !.seen = omo, !.files = files]
    <2>1. /\ Ready /\ ~Busy("tui") /\ LoadedPresets[name] # None
          /\ UNCHANGED <<vars, scene, omo, config, server, own, loaded, odd>>
          /\ call' = [call EXCEPT !["tui"] = c]
      BY <1>13 DEF OpenLoad, HrUntouched
    <2>2. preset \in Layers!Preset
      BY <1>1, <2>1, PresetsTyped DEF HeldStores, Saved
    <2>3. mode \in Layers!Modes
      BY <1>1, SessionAssumption
    <2> HIDE DEF preset
    <2>4. files \in FilePlans
      BY <2>2, <2>3, PlanTyped
    <2> HIDE DEF files
    <2>5. c \in Calls /\ c.stage = "confirm" /\ c.tool = "load" /\ c.seen = omo
      BY <1>1, <2>2, <2>4, NoCallTyped DEF Calls
    <2> HIDE DEF c
    <2>6. Begins("tui", c)
      BY <1>2, <1>3, <1>6, <2>1, <2>5 DEF Begins
    <2>7. QED
      BY <1>6, <2>6
  <1>14. ASSUME Confirm
         PROVE  \E a \in Actors : \E c : Begins(a, c)
    <2> DEFINE d == call["tui"]
               c == LoadCall(d.preset, scene.here \cup Targets(d.seen), d.seen, LoadedState, d.files)
    <2>1. /\ d.stage = "confirm"
          /\ UNCHANGED <<vars, scene, omo, config, server, own, loaded, odd>>
          /\ call' = [call EXCEPT !["tui"] = c]
      BY <1>14 DEF Confirm, HrUntouched
    <2>2. d.seen \in Omo!OmoFiles /\ d.preset \in Layers!Preset /\ d.files \in FilePlans
      BY <1>1, <1>6 DEF Calls
    <2>3. Made(c, "load", LoadedState, d.seen)
      BY <1>5, <2>2, LoadMade
    <2>4. Busy("tui") /\ Open
      BY <1>2, <1>4, <1>6, <2>1
    <2>5. c = Started(c)
      BY LoadStarted
    <2> HIDE DEF c
    <2>6. Begins("tui", Started(c))
      BY <1>6, <2>1, <2>3, <2>4, <2>5, StartBegins
    <2>7. QED
      BY <1>6, <2>6
  <1>15. CASE ServerTool
    BY <1>7, <1>8, <1>9, <1>15 DEF ServerTool
  <1>16. CASE Dialog
    BY <1>10, <1>11, <1>12, <1>13, <1>14, <1>16 DEF Dialog
  <1>17. QED
    BY <1>15, <1>16

\* FastDraw replaces one of the two files: hr's jobs are told.
LEMMA WriteShared ==
    ASSUME SharedInv, NEW f \in Files, NEW content, FileWritten(f, content),
           f = "presets" => content \in Library, f = "state" => content \in States
    PROVE  /\ SharedInv'
           /\ f = "presets" => file'.state = file.state
           /\ f = "state" => file'.state = content
  <1>1. file \in FileValues /\ file' = [file EXCEPT ![f] = content]
    BY DEF SharedInv, FileWritten
  <1>2. f = "presets" \/ f = "state"
    BY DEF Files
  <1>3. file' \in FileValues
    BY <1>1, <1>2 DEF FileValues
  <1>4. /\ f = "presets" => file'.state = file.state
        /\ f = "state" => file'.state = content
    BY <1>1 DEF FileValues
  <1>5. /\ job' = [q \in Procs |-> IF InFlight(q) THEN [job[q] EXCEPT !.intact = FALSE] ELSE job[q]]
        /\ UNCHANGED <<verdict, backups>>
    BY DEF FileWritten
  <1>6. DOMAIN job' = Procs /\ \A q \in Procs : Planning(job'[q])
    BY <1>5, OthersPlan DEF SharedInv
  <1>7. QED
    BY <1>3, <1>4, <1>5, <1>6 DEF SharedInv

\* A store of presets is written, from the server's copy or from the file.
Stocks ==
    /\ SharedInv' /\ file'.state = file.state
    /\ UNCHANGED <<scene, omo, config, call, own, loaded>>
    /\ \/ server' = server /\ odd' = odd
       \/ /\ server' \in Servers /\ server'.live = server.live
          /\ server'.originals = server.originals
          /\ ~Busy("server") /\ Ready
          /\ odd' \in {odd, odd \cup {"adrift"}}
          /\ "adrift" \notin odd' => server'.agents = server.agents

\* What the tools and dialogs for presets do.
LEMMA StockStep ==
    ASSUME SessionInv, NEW a \in Actors, Presets(a)
    PROVE  Stocks
  <1>1. /\ scene \in Scenes /\ file \in FileValues /\ SharedInv /\ SessionTypes
        /\ server \in {None} \cup Servers
    BY DEF SessionInv, SessionTypes, SharedInv
  <1>2. Ready => server \in Servers /\ server.live # None
    BY <1>1 DEF Ready, Open
  <1>3. LoadedState \in States
    BY <1>1, StateTyped
  <1>4. Ready => Store(a) \in HeldStores
    BY <1>1, <1>2, PresetsTyped DEF Store, Servers
  <1>5. "presets" \in Files /\ \A store \in HeldStores : store \in Library
    BY DEF Files, HeldStores, Library
  \* A tool that changes nothing in memory besides the store.
  <1>6. ASSUME NEW store \in HeldStores, StoreWritten(a, store), Ready, ~Busy(a),
               server' = IF a = "server" THEN [server EXCEPT !.presets = store] ELSE server,
               UNCHANGED odd
        PROVE  Stocks
    <2>1. FileWritten("presets", store) /\ UNCHANGED <<omo, config, call, own, loaded>>
      BY <1>6 DEF StoreWritten
    <2>2. SharedInv' /\ file'.state = file.state
      BY <1>1, <1>5, <2>1, WriteShared
    <2>3. scene' = scene
      BY <2>1 DEF FileWritten
    <2>4. CASE a = "server"
      <3>1. server' = [server EXCEPT !.presets = store]
        BY <1>6, <2>4
      <3>2. /\ server' \in Servers /\ server'.live = server.live
            /\ server'.originals = server.originals /\ server'.agents = server.agents
        BY <1>2, <1>6, <3>1 DEF Servers
      <3>3. QED
        BY <1>6, <2>1, <2>2, <2>3, <2>4, <3>2 DEF Stocks
    <2>5. CASE a # "server"
      BY <1>6, <2>1, <2>2, <2>3, <2>5 DEF Stocks
    <2>6. QED
      BY <2>4, <2>5
  <1>7. ASSUME NEW name \in Names, SavePreset(a, name)
        PROVE  Stocks
    <2> DEFINE preset == Snapped(a, LoadedState)
               store == [Store(a) EXCEPT ![name] = [bindings |-> preset]]
    <2>1. /\ Ready /\ ~Busy(a) /\ StoreWritten(a, store)
          /\ IF a = "server"
             THEN /\ server' = [server EXCEPT !.presets = store,
                                    !.agents = LoadedState.agents, !.omo = LoadedState.omo]
                  /\ odd' = odd \cup {"adrift" : x \in {server.agents} \ {LoadedState.agents}}
             ELSE UNCHANGED <<server, odd>>
      BY <1>7 DEF SavePreset
    <2>2. preset \in Layers!Preset
      BY <1>1, <1>2, <1>3, <2>1, SnappedTyped
    <2> HIDE DEF preset
    <2>3. store \in HeldStores
      BY <1>4, <2>1, <2>2 DEF HeldStores, Saved
    <2> HIDE DEF store
    <2>4. CASE a = "server"
      <3>1. FileWritten("presets", store) /\ UNCHANGED <<omo, config, call, own, loaded>>
        BY <2>1 DEF StoreWritten
      <3>2. SharedInv' /\ file'.state = file.state
        BY <1>1, <1>5, <2>3, <3>1, WriteShared
      <3>3. scene' = scene
        BY <3>1 DEF FileWritten
      <3> DEFINE agents == LoadedState.agents
                 records == LoadedState.omo
      <3>4. agents \in Layers!Bindings /\ records \in [Roles -> {None} \cup Omo!Records]
        BY <1>3 DEF States
      <3>5. server' = [server EXCEPT !.presets = store, !.agents = agents, !.omo = records]
        BY <2>1, <2>4
      <3>6. odd' = odd \cup {"adrift" : x \in {server.agents} \ {agents}}
        BY <2>1, <2>4
      <3> HIDE DEF agents, records
      <3>7. /\ server' \in Servers /\ server'.live = server.live /\ server'.agents = agents
            /\ server'.originals = server.originals
        BY <1>2, <2>1, <2>3, <3>4, <3>5 DEF Servers
      <3>8. /\ odd' \in {odd, odd \cup {"adrift"}}
            /\ "adrift" \notin odd' => agents = server.agents
        BY <3>6
      <3>9. QED
        BY <2>1, <2>4, <3>1, <3>2, <3>3, <3>7, <3>8 DEF Stocks
    <2>5. CASE a # "server"
      BY <1>6, <2>1, <2>3, <2>5
    <2>6. QED
      BY <2>4, <2>5
  <1>8. ASSUME NEW imported \in Imports, ImportPresets(a, imported)
        PROVE  Stocks
    <2> DEFINE store == [n \in Names |-> IF imported[n] = None THEN Store(a)[n]
                                         ELSE Normalized(imported[n])]
    <2>1. /\ Ready /\ ~Busy(a) /\ StoreWritten(a, store) /\ UNCHANGED odd
          /\ server' = IF a = "server" THEN [server EXCEPT !.presets = store] ELSE server
      BY <1>8 DEF ImportPresets
    <2>2. \A n \in Names : imported[n] \in {None} \cup Seatings \cup Saved
      BY SessionAssumption DEF Library
    <2>3. store \in HeldStores
      BY <1>4, <2>1, <2>2, NormalizedTyped DEF HeldStores
    <2> HIDE DEF store
    <2>4. QED
      BY <1>6, <2>1, <2>3
  <1>9. ASSUME NEW name \in Names, DeletePreset(a, name)
        PROVE  Stocks
    <2> DEFINE store == [Store(a) EXCEPT ![name] = None]
    <2>1. /\ Ready /\ ~Busy(a) /\ StoreWritten(a, store) /\ UNCHANGED odd
          /\ server' = IF a = "server" THEN [server EXCEPT !.presets = store] ELSE server
      BY <1>9 DEF DeletePreset
    <2>2. store \in HeldStores
      BY <1>4, <2>1 DEF HeldStores
    <2> HIDE DEF store
    <2>3. QED
      BY <1>6, <2>1, <2>2
  <1>10. QED
    BY <1>7, <1>8, <1>9 DEF Presets

(***************************************************************************)
(* Type correctness of a session                                           *)
(***************************************************************************)

\* What is left of a call that has ended: nothing, or the dialog of assign.
LEMMA EndedTyped ==
    ASSUME SessionInv, NEW a \in Actors
    PROVE  /\ Ended(a) \in Calls /\ Ended(a).stage \in {"none", "choose"}
           /\ Ended(a).tool = "none" => Ended(a) = NoCall
           /\ Ended(a).tool # "none" => /\ a = "tui" /\ Ended(a).tool = "assign"
                                        /\ Ended(a).seen = call[a].seen /\ Busy(a)
  <1>1. call[a] \in Calls
    BY DEF SessionInv, SessionTypes
  <1>2. call[a].seen \in Omo!OmoFiles
    BY <1>1 DEF Calls
  <1>3. NoCall \in Calls /\ NoCall.stage = "none" /\ NoCall.tool = "none"
    BY NoCallTyped DEF NoCall
  <1> DEFINE d == [NoCall EXCEPT !.tool = "assign", !.stage = "choose", !.seen = call[a].seen]
  <1>4. d \in Calls /\ d.stage = "choose" /\ d.tool = "assign" /\ d.seen = call[a].seen
    BY <1>2, <1>3 DEF Calls
  <1>5. a = "tui" /\ call[a].tool = "assign" => Ended(a) = d /\ Busy(a)
    BY DEF Ended, Busy
  <1>6. ~(a = "tui" /\ call[a].tool = "assign") => Ended(a) = NoCall
    BY DEF Ended
  <1> HIDE DEF d
  <1>7. QED
    BY <1>3, <1>4, <1>5, <1>6

\* What a step may rely on.
LEMMA SessionFacts ==
    ASSUME SessionInv
    PROVE  /\ scene \in Scenes /\ SharedInv /\ file \in FileValues /\ omo \in Omo!OmoFiles
           /\ config \in [Layers!LayerFiles -> Layers!LayerContents]
           /\ server \in {None} \cup Servers
           /\ call \in [Actors -> Calls] /\ DOMAIN call = Actors
           /\ own \in [Roles -> Omo!Targets]
           /\ loaded \in {None} \cup Layers!Bindings
           /\ LoadedState \in States
           /\ Open <=> server \in Servers
           /\ \A a \in Actors : ~Busy(a) => call[a] = NoCall
           /\ \A a \in Actors : call[a] # NoCall => Open
           /\ \A a \in Actors : call[a].stage # "none" => Open /\ Busy(a)
           /\ \A a \in Actors : call[a].stage \in {"omo", "state"} => Shaped(call[a])
           /\ NoCall.stage = "none" /\ NoCall.tool = "none" /\ NoCall.swap = {}
           /\ "server" \in Actors /\ "tui" \in Actors
  <1>1. /\ scene \in Scenes /\ SharedInv /\ file \in FileValues /\ omo \in Omo!OmoFiles
        /\ config \in [Layers!LayerFiles -> Layers!LayerContents]
        /\ server \in {None} \cup Servers
        /\ call \in [Actors -> Calls]
        /\ own \in [Roles -> Omo!Targets]
        /\ loaded \in {None} \cup Layers!Bindings
    BY DEF SessionInv, SessionTypes, SharedInv
  <1>2. LoadedState \in States
    BY <1>1, StateTyped
  <1>3. Open <=> server \in Servers
    BY <1>1, SessionAssumption DEF Open
  <1>4. /\ \A a \in Actors : ~Busy(a) => call[a] = NoCall
        /\ \A a \in Actors : call[a] # NoCall => Open
        /\ \A a \in Actors : call[a].stage \in {"omo", "state"} => Shaped(call[a])
    BY DEF SessionInv, CallsInv, Busy, Open
  <1>5. NoCall.stage = "none" /\ NoCall.tool = "none" /\ NoCall.swap = {}
    BY DEF NoCall
  <1>6. QED
    BY <1>1, <1>2, <1>3, <1>4, <1>5 DEF Actors

\* Shape is a matter of what a call writes and was made of.
LEMMA SameShape ==
    ASSUME NEW c \in Calls, NEW stage, Shaped(c)
    PROVE  Shaped([c EXCEPT !.stage = stage])
  BY DEF Shaped, Keeps, Binds, Reverts, LoadShape, Calls

\* What is said of the calls is said of them, the server and the scene.
LEMMA CallsAlone ==
    ASSUME CallsInv, call' = call, server' = server, scene' = scene, Memory' = Memory
    PROVE  CallsInv'
  <1>1. \A a \in Actors : Shaped(call[a])' = Shaped(call[a])
    BY DEF Shaped, Keeps, Binds, Reverts, LoadShape
  <1>2. QED
    BY <1>1 DEF CallsInv, Open

\* opencode starts.
LEMMA BootTyped == SessionInv /\ Boot => SessionInv'
  <1> SUFFICES ASSUME SessionInv, Boot
               PROVE  SessionInv'
    OBVIOUS
  <1> USE SessionFacts
  <1> DEFINE state == LoadedState
             c == [NoCall EXCEPT !.tool = "migrate", !.stage = "omo", !.basis = state,
                       !.seen = omo, !.next = Migrated(state),
                       !.specs = [r \in Roles |-> IF r \in Migrating(state)
                                                  THEN Omo!Spec(state.agents[r]) ELSE None]]
             begun == [presets |-> LoadedPresets, agents |-> state.agents, omo |-> state.omo,
                       live |-> None, originals |-> None]
  <1>1. /\ server = None /\ server' = begun /\ UNCHANGED <<omo, config, own, loaded>>
        /\ UNCHANGED <<vars, scene>>
        /\ \/ call' = [call EXCEPT !["server"] = NoCall]
           \/ call' = [call EXCEPT !["server"] = c]
    BY DEF Boot, HrUntouched, Open
  <1>2. Made(c, "migrate", state, omo)
    BY MigrateMade
  <1>3. c.swap = {}
    BY DEF NoCall
  <1>4. \A a \in Actors : call[a] = NoCall
    BY <1>1 DEF Open
  <1>5. begun \in Servers /\ begun.agents = state.agents /\ begun.omo = state.omo
        /\ begun.live = None
    <2>1. LoadedPresets \in HeldStores
      BY PresetsTyped
    <2>2. state.agents \in Layers!Bindings /\ state.omo \in [Roles -> {None} \cup Omo!Records]
      BY DEF States
    <2> HIDE DEF state
    <2>3. QED
      BY <2>1, <2>2 DEF Servers
  <1>6. Memory' = state
    <2>1. Memory' = [agents |-> state.agents, omo |-> state.omo]
      BY <1>1, <1>5 DEF Memory
    <2>2. QED
      BY <2>1 DEF States
  <1> HIDE DEF c, begun, state
  <1>7. PICK d \in {NoCall, c} : call' = [call EXCEPT !["server"] = d]
    BY <1>1
  <1>8. /\ d \in Calls /\ d.swap = {} /\ d.tool \in {"none", "migrate"}
        /\ d.tool = "none" => d = NoCall
        /\ d.stage \in {"omo", "state"} => Shaped(d) /\ d.basis = state
    BY <1>2, <1>3, <1>7, NoCallTyped DEF Made
  <1>9. SessionTypes'
    <2>1. SharedInv'
      BY <1>1 DEF SharedInv, vars, Planning
    <2>2. call' \in [Actors -> Calls]
      BY <1>7, <1>8
    <2>3. QED
      BY <1>1, <1>5, <2>1, <2>2 DEF SessionTypes
  <1>10. call'["server"] = d /\ call'["tui"] = NoCall
    BY <1>4, <1>7
  <1>11. CallsInv'
    BY <1>1, <1>5, <1>6, <1>8, <1>10, SessionAssumption DEF CallsInv, Open, Actors
  <1>12. QED
    BY <1>9, <1>11 DEF SessionInv

\* A step that changes at most one call, and after which the server's call goes
\* with its memory.
LEMMA CallStep ==
    ASSUME SessionInv, NEW a \in Actors, NEW c \in Calls, call' = [call EXCEPT ![a] = c],
           c.tool = "none" => c = NoCall,
           c.stage \in {"omo", "state"} => Shaped(c),
           a = "tui" => c.tool \notin {"migrate", "remove"},
           scene' = scene, SharedInv', omo' \in Omo!OmoFiles,
           config' \in [Layers!LayerFiles -> Layers!LayerContents],
           server' \in Servers, own' \in [Roles -> Omo!Targets],
           loaded' \in {None} \cup Layers!Bindings,
           IF server'.live = None
           THEN call'["server"].tool \in {"none", "migrate"} /\ call'["server"].swap = {}
           ELSE server'.originals \in Originals,
           call'["server"].stage \in {"omo", "state"} => call'["server"].basis = Memory'
    PROVE  SessionInv'
  <1>1. SessionTypes'
    BY SessionFacts DEF SessionTypes
  <1>2. /\ \A b \in Actors : /\ call'[b].tool = "none" => call'[b] = NoCall
                             /\ call'[b].stage \in {"omo", "state"} => Shaped(call'[b])
        /\ call'["tui"].tool \notin {"migrate", "remove"}
    BY DEF SessionInv, SessionTypes, CallsInv, Actors
  <1>3. server' # None
    BY SessionAssumption
  <1>4. CallsInv'
    BY <1>2, <1>3 DEF CallsInv, Open
  <1>5. QED
    BY <1>1, <1>4 DEF SessionInv

\* The config hook.
LEMMA ConfigureTyped == SessionInv /\ Configure => SessionInv'
  <1> SUFFICES ASSUME SessionInv, Configure
               PROVE  SessionInv'
    OBVIOUS
  <1> USE SessionFacts
  <1> DEFINE resolved == Layers!Resolved(config)
             originals == [r \in Layers!Bound(server.agents) |-> resolved[r]]
             live == Overridden(resolved, server.agents)
  <1>1. /\ Open /\ ~Busy("server") /\ server \in Servers
        /\ server' = [server EXCEPT !.originals = originals, !.live = live]
        /\ UNCHANGED <<omo, config, call, own, loaded>> /\ UNCHANGED <<vars, scene>>
    BY DEF Configure, HrUntouched
  <1>2. resolved \in Layers!Bindings
    BY ResolvedTyped
  <1>3. server.agents \in Layers!Bindings
    BY <1>1 DEF Servers
  <1>4. live \in Layers!Bindings
    BY <1>2, <1>3, OverlayTyped DEF Overridden, Layers!Bindings
  <1>5. originals \in Originals
    <2>1. Layers!Bound(server.agents) \in SUBSET Roles
      BY <1>3 DEF Layers!Bound, Layers!Bindings
    <2>2. originals \in [Layers!Bound(server.agents) -> {None} \cup Models]
      BY <1>2, <2>1 DEF Layers!Bindings
    <2>3. QED
      BY <2>1, <2>2 DEF Originals
  <1> HIDE DEF resolved, originals, live
  <1>6. /\ server' \in Servers /\ server'.live = live /\ server'.originals = originals
    BY <1>1, <1>4, <1>5 DEF Servers
  <1>7. live # None
    BY <1>4, SessionAssumption
  <1>8. SharedInv'
    BY <1>1 DEF SharedInv, vars, Planning
  <1>9. call["server"] = NoCall /\ NoCall \in Calls
    BY <1>1, NoCallTyped
  <1>10. call' = [call EXCEPT !["server"] = NoCall]
    BY <1>1, <1>9
  <1>11. call'["server"] = NoCall /\ NoCall.stage = "none" /\ NoCall.tool = "none"
    BY <1>1, <1>9 DEF NoCall
  <1>12. QED
    BY <1>1, <1>5, <1>6, <1>7, <1>8, <1>9, <1>10, <1>11, CallStep DEF Actors

\* opencode ends.
LEMMA CloseTyped == SessionInv /\ Close => SessionInv'
  <1> SUFFICES ASSUME SessionInv, Close
               PROVE  SessionInv'
    OBVIOUS
  <1> USE SessionFacts
  <1>1. /\ server' = None /\ call' = [a \in Actors |-> NoCall]
        /\ UNCHANGED <<omo, config, own, loaded>> /\ UNCHANGED <<vars, scene>>
    BY DEF Close, HrUntouched
  <1>2. SharedInv'
    BY <1>1 DEF SharedInv, vars, Planning
  <1>3. SessionTypes'
    BY <1>1, <1>2, NoCallTyped DEF SessionTypes
  <1>4. CallsInv'
    BY <1>1 DEF CallsInv, Open, Actors
  <1>5. QED
    BY <1>3, <1>4 DEF SessionInv

\* A tool or a dialog begins.
LEMMA BeginTyped ==
    ASSUME SessionInv, NEW a \in Actors, NEW c, Begins(a, c)
    PROVE  SessionInv'
  <1> USE SessionFacts
  <1>1. /\ call' = [call EXCEPT ![a] = c] /\ c \in Calls /\ Open /\ server \in Servers
        /\ c.tool # "migrate" /\ (c.tool = "none" => c = NoCall)
        /\ c.stage \in {"omo", "state"} => Shaped(c)
        /\ a = "server" => /\ server.live # None
                           /\ c.stage \in {"omo", "state"} => c.basis = Memory
        /\ a = "tui" => c.tool # "remove"
        /\ UNCHANGED <<vars, scene, omo, config, server, own, loaded>>
    BY DEF Begins
  <1>2. SharedInv'
    BY <1>1 DEF SharedInv, vars, Planning
  <1>3. Memory' = Memory
    BY <1>1 DEF Memory
  <1>4. IF server.live = None
        THEN call["server"].tool \in {"none", "migrate"} /\ call["server"].swap = {}
        ELSE server.originals \in Originals
    BY <1>1 DEF SessionInv, CallsInv
  <1>5. call["server"].stage \in {"omo", "state"} => call["server"].basis = Memory
    BY DEF SessionInv, CallsInv
  <1>6. /\ a = "server" => call'["server"] = c
        /\ a # "server" => call'["server"] = call["server"]
    BY <1>1
  <1>7. /\ IF server'.live = None
           THEN call'["server"].tool \in {"none", "migrate"} /\ call'["server"].swap = {}
           ELSE server'.originals \in Originals
        /\ call'["server"].stage \in {"omo", "state"} => call'["server"].basis = Memory'
    BY <1>1, <1>3, <1>4, <1>5, <1>6
  <1>8. /\ a = "tui" => c.tool \notin {"migrate", "remove"}
        /\ scene' = scene /\ omo' \in Omo!OmoFiles /\ server' \in Servers
        /\ config' \in [Layers!LayerFiles -> Layers!LayerContents]
        /\ own' \in [Roles -> Omo!Targets] /\ loaded' \in {None} \cup Layers!Bindings
    BY <1>1
  <1>9. QED
    BY <1>1, <1>2, <1>7, <1>8, CallStep

\* The OMO file is written.
LEMMA WriteOmoTyped ==
    ASSUME SessionInv, NEW a \in Actors, WriteOmo(a)
    PROVE  SessionInv'
  <1> USE SessionFacts
  <1> DEFINE c == [call[a] EXCEPT !.stage = "state"]
  <1>1. /\ call[a].stage = "omo" /\ omo' = Omo!Written(omo, call[a].specs)
        /\ Omo!Written(omo, call[a].specs) # None
        /\ call' = [call EXCEPT ![a].stage = "state"] /\ loaded' = None
        /\ UNCHANGED <<config, server, own>> /\ UNCHANGED <<vars, scene>>
    BY DEF WriteOmo, HrUntouched
  <1>2. call[a] \in Calls /\ Shaped(call[a]) /\ server \in Servers /\ call[a].tool # "none"
    BY <1>1 DEF Busy
  <1>3. /\ c \in Calls /\ c.tool = call[a].tool /\ c.swap = call[a].swap
        /\ c.basis = call[a].basis
    BY <1>2 DEF Calls
  <1>4. Shaped(c)
    BY <1>2, SameShape
  <1>5. call' = [call EXCEPT ![a] = c]
    BY <1>1
  <1>6. omo' \in Omo!OmoFiles
    BY <1>1, <1>2, WrittenTyped DEF Calls, Omo!OmoFiles
  <1>7. SharedInv' /\ Memory' = Memory
    BY <1>1 DEF SharedInv, vars, Planning, Memory
  <1> HIDE DEF c
  <1>8. /\ a = "tui" => c.tool \notin {"migrate", "remove"}
        /\ IF server.live = None
           THEN call["server"].tool \in {"none", "migrate"} /\ call["server"].swap = {}
           ELSE server.originals \in Originals
        /\ call["server"].stage \in {"omo", "state"} => call["server"].basis = Memory
    BY <1>2, <1>3, SessionAssumption DEF SessionInv, CallsInv, Open
  <1>9. /\ call'["server"].tool = call["server"].tool
        /\ call'["server"].swap = call["server"].swap
        /\ call'["server"].stage \in {"omo", "state"} => call'["server"].basis = Memory
    BY <1>1, <1>3, <1>5, <1>8
  <1>10. /\ IF server'.live = None
            THEN call'["server"].tool \in {"none", "migrate"} /\ call'["server"].swap = {}
            ELSE server'.originals \in Originals
         /\ call'["server"].stage \in {"omo", "state"} => call'["server"].basis = Memory'
    BY <1>1, <1>7, <1>8, <1>9
  <1>11. /\ scene' = scene /\ server' \in Servers /\ own' \in [Roles -> Omo!Targets]
         /\ config' \in [Layers!LayerFiles -> Layers!LayerContents]
         /\ loaded' \in {None} \cup Layers!Bindings /\ c.tool # "none"
    BY <1>1, <1>2, <1>3
  <1>12. QED
    BY <1>3, <1>4, <1>5, <1>6, <1>7, <1>8, <1>10, <1>11, CallStep

\* It is not.
LEMMA OmoFailsTyped ==
    ASSUME SessionInv, NEW a \in Actors, OmoFails(a)
    PROVE  /\ SessionInv' /\ server' \in Servers /\ server'.live = server.live
           /\ server'.agents = server.agents
  <1> USE SessionFacts
  <1> DEFINE moved == Layers!Bound(call[a].specs)
             taken == [r \in Roles |-> IF r \in moved THEN None ELSE server.omo[r]]
  <1>1. /\ call[a].stage = "omo" /\ call' = [call EXCEPT ![a] = Ended(a)]
        /\ IF call[a].tool = "migrate" THEN server' = [server EXCEPT !.omo = taken]
           ELSE server' = server
        /\ UNCHANGED <<omo, config, own, loaded>> /\ UNCHANGED <<vars, scene>>
    BY DEF OmoFails, HrUntouched
  <1>2. server \in Servers
    BY <1>1
  <1>3. taken \in [Roles -> {None} \cup Omo!Records]
    BY <1>2 DEF Servers
  <1> HIDE DEF moved, taken
  <1>4. /\ server' \in Servers /\ server'.live = server.live
        /\ server'.agents = server.agents /\ server'.originals = server.originals
        /\ call[a].tool # "migrate" => server' = server
    BY <1>1, <1>2, <1>3 DEF Servers
  <1>5. /\ Ended(a) \in Calls /\ Ended(a).stage \in {"none", "choose"}
        /\ Ended(a).tool = "none" => Ended(a) = NoCall
        /\ Ended(a).tool # "none" => a = "tui" /\ Ended(a).tool = "assign"
    BY EndedTyped
  <1>6. /\ call[a].tool = "migrate" => a = "server"
        /\ IF server.live = None
           THEN call["server"].tool \in {"none", "migrate"} /\ call["server"].swap = {}
           ELSE server.originals \in Originals
        /\ call["server"].stage \in {"omo", "state"} => call["server"].basis = Memory
    BY <1>2, SessionAssumption DEF SessionInv, CallsInv, Open, Actors
  <1>7. /\ a = "server" => call'["server"] = NoCall
        /\ a # "server" => call'["server"] = call["server"] /\ server' = server
    BY <1>1, <1>4, <1>5, <1>6
  <1>8. server' = server => Memory' = Memory
    BY DEF Memory
  <1>9. SharedInv'
    BY <1>1 DEF SharedInv, vars, Planning
  <1>10. /\ IF server'.live = None
            THEN call'["server"].tool \in {"none", "migrate"} /\ call'["server"].swap = {}
            ELSE server'.originals \in Originals
         /\ call'["server"].stage \in {"omo", "state"} => call'["server"].basis = Memory'
    BY <1>4, <1>6, <1>7, <1>8
  <1>11. /\ Ended(a).stage \in {"omo", "state"} => Shaped(Ended(a))
         /\ a = "tui" => Ended(a).tool \notin {"migrate", "remove"}
    BY <1>5
  <1>12. SessionInv'
    BY <1>1, <1>4, <1>5, <1>9, <1>10, <1>11, CallStep
  <1>13. QED
    BY <1>4, <1>12

\* The state is saved.
LEMMA SaveStateTyped ==
    ASSUME SessionInv, NEW a \in Actors, SaveState(a)
    PROVE  SessionInv' /\ LoadedState' = call[a].next
  <1> USE SessionFacts
  <1> DEFINE old == call[a]
             c == IF DOMAIN old.files = {} THEN Ended(a) ELSE [old EXCEPT !.stage = "files"]
  <1>1. /\ old.stage = "state" /\ FileWritten("state", old.next)
        /\ server' = IF a = "server" THEN Swapped(old) ELSE server
        /\ call' = [call EXCEPT ![a] = c]
        /\ own' = [r \in Roles |-> IF r \in Forgotten(old) THEN Omo!Target(omo, r) ELSE own[r]]
        /\ loaded' = CASE old.tool = "load" -> BoundBy(old)
                       [] old.tool = "migrate" -> loaded
                       [] OTHER -> None
        /\ UNCHANGED <<omo, config>>
    BY DEF SaveState
  <1>2. /\ old \in Calls /\ server \in Servers /\ old.tool # "none" /\ old.next \in States
    BY <1>1 DEF Busy, Calls
  <1>3. SharedInv' /\ file'.state = old.next /\ scene' = scene
    <2>1. "state" \in Files
      BY DEF Files
    <2>2. SharedInv' /\ file'.state = old.next
      BY <1>1, <1>2, <2>1, WriteShared
    <2>3. QED
      BY <1>1, <2>2 DEF FileWritten
  <1>4. own' \in [Roles -> Omo!Targets]
    BY <1>1, TargetTyped
  <1>5. BoundBy(old) \in Layers!Bindings
    <2>1. /\ old.next.agents \in [Roles -> Models \cup {None}]
          /\ \A r \in Roles : old.next.omo[r] # None => old.next.omo[r].model \in Models
      BY <1>2 DEF States, Layers!Bindings, Omo!Records
    <2>2. QED
      BY <2>1 DEF BoundBy, Layers!Bindings
  <1>6. loaded' \in {None} \cup Layers!Bindings
    BY <1>1, <1>5
  <1>7. /\ Ended(a) \in Calls /\ Ended(a).stage \in {"none", "choose"}
        /\ Ended(a).tool = "none" => Ended(a) = NoCall
        /\ Ended(a).tool # "none" => a = "tui" /\ Ended(a).tool = "assign"
    BY EndedTyped
  <1>8. /\ IF server.live = None
           THEN call["server"].tool \in {"none", "migrate"} /\ call["server"].swap = {}
           ELSE server.originals \in Originals
        /\ call["server"].stage \in {"omo", "state"} => call["server"].basis = Memory
        /\ a = "tui" => old.tool \notin {"migrate", "remove"}
    BY <1>2, SessionAssumption DEF SessionInv, CallsInv, Open, Actors
  <1>9. /\ c \in Calls /\ c.stage \in {"none", "choose", "files"}
        /\ c.tool = "none" => c = NoCall
        /\ a = "tui" => c.tool \notin {"migrate", "remove"}
        /\ a = "server" => c.tool \in {"none", old.tool} /\ c.swap \in {{}, old.swap}
    <2>1. CASE DOMAIN old.files = {}
      BY <1>7, <2>1
    <2>2. CASE DOMAIN old.files # {}
      BY <1>2, <1>8, <2>2 DEF Calls
    <2>3. QED
      BY <2>1, <2>2
  <1> HIDE DEF c
  <1>10. /\ server' \in Servers
         /\ IF server'.live = None
            THEN call'["server"].tool \in {"none", "migrate"} /\ call'["server"].swap = {}
            ELSE server'.originals \in Originals
         /\ call'["server"].stage \in {"omo", "state"} => call'["server"].basis = Memory'
    <2>1. CASE a = "server"
      <3>1. /\ Swapped(old) \in Servers
            /\ server.live = None => Swapped(old).live = None
            /\ server.live # None => /\ Swapped(old).originals \in Originals
                                     /\ Swapped(old).live # None
        BY <1>2, <1>8, <2>1, SwappedTyped
      <3>2. server' = Swapped(old) /\ call'["server"] = c
        BY <1>1, <2>1
      <3>3. QED
        BY <1>8, <1>9, <2>1, <3>1, <3>2
    <2>2. CASE a # "server"
      <3>1. server' = server /\ call'["server"] = call["server"] /\ Memory' = Memory
        BY <1>1, <2>2 DEF Memory
      <3>2. QED
        BY <1>2, <1>8, <3>1
    <2>3. QED
      BY <2>1, <2>2
  <1>11. SessionInv'
    BY <1>1, <1>3, <1>4, <1>6, <1>9, <1>10, CallStep
  <1>12. LoadedState' = old.next
    BY <1>2, <1>3, SessionAssumption DEF LoadedState
  <1>13. QED
    BY <1>11, <1>12

\* It cannot be saved.  If the server goes on, its memory is what it would have saved,
\* and unless that is a new oddity its live models are too.
LEMMA SaveFailsTyped ==
    ASSUME SessionInv, NEW a \in Actors, SaveFails(a)
    PROVE  /\ SessionInv' /\ "unsaved" \in odd' /\ odd \subseteq odd'
           /\ "adrift" \notin odd' => server' \in {None, server, Swapped(call[a])}
  <1> USE SessionFacts
  <1> DEFINE c == call[a]
             kept == [server EXCEPT !.agents = c.next.agents, !.omo = c.next.omo,
                                    !.originals = Snapshot(Given(c))]
  <1>1. /\ c.stage = "state" /\ UNCHANGED <<omo, config, own, loaded>> /\ UNCHANGED <<vars, scene>>
        /\ server' = IF a = "tui" THEN server
                     ELSE CASE c.tool = "migrate" -> None
                            [] c.tool = "load" -> Swapped(c)
                            [] OTHER -> kept
        /\ call' = [b \in Actors |-> IF b = a THEN Ended(a)
                                     ELSE IF server' = None THEN NoCall ELSE call[b]]
        /\ odd' = odd \cup {"unsaved"}
                      \cup {"adrift" : x \in {server'} \ {None, server, Swapped(c)}}
    BY DEF SaveFails, HrUntouched
  <1>2. c \in Calls /\ server \in Servers /\ c.tool # "none" /\ Open
    BY <1>1 DEF Busy
  <1>3. SharedInv'
    BY <1>1 DEF SharedInv, vars, Planning
  <1>4. /\ Ended(a) \in Calls /\ Ended(a).stage \in {"none", "choose"}
        /\ Ended(a).tool = "none" => Ended(a) = NoCall
        /\ Ended(a).tool # "none" => a = "tui" /\ Ended(a).tool = "assign"
    BY EndedTyped
  <1>5. /\ IF server.live = None
           THEN call["server"].tool \in {"none", "migrate"} /\ call["server"].swap = {}
           ELSE server.originals \in Originals
        /\ call["server"].stage \in {"omo", "state"} => call["server"].basis = Memory
        /\ a = "tui" => c.tool \notin {"migrate", "remove"}
    BY <1>2, SessionAssumption DEF SessionInv, CallsInv, Open, Actors
  <1>6. /\ "unsaved" \in odd' /\ odd \subseteq odd'
        /\ "adrift" \notin odd' => server' \in {None, server, Swapped(c)}
    <2> DEFINE s == Swapped(c)
    <2>1. odd' = odd \cup {"unsaved"} \cup {"adrift" : x \in {server'} \ {None, server, s}}
      BY <1>1
    <2> HIDE DEF s, c
    <2>2. "adrift" \notin odd' => server' \in {None, server, s}
      BY <2>1
    <2>3. QED
      BY <2>1, <2>2 DEF s
  <1> HIDE DEF kept
  <1>7. CASE server' = None
    <2>1. call' = [b \in Actors |-> NoCall]
      BY <1>1, <1>2, <1>4, <1>7, SessionAssumption
    <2>2. SessionTypes'
      BY <1>1, <1>3, <1>7, <2>1, NoCallTyped DEF SessionTypes
    <2>3. CallsInv'
      BY <1>7, <2>1 DEF CallsInv, Open, Actors
    <2>4. QED
      BY <1>6, <2>2, <2>3 DEF SessionInv
  <1>8. CASE server' # None
    <2>1. call' = [call EXCEPT ![a] = Ended(a)]
      BY <1>1, <1>8
    <2>2. CASE a = "tui"
      <3>1. server' = server /\ call'["server"] = call["server"] /\ Memory' = Memory
        BY <1>1, <2>1, <2>2 DEF Memory
      <3>2. /\ IF server'.live = None
               THEN call'["server"].tool \in {"none", "migrate"} /\ call'["server"].swap = {}
               ELSE server'.originals \in Originals
            /\ call'["server"].stage \in {"omo", "state"} => call'["server"].basis = Memory'
        BY <1>5, <3>1
      <3>3. SessionInv'
        BY <1>1, <1>2, <1>3, <1>4, <2>1, <3>1, <3>2, CallStep
      <3>4. QED
        BY <1>6, <3>3
    <2>3. CASE a # "tui"
      <3>1. a = "server"
        BY <2>3 DEF Actors
      <3>2. server' = IF c.tool = "load" THEN Swapped(c) ELSE kept
        BY <1>1, <1>8, <2>3
      <3>3. c.tool # "migrate"
        BY <1>1, <1>8, <2>3
      <3>4. server.live # None /\ server.live \in Layers!Bindings /\ server.originals \in Originals
        BY <1>2, <1>5, <3>1, <3>3 DEF Servers
      <3>5. /\ Swapped(c) \in Servers /\ Swapped(c).live # None
            /\ Swapped(c).originals \in Originals
        BY <1>2, <3>4, SwappedTyped
      <3>6. Given(c) \in SUBSET Roles /\ c.next \in States
        BY <1>2 DEF Given, Calls
      <3>7. Snapshot(Given(c)) \in Originals
        BY <1>2, <3>4, <3>6, SnapshotTyped
      <3>8. /\ kept \in Servers /\ kept.live = server.live
            /\ kept.originals = Snapshot(Given(c))
        <4> DEFINE originals == Snapshot(Given(c))
                   next == c.next
        <4>1. kept = [server EXCEPT !.agents = next.agents, !.omo = next.omo,
                                    !.originals = originals]
          BY DEF kept
        <4>2. originals \in Originals /\ next \in States
          BY <3>6, <3>7
        <4> HIDE DEF originals, next
        <4>3. kept \in Servers /\ kept.live = server.live /\ kept.originals = originals
          BY <1>2, <4>1, <4>2 DEF Servers, States
        <4>4. QED
          BY <4>3 DEF originals
      <3>9. server' \in Servers /\ server'.live # None /\ server'.originals \in Originals
        BY <3>2, <3>4, <3>5, <3>7, <3>8
      <3>10. call'["server"] = Ended(a) /\ Ended(a) = NoCall
        BY <1>4, <2>1, <3>1
      <3>11. /\ call'["server"].stage \notin {"omo", "state"}
             /\ a = "tui" => Ended(a).tool \notin {"migrate", "remove"}
             /\ Ended(a).stage \in {"omo", "state"} => Shaped(Ended(a))
        BY <1>4, <3>10
      <3>12. SessionInv'
        BY <1>1, <1>3, <1>4, <2>1, <3>9, <3>11, CallStep
      <3>13. QED
        BY <1>6, <3>12
    <2>4. QED
      BY <2>2, <2>3
  <1>9. QED
    BY <1>7, <1>8

\* A file of a load is written, or left.
LEMMA WriteFileTyped ==
    ASSUME SessionInv, NEW a \in Actors, NEW f, WriteFile(a, f)
    PROVE  /\ SessionInv'
           /\ omo' = omo \/ (omo = Absent /\ omo' = Omo!NewFile)
  <1> USE SessionFacts
  <1> DEFINE old == call[a]
             left == [g \in DOMAIN old.files \ {f} |-> old.files[g]]
             edited == IF f = "omo" THEN None ELSE Layers!Edited(config[f], old.files[f])
             c == IF DOMAIN left = {} THEN Ended(a) ELSE [old EXCEPT !.files = left]
  <1>1. /\ old.stage = "files" /\ f \in DOMAIN old.files
        /\ \/ edited # None /\ config' = [config EXCEPT ![f] = edited] /\ omo' = omo
           \/ /\ omo' = IF omo = Absent THEN Omo!NewFile ELSE omo
              /\ config' = config
           \/ omo' = omo /\ config' = config
        /\ call' = [call EXCEPT ![a] = c]
        /\ UNCHANGED <<server, own, loaded>> /\ UNCHANGED <<vars, scene>>
    BY DEF WriteFile, HrUntouched
  <1>2. /\ old \in Calls /\ server \in Servers /\ old.tool # "none"
    BY <1>1 DEF Busy
  <1>3. PICK fs \in SUBSET (Layers!LayerFiles \cup {"omo"}) : old.files \in [fs -> Layers!Bindings]
    BY <1>2 DEF Calls, FilePlans
  <1>4. left \in FilePlans
    <2>1. left \in [fs \ {f} -> Layers!Bindings]
      BY <1>3
    <2> HIDE DEF left
    <2>2. QED
      BY <1>3, <2>1 DEF FilePlans
  <1>5. config' \in [Layers!LayerFiles -> Layers!LayerContents]
    <2>1. CASE edited # None /\ config' = [config EXCEPT ![f] = edited]
      <3>1. f \in Layers!LayerFiles /\ old.files[f] \in Layers!Bindings
        BY <1>1, <1>3, <2>1
      <3>2. edited \in Layers!LayerContents
        BY <2>1, <3>1, EditedTyped
      <3> HIDE DEF edited
      <3>3. QED
        BY <2>1, <3>1, <3>2
    <2>2. QED
      BY <1>1, <2>1
  <1>6. omo' \in Omo!OmoFiles /\ (omo' = omo \/ (omo = Absent /\ omo' = Omo!NewFile))
    <2>1. Omo!NewFile \in Omo!OmoFiles
      BY DEF Omo!NewFile, Omo!NoEntries, Omo!Parsed, Omo!Sections, Omo!OmoFiles
    <2>2. QED
      BY <1>1, <2>1
  <1>7. SharedInv' /\ Memory' = Memory
    BY <1>1 DEF SharedInv, vars, Planning, Memory
  <1>8. /\ Ended(a) \in Calls /\ Ended(a).stage \in {"none", "choose"}
        /\ Ended(a).tool = "none" => Ended(a) = NoCall
        /\ Ended(a).tool # "none" => a = "tui" /\ Ended(a).tool = "assign"
    BY EndedTyped
  <1>9. /\ IF server.live = None
           THEN call["server"].tool \in {"none", "migrate"} /\ call["server"].swap = {}
           ELSE server.originals \in Originals
        /\ call["server"].stage \in {"omo", "state"} => call["server"].basis = Memory
        /\ a = "tui" => old.tool \notin {"migrate", "remove"}
    BY <1>2, SessionAssumption DEF SessionInv, CallsInv, Open, Actors
  <1>10. /\ c \in Calls /\ c.stage \in {"none", "choose", "files"}
         /\ c.tool = "none" => c = NoCall
         /\ a = "tui" => c.tool \notin {"migrate", "remove"}
         /\ a = "server" => c.tool \in {"none", old.tool} /\ c.swap \in {{}, old.swap}
    <2>1. CASE DOMAIN left = {}
      BY <1>8, <2>1
    <2>2. CASE DOMAIN left # {}
      <3>1. c = [old EXCEPT !.files = left]
        BY <2>2
      <3> HIDE DEF left, c
      <3>2. QED
        BY <1>1, <1>2, <1>4, <1>9, <3>1 DEF Calls
    <2>3. QED
      BY <2>1, <2>2
  <1> HIDE DEF c, left, edited
  <1>11. /\ IF server'.live = None
            THEN call'["server"].tool \in {"none", "migrate"} /\ call'["server"].swap = {}
            ELSE server'.originals \in Originals
         /\ call'["server"].stage \in {"omo", "state"} => call'["server"].basis = Memory'
    <2>1. CASE a = "server"
      BY <1>1, <1>9, <1>10, <2>1
    <2>2. CASE a # "server"
      BY <1>1, <1>7, <1>9, <2>2
    <2>3. QED
      BY <2>1, <2>2
  <1>12. SessionInv'
    BY <1>1, <1>2, <1>5, <1>6, <1>7, <1>10, <1>11, CallStep
  <1>13. QED
    BY <1>6, <1>12

\* A store of presets is written.
LEMMA StocksTyped == SessionInv /\ Stocks => SessionInv'
  <1> SUFFICES ASSUME SessionInv, Stocks
               PROVE  SessionInv'
    OBVIOUS
  <1> USE SessionFacts
  <1>1. /\ SharedInv' /\ UNCHANGED <<scene, omo, config, call, own, loaded>>
        /\ \/ server' = server
           \/ /\ server' \in Servers /\ server'.live = server.live
              /\ server'.originals = server.originals /\ ~Busy("server") /\ Ready
    BY DEF Stocks
  <1>2. SessionTypes'
    BY <1>1 DEF SessionTypes
  <1>3. CASE server' = server
    <2>1. Memory' = Memory
      BY <1>3 DEF Memory
    <2>2. CallsInv'
      BY <1>1, <1>3, <2>1, CallsAlone DEF SessionInv
    <2>3. QED
      BY <1>2, <2>2 DEF SessionInv
  <1>4. CASE server' # server
    <2>1. call["server"] = NoCall /\ server \in Servers /\ NoCall \in Calls
      BY <1>1, <1>4, NoCallTyped DEF Ready
    <2>2. /\ server.live # None /\ server.originals \in Originals
      BY <1>1, <1>4, SessionAssumption DEF SessionInv, CallsInv, Ready, Open
    <2>3. call' = [call EXCEPT !["server"] = NoCall]
      BY <1>1, <2>1
    <2>4. QED
      BY <1>1, <1>4, <2>1, <2>2, <2>3, CallStep
  <1>5. QED
    BY <1>3, <1>4

\* Steps that leave the server and the calls as they are.
LEMMA QuietTyped ==
    ASSUME SessionInv, UNCHANGED <<scene, config, server, call>>, SharedInv',
           omo' \in Omo!OmoFiles, own' \in [Roles -> Omo!Targets],
           loaded' \in {None} \cup Layers!Bindings
    PROVE  SessionInv'
  <1>1. SessionTypes'
    BY SessionFacts DEF SessionTypes
  <1>2. Memory' = Memory
    BY DEF Memory
  <1>3. CallsInv'
    BY <1>2, CallsAlone DEF SessionInv
  <1>4. QED
    BY <1>1, <1>3 DEF SessionInv

\* The user edits the OMO file.
LEMMA EditTyped ==
    ASSUME SessionInv, NEW content \in scene.edits, EditOmo(content)
    PROVE  SessionInv'
  <1> USE SessionFacts
  <1>1. /\ omo' = content /\ loaded' = None
        /\ own' = [r \in Roles |->
                      IF content # Torn /\ (LoadedState.omo[r] = None \/ r \in Deserted(content))
                      THEN Omo!Target(content, r) ELSE own[r]]
        /\ UNCHANGED <<vars, scene>> /\ UNCHANGED <<config, server, call>>
    BY DEF EditOmo, HrUntouched
  <1>2. content \in Omo!OmoFiles
    BY SessionAssumption
  <1>3. own' \in [Roles -> Omo!Targets]
    BY <1>1, <1>2, TargetTyped
  <1>4. SharedInv'
    BY <1>1 DEF SharedInv, vars, Planning
  <1>5. QED
    BY <1>1, <1>2, <1>3, <1>4, QuietTyped

\* hr does something.
LEMMA HrTyped == SessionInv /\ Hr => SessionInv'
  <1> SUFFICES ASSUME SessionInv, Hr
               PROVE  SessionInv'
    OBVIOUS
  <1> USE SessionFacts
  <1>1. /\ Next /\ UNCHANGED <<scene, omo, config, server, call, own>>
        /\ loaded' = IF file'.state = file.state THEN loaded ELSE None
    BY DEF Hr
  <1>2. SharedInv'
    BY <1>1, SharedStep
  <1>3. QED
    BY <1>1, <1>2, QuietTyped

\* The actions of the whole, one by one.
LEMMA Steps ==
    ASSUME SessionInv, SessionNext
    PROVE  \/ Boot \/ Configure \/ Close \/ Hr \/ Stocks
           \/ \E a \in Actors : \E c : Begins(a, c)
           \/ \E a \in Actors : WriteOmo(a) \/ OmoFails(a) \/ SaveState(a) \/ SaveFails(a)
           \/ \E a \in Actors : \E f : WriteFile(a, f)
           \/ \E content \in scene.edits : EditOmo(content)
  <1>1. CASE ServerTool \/ Dialog
    BY <1>1, BeginStep
  <1>2. CASE \E a \in Actors : Work(a)
    BY <1>2 DEF Work
  <1>3. CASE \E a \in scene.cast : Presets(a)
    <2>1. PICK a \in scene.cast : Presets(a)
      BY <1>3
    <2>2. CASE a \in Actors
      BY <2>1, <2>2, StockStep
    <2>3. QED
      BY <2>1, <2>2, SessionFacts, SessionAssumption
  <1>4. QED
    BY <1>1, <1>2, <1>3 DEF SessionNext


\* At the start everything is of its type.
LEMMA SessionStart == SessionInit => SessionInv
  <1> SUFFICES ASSUME SessionInit
               PROVE  SessionInv
    OBVIOUS
  <1>1. /\ Init /\ scene \in Scenes /\ omo = scene.omo /\ config = scene.config
        /\ server = None /\ call = [a \in Actors |-> NoCall]
        /\ own = [r \in Roles |-> Omo!Target(scene.omo, r)] /\ loaded = None
    BY DEF SessionInit, ScenesInit
  <1>2. omo \in Omo!OmoFiles /\ config \in [Layers!LayerFiles -> Layers!LayerContents]
    BY <1>1, SessionAssumption
  <1>3. own \in [Roles -> Omo!Targets]
    BY <1>1, <1>2, TargetTyped
  <1>4. file \in FileValues
    <2>1. Seatings \subseteq States
      BY SessionAssumption
    <2>2. EmptyStore \in Library
      BY DEF EmptyStore, Library
    <2>3. ASSUME NEW n \in Names, NEW s \in Seatings
          PROVE  [EmptyStore EXCEPT ![n] = s] \in Library
      BY DEF EmptyStore, Library
    <2>4. QED
      BY <1>1, <2>1, <2>2, <2>3 DEF Init, FileValues
  <1>5. SharedInv
    BY <1>1, <1>4, IdlePlans DEF Init, SharedInv
  <1>6. SessionTypes
    BY <1>1, <1>2, <1>3, <1>5, NoCallTyped DEF SessionTypes
  <1>7. CallsInv
    BY <1>1 DEF CallsInv, Open, NoCall, Actors
  <1>8. QED
    BY <1>6, <1>7 DEF SessionInv

\* Every state of a session, of hr and FastDraw and the user, is well-formed: what
\* the files hold, what the server has in memory, and what every call is about to write.
THEOREM SessionTyped == SessionSpec => []SessionInv
  <1>1. SessionInv /\ [SessionNext]_allVars => SessionInv'
    <2> SUFFICES ASSUME SessionInv, [SessionNext]_allVars
                 PROVE  SessionInv'
      OBVIOUS
    <2>1. CASE SessionNext
      BY <2>1, Steps, BootTyped, ConfigureTyped, CloseTyped, HrTyped, StocksTyped, BeginTyped,
         WriteOmoTyped, OmoFailsTyped, SaveStateTyped, SaveFailsTyped, WriteFileTyped, EditTyped
    <2>2. CASE UNCHANGED allVars
      <3>1. SharedInv'
        BY <2>2 DEF allVars, SharedInv, vars, Planning, SessionInv, SessionTypes
      <3>2. UNCHANGED <<scene, config, server, call, omo, own, loaded>>
        BY <2>2 DEF allVars, plugin
      <3>3. QED
        BY <3>1, <3>2, QuietTyped, SessionFacts
    <2>3. QED
      BY <2>1, <2>2
  <1>2. QED
    BY <1>1, SessionStart, PTL DEF SessionSpec


(***************************************************************************)
(* OriginalStands.  While no call is between its writes of the OMO file and *)
(* of the state, the state tells of every role where its original is; while *)
(* one is, what it is about to save does.                                  *)
(***************************************************************************)
Clean == odd \cap Exceptions = {}
Pending == {a \in Actors : call[a].stage = "state"}

\* By this record of it, or none, the original of a role is not lost.
Stands(rec, r) ==
    IF rec = None
    THEN Omo!Parseable(omo) => AsLeft(r, Omo!Target(omo, r).model, Omo!Target(omo, r).models)
    ELSE /\ AsLeft(r, rec.original, rec.chain)
         /\ Omo!Parseable(omo) => Omo!EntryOf(omo, r) # None

Held(r) ==
    /\ Pending = {} => Stands(LoadedState.omo[r], r)
    /\ \A a \in Actors : Pending = {a} /\ call[a].basis = LoadedState
                         => Stands(call[a].next.omo[r], r)

\* A category the user has left with a chain had its head for a model.
OwnShape ==
    \A r \in Roles : r \in Categories /\ own[r].models \notin {None, <<>>}
                     => own[r].model = own[r].models[1]

OriginalInv == OwnShape /\ (Clean => \A r \in Roles : Complete(r) => Held(r))

\* Steps that touch neither the state, nor what a call is about to save, nor an
\* entry of the OMO file.
LEMMA Unstirred ==
    ASSUME OriginalInv, Clean' => Clean, own' = own, file'.state = file.state,
           Pending' = Pending, \A a \in Pending : call'[a] = call[a],
           omo' = omo \/ (omo = Absent /\ omo' = Omo!NewFile)
    PROVE  OriginalInv'
  <1>1. LoadedState' = LoadedState
    BY DEF LoadedState
  <1>2. ASSUME NEW r \in Roles
        PROVE  /\ Omo!Target(omo', r) = Omo!Target(omo, r)
               /\ Omo!EntryOf(omo', r) = Omo!EntryOf(omo, r)
               /\ Omo!Parseable(omo') = Omo!Parseable(omo)
    <2>1. CASE omo' = omo
      BY <2>1
    <2>2. CASE omo = Absent /\ omo' = Omo!NewFile
      <3>1. Omo!EntryOf(omo', r) = Omo!EntryOf(omo, r)
        BY <2>2, NewFileEmpty
      <3>2. Omo!Target(omo', r) = Omo!Target(omo, r)
        BY <3>1, SameTarget
      <3>3. Omo!Parseable(omo') /\ Omo!Parseable(omo)
        BY <2>2, NewFileEmpty
      <3>4. QED
        BY <3>1, <3>2, <3>3 DEF Omo!Parseable
    <2>3. QED
      BY <2>1, <2>2
  <1>3. ASSUME NEW r \in Roles, NEW rec, Stands(rec, r)
        PROVE  IF rec = None
               THEN Omo!Parseable(omo')
                    => AsLeft(r, Omo!Target(omo', r).model, Omo!Target(omo', r).models)
               ELSE /\ AsLeft(r, rec.original, rec.chain)
                    /\ Omo!Parseable(omo') => Omo!EntryOf(omo', r) # None
    BY <1>2, <1>3 DEF Stands
  <1>4. OwnShape'
    BY DEF OriginalInv, OwnShape
  <1>5. ASSUME Clean', NEW r \in Roles, Complete(r)'
        PROVE  Held(r)'
    <2>1. Held(r)
      BY <1>5 DEF OriginalInv, Complete
    <2>2. Pending' = {} => Stands(LoadedState.omo[r], r)
      BY <2>1 DEF Held
    <2>3. ASSUME NEW a \in Actors, Pending' = {a}, call'[a].basis = LoadedState'
          PROVE  /\ Stands(call[a].next.omo[r], r) /\ call'[a] = call[a]
      BY <1>1, <2>1, <2>3 DEF Held
    <2>4. Pending' = {} => Stands(LoadedState.omo[r], r)'
      BY <1>1, <1>3, <2>2 DEF Stands, AsLeft
    <2>5. ASSUME NEW a \in Actors, Pending' = {a}, call'[a].basis = LoadedState'
          PROVE  Stands(call[a].next.omo[r], r)'
      BY <1>3, <2>3, <2>5 DEF Stands, AsLeft
    <2>6. QED
      BY <2>4, <2>5 DEF Held
  <1>6. QED
    BY <1>4, <1>5 DEF OriginalInv


\* A call that goes to the state at once saves a state in which nothing is lost.
LEMMA BeginStands ==
    ASSUME SessionInv, OriginalInv, NEW a \in Actors, NEW c, Begins(a, c)
    PROVE  OriginalInv'
  <1> USE SessionFacts
  <1>1. /\ call' = [call EXCEPT ![a] = c] /\ call[a].stage # "state"
        /\ c.stage \in {"omo", "state"} => Shaped(c)
        /\ c.stage = "state" => c.specs = NoRecords
        /\ UNCHANGED <<vars, scene, omo, config, server, own, loaded, odd>>
    BY DEF Begins
  <1>2. /\ file' = file /\ omo' = omo /\ own' = own /\ odd' = odd
    BY <1>1 DEF vars
  <1>3. CASE c.stage # "state"
    <2>1. Pending' = Pending /\ \A b \in Pending : call'[b] = call[b]
      BY <1>1, <1>3 DEF Pending
    <2>2. Clean' => Clean
      BY <1>2 DEF Clean
    <2>3. QED
      BY <1>2, <2>1, <2>2, Unstirred
  <1>4. CASE c.stage = "state"
    <2>1. OwnShape'
      BY <1>2 DEF OriginalInv, OwnShape
    <2>2. Pending' = Pending \cup {a} /\ a \notin Pending
      BY <1>1, <1>4 DEF Pending
    <2>3. LoadedState' = LoadedState
      BY <1>2 DEF LoadedState
    <2>4. ASSUME Clean', NEW r \in Roles, Complete(r)'
          PROVE  Held(r)'
      <3>1. Held(r) /\ own[r].model # None
        BY <1>2, <2>4 DEF OriginalInv, Complete, Clean
      <3>2. SUFFICES ASSUME NEW b \in Actors, Pending' = {b}, call'[b].basis = LoadedState
                     PROVE  Stands(call'[b].next.omo[r], r)
        BY <1>2, <2>2, <2>3 DEF Held, Stands, AsLeft
      <3>3. b = a /\ Pending = {} /\ call'[b] = c /\ c.basis = LoadedState
        BY <1>1, <2>2, <3>2
      <3>4. Stands(c.basis.omo[r], r)
        BY <3>1, <3>3 DEF Held
      <3>5. c.specs[r] = None
        BY <1>1, <1>4 DEF NoRecords
      <3>6. ~Binds(c, r)
        BY <3>5, SpecTyped DEF Binds
      <3>7. ~Reverts(c, r)
        <4>1. c.basis.omo[r] \in {None} \cup Omo!Records
          BY <3>3 DEF States
        <4>2. c.basis.omo[r] # None => c.basis.omo[r].original # None
          BY <3>1, <3>4 DEF Stands, AsLeft
        <4>3. QED
          BY <3>5, <4>1, <4>2, RevertTyped DEF Reverts
      <3>8. Keeps(c, r)
        BY <1>1, <1>4, <3>6, <3>7 DEF Shaped
      <3>9. QED
        BY <3>3, <3>4, <3>8 DEF Keeps
    <2>5. QED
      BY <2>1, <2>4 DEF OriginalInv
  <1>5. QED
    BY <1>3, <1>4

\* A record that is made of a role, from what the file holds or from an earlier one.
LEMMA BindStands ==
    ASSUME NEW prev, NEW m, NEW t, NEW r \in Roles, Complete(r), Stands(prev, r),
           Omo!Parseable(omo), prev = None => t = Omo!Target(omo, r)
    PROVE  LET rec == Omo!Record(prev, m, t)
           IN AsLeft(r, rec.original, rec.chain)
  <1>1. /\ Omo!Record(prev, m, t).original
               = IF prev # None /\ prev.original # None THEN prev.original ELSE t.model
        /\ Omo!Record(prev, m, t).chain
               = IF prev # None /\ prev.chain # None THEN prev.chain ELSE t.models
    BY DEF Omo!Record
  <1>2. prev = None => AsLeft(r, t.model, t.models)
    BY DEF Stands
  <1>3. prev # None => AsLeft(r, prev.original, prev.chain)
    BY DEF Stands
  <1>4. QED
    BY <1>1, <1>2, <1>3 DEF AsLeft, Complete

\* Once the OMO file is written, what is about to be saved tells where the originals are.
LEMMA WriteOmoStands ==
    ASSUME SessionInv, OriginalInv, NEW a \in Actors, WriteOmo(a)
    PROVE  OriginalInv'
  <1> USE SessionFacts
  <1> DEFINE c == call[a]
             written == Omo!Written(omo, c.specs)
  <1>1. /\ c.stage = "omo" /\ omo' = written /\ written # None
        /\ call' = [call EXCEPT ![a].stage = "state"]
        /\ odd' = IF Blind(a) \/ OutOfDate(c) THEN odd \cup {"blind"} ELSE odd
        /\ own' = own /\ file' = file
    BY DEF WriteOmo, HrUntouched, vars
  <1>2. c \in Calls /\ Shaped(c) /\ c.specs \in [Roles -> {None} \cup Omo!Specs]
    BY <1>1 DEF Calls
  <1>3. OwnShape' /\ LoadedState' = LoadedState
    BY <1>1 DEF OriginalInv, OwnShape, LoadedState
  <1>4. call'[a].basis = c.basis /\ call'[a].next = c.next
    BY <1>1, <1>2 DEF Calls
  <1>5. Pending' = Pending \cup {a}
    BY <1>1, <1>2 DEF Pending, Calls
  <1>6. /\ Omo!Parseable(omo) /\ Omo!Parseable(written) /\ written \in Omo!OmoFiles
        /\ \A r \in Roles : c.specs[r] = None => Omo!EntryOf(written, r) = Omo!EntryOf(omo, r)
    BY <1>1, <1>2, WrittenTyped DEF Omo!OmoFiles
  <1>7. ASSUME Clean', NEW r \in Roles, Complete(r)'
        PROVE  Held(r)'
    <2>1. ~Blind(a) /\ ~OutOfDate(c) /\ Clean
      BY <1>1, <1>7 DEF Clean, Exceptions
    <2>2. c.basis = LoadedState /\ Pending = {}
      BY <1>1, <2>1 DEF Blind, Pending
    <2>3. Held(r) /\ Complete(r)
      BY <1>1, <1>7, <2>1 DEF OriginalInv, Complete
    <2> DEFINE prev == c.basis.omo[r]
               now_ == c.next.omo[r]
               spec == c.specs[r]
    <2>4. Stands(prev, r)
      BY <2>2, <2>3 DEF Held
    <2>5. prev \in {None} \cup Omo!Records /\ spec \in {None} \cup Omo!Specs
      BY <1>2, <2>2 DEF States
    <2>6. spec # None => r \in Layers!Bound(c.specs)
      BY <1>2 DEF Layers!Bound
    <2>7. IF now_ = None
          THEN AsLeft(r, Omo!Target(written, r).model, Omo!Target(written, r).models)
          ELSE /\ AsLeft(r, now_.original, now_.chain)
               /\ Omo!EntryOf(written, r) # None
      <3>1. CASE Keeps(c, r)
        <4>1. now_ = prev /\ Omo!EntryOf(written, r) = Omo!EntryOf(omo, r)
          BY <1>6, <3>1 DEF Keeps
        <4>2. Omo!Target(written, r) = Omo!Target(omo, r)
          BY <4>1, SameTarget
        <4>3. QED
          BY <1>6, <2>4, <4>1, <4>2 DEF Stands
      <3>2. CASE Binds(c, r)
        <4>1. PICK m \in Models : /\ spec = Omo!Spec(m)
                                  /\ now_ = Omo!Record(prev, m, Omo!Target(c.seen, r))
          BY <3>2 DEF Binds
        <4>2. spec # None
          BY <4>1, SpecTyped
        <4>3. Omo!Target(c.seen, r) \in Omo!Targets
          BY <1>2, TargetTyped DEF Calls
        <4>4. now_ # None
          BY <2>5, <4>1, <4>3, RecordTyped
        <4>5. Omo!EntryOf(written, r) # None
          BY <1>1, <1>2, <4>2, WrittenTarget
        <4>6. prev = None => Omo!Target(c.seen, r) = Omo!Target(omo, r)
          BY <2>1, <2>6, <4>2 DEF OutOfDate
        <4>7. AsLeft(r, now_.original, now_.chain)
          BY <1>6, <2>3, <2>4, <4>1, <4>6, BindStands
        <4>8. QED
          BY <4>4, <4>5, <4>7
      <3>3. CASE Reverts(c, r)
        <4>1. prev # None /\ now_ = None /\ spec = Omo!RevertSpec(Omo!TargetKind(c.seen, r), prev)
          BY <3>3 DEF Reverts
        <4>2. AsLeft(r, prev.original, prev.chain) /\ Omo!EntryOf(omo, r) # None
          BY <1>6, <2>4, <4>1 DEF Stands
        <4>3. prev.original # None
          BY <2>3, <4>2 DEF AsLeft, Complete
        <4>4. spec # None
          BY <2>5, <4>1, <4>3, RevertTyped
        <4>5. Omo!TargetKind(c.seen, r) = Omo!TargetKind(omo, r)
          BY <2>1, <2>6, <4>1, <4>4 DEF OutOfDate
        <4>6. Omo!TargetKind(omo, r) = Omo!Kind(r)
          BY <1>6, <4>2 DEF Omo!TargetKind, Omo!IsOmoName
        <4>7. CASE r \in Categories
          <5>1. prev.chain = own[r].models /\ prev.chain \notin {None, <<>>}
                /\ prev.original = own[r].model
            BY <2>3, <4>2, <4>7 DEF AsLeft, Complete
          <5>2. spec = [model |-> prev.original, models |-> prev.chain]
            BY <4>1, <4>3, <4>5, <4>6, <4>7, <5>1 DEF Omo!RevertSpec, Omo!Kind
          <5>3. spec.models = prev.chain
            BY <5>2
          <5>4. /\ Omo!Target(written, r).models = prev.chain
                /\ Omo!Target(written, r).model = prev.chain[1]
            BY <1>1, <1>2, <4>4, <4>7, <5>1, <5>3, WrittenTarget
          <5>5. own[r].model = own[r].models[1]
            BY <4>7, <5>1 DEF OriginalInv, OwnShape
          <5>6. QED
            BY <4>1, <5>1, <5>4, <5>5 DEF AsLeft
        <4>8. CASE r \notin Categories
          <5>1. spec = Omo!Spec(prev.original)
            BY <4>1, <4>3, <4>5, <4>6, <4>8 DEF Omo!RevertSpec, Omo!Kind
          <5>2. spec.model = prev.original
            BY <5>1 DEF Omo!Spec
          <5>3. Omo!Target(written, r).model = prev.original
            BY <1>1, <1>2, <4>4, <4>8, <5>2, WrittenTarget
          <5>4. QED
            BY <4>1, <4>2, <4>8, <5>3 DEF AsLeft
        <4>9. QED
          BY <4>7, <4>8
      <3>4. QED
        BY <1>2, <3>1, <3>2, <3>3 DEF Shaped
    <2>8. ASSUME NEW b \in Actors, Pending' = {b}
          PROVE  b = a
      BY <1>5, <2>8
    <2>9. Pending' # {}
      BY <1>5
    <2> HIDE DEF prev, spec
    <2>10. Stands(call[a].next.omo[r], r)'
      BY <1>1, <1>4, <2>7 DEF Stands, AsLeft
    <2>11. QED
      BY <2>8, <2>9, <2>10 DEF Held
  <1>8. QED
    BY <1>3, <1>7 DEF OriginalInv


\* Saving the state makes it true, and settles what is given up.
LEMMA SaveStateStands ==
    ASSUME SessionInv, OriginalInv, NEW a \in Actors, SaveState(a)
    PROVE  OriginalInv'
  <1> USE SessionFacts
  <1> DEFINE c == call[a]
  <1>1. /\ c.stage = "state" /\ omo' = omo
        /\ own' = [r \in Roles |-> IF r \in Forgotten(c) THEN Omo!Target(omo, r) ELSE own[r]]
        /\ odd' = IF Blind(a) THEN odd \cup {"blind"} ELSE odd
    BY DEF SaveState
  <1>2. LoadedState' = c.next
    BY SaveStateTyped
  <1>3. OwnShape'
    BY <1>1, TargetTyped DEF OriginalInv, OwnShape
  <1>4. ASSUME NEW b \in Actors, b # a
        PROVE  call'[b] = call[b]
    BY <1>4 DEF SaveState
  <1>5. call'[a].stage # "state"
    <2>1. call[a] \in Calls /\ Ended(a).stage # "state"
      BY EndedTyped
    <2>2. call'[a] = IF DOMAIN c.files = {} THEN Ended(a) ELSE [c EXCEPT !.stage = "files"]
      BY DEF SaveState
    <2>3. QED
      BY <2>1, <2>2 DEF Calls
  <1>6. ASSUME Clean', NEW r \in Roles, Complete(r)'
        PROVE  Held(r)'
    <2>1. ~Blind(a) /\ Clean
      BY <1>1, <1>6 DEF Clean, Exceptions
    <2>2. c.basis = LoadedState /\ Pending = {a}
      BY <1>1, <2>1 DEF Blind, Pending
    <2>3. Pending' = {}
      BY <1>4, <1>5, <2>2 DEF Pending
    <2>4. CASE r \in Forgotten(c)
      <3>1. c.next.omo[r] = None /\ own'[r] = Omo!Target(omo, r)
        BY <1>1, <2>4 DEF Forgotten
      <3>2. Stands(LoadedState.omo[r], r)'
        BY <1>1, <1>2, <3>1 DEF Stands, AsLeft
      <3>3. QED
        BY <2>3, <3>2 DEF Held
    <2>5. CASE r \notin Forgotten(c)
      <3>1. own'[r] = own[r]
        BY <1>1, <2>5
      <3>2. Held(r)
        BY <1>6, <2>1, <3>1 DEF OriginalInv, Complete
      <3>3. Stands(c.next.omo[r], r)
        BY <2>2, <3>2 DEF Held
      <3>4. Stands(LoadedState.omo[r], r)'
        BY <1>1, <1>2, <3>1, <3>3 DEF Stands, AsLeft
      <3>5. QED
        BY <2>3, <3>4 DEF Held
    <2>6. QED
      BY <2>4, <2>5
  <1>7. QED
    BY <1>3, <1>6 DEF OriginalInv

\* What the user leaves in the file is what there is to keep, unless FastDraw binds it.
LEMMA EditStands ==
    ASSUME SessionInv, OriginalInv, NEW content \in scene.edits, EditOmo(content)
    PROVE  OriginalInv'
  <1> USE SessionFacts
  <1>1. /\ omo' = content /\ file' = file /\ call' = call
        /\ own' = [r \in Roles |->
                      IF content # Torn /\ (LoadedState.omo[r] = None \/ r \in Deserted(content))
                      THEN Omo!Target(content, r) ELSE own[r]]
        /\ odd' = odd \cup {"edited" : a \in {b \in Actors : Busy(b)}}
                      \cup {"deserted" : r \in Deserted(content)}
    BY DEF EditOmo, HrUntouched, vars
  <1>2. content \in Omo!OmoFiles
    BY SessionAssumption
  <1>3. OwnShape'
    BY <1>1, <1>2, TargetTyped DEF OriginalInv, OwnShape
  <1>4. LoadedState' = LoadedState
    BY <1>1 DEF LoadedState
  <1>5. ASSUME Clean', NEW r \in Roles, Complete(r)'
        PROVE  Held(r)'
    <2>1. Clean /\ \A b \in Actors : ~Busy(b)
      BY <1>1, <1>5 DEF Clean, Exceptions
    <2>2. Pending = {} /\ Pending' = {}
      BY <1>1, <2>1 DEF Pending
    <2> DEFINE rec == LoadedState.omo[r]
    <2>3. IF rec = None
          THEN Omo!Parseable(content) => own'[r] = Omo!Target(content, r)
          ELSE /\ own'[r] = own[r]
               /\ Omo!Parseable(content) => Omo!EntryOf(content, r) # None
      <3>1. CASE content = Torn
        BY <1>1, <3>1 DEF Omo!Parseable
      <3>2. CASE content # Torn /\ rec = None
        BY <1>1, <3>2
      <3>3. CASE content # Torn /\ rec # None /\ r \in Deserted(content)
        <4>1. own'[r] = Omo!Target(content, r) /\ Omo!EntryOf(content, r) = None
          BY <1>1, <3>3 DEF Deserted
        <4>2. own'[r].model = None
          BY <4>1 DEF Omo!Target
        <4>3. QED
          BY <1>5, <4>2 DEF Complete
      <3>4. CASE content # Torn /\ rec # None /\ r \notin Deserted(content)
        BY <1>1, <3>4 DEF Deserted
      <3>5. QED
        BY <3>1, <3>2, <3>3, <3>4
    <2>4. IF rec = None
          THEN Omo!Parseable(content)
               => /\ Omo!Target(content, r).model = own'[r].model
                  /\ r \in Categories => Omo!Target(content, r).models = own'[r].models
          ELSE /\ rec.original = own'[r].model
               /\ r \in Categories => rec.chain = own'[r].models
               /\ Omo!Parseable(content) => Omo!EntryOf(content, r) # None
      <3>1. CASE rec = None
        BY <2>3, <3>1
      <3>2. CASE rec # None
        <4>1. own'[r] = own[r]
          BY <2>3, <3>2
        <4>2. Stands(rec, r)
          BY <1>5, <2>1, <2>2, <4>1 DEF OriginalInv, Complete, Held
        <4>3. QED
          BY <2>3, <3>2, <4>1, <4>2 DEF Stands, AsLeft
      <3>3. QED
        BY <3>1, <3>2
    <2>5. Stands(LoadedState.omo[r], r)'
      BY <1>1, <1>4, <2>4 DEF Stands, AsLeft
    <2>6. QED
      BY <2>2, <2>5 DEF Held
  <1>6. QED
    BY <1>3, <1>5 DEF OriginalInv

\* The steps that neither save nor are about to.
LEMMA OtherStands ==
    ASSUME SessionInv, OriginalInv,
           \/ Boot \/ Configure \/ Close \/ Hr \/ Stocks \/ UNCHANGED allVars
           \/ \E a \in Actors : OmoFails(a) \/ SaveFails(a) \/ \E f : WriteFile(a, f)
    PROVE  OriginalInv'
  <1> USE SessionFacts
  \* Steps of which one call comes, goes, or goes on, before and after its writes.
  <1>1. ASSUME NEW a \in Actors, NEW c, call' = [call EXCEPT ![a] = c], c.stage # "state",
               call[a].stage # "state", own' = own, file' = file,
               omo' = omo \/ (omo = Absent /\ omo' = Omo!NewFile), Clean' => Clean
        PROVE  OriginalInv'
    <2>1. Pending' = Pending /\ \A b \in Pending : call'[b] = call[b]
      BY <1>1 DEF Pending
    <2>2. QED
      BY <1>1, <2>1, Unstirred
  \* Steps that except.
  <1>2. ASSUME ~Clean', own' = own
        PROVE  OriginalInv'
    BY <1>2 DEF OriginalInv, OwnShape
  <1>3. CASE Boot
    <2>1. /\ server = None /\ odd' = odd \ {"adrift"} /\ own' = own /\ file' = file /\ omo' = omo
          /\ \E c : c.stage # "state" /\ call' = [call EXCEPT !["server"] = c]
      <3> DEFINE c == [NoCall EXCEPT !.tool = "migrate", !.stage = "omo", !.basis = LoadedState,
                           !.seen = omo, !.next = Migrated(LoadedState),
                           !.specs = [r \in Roles |-> IF r \in Migrating(LoadedState)
                                                      THEN Omo!Spec(LoadedState.agents[r])
                                                      ELSE None]]
      <3>1. c.stage # "state" /\ NoCall.stage # "state"
        BY DEF NoCall
      <3>2. /\ server = None /\ odd' = odd \ {"adrift"} /\ own' = own /\ file' = file
            /\ omo' = omo
            /\ \/ call' = [call EXCEPT !["server"] = NoCall]
               \/ call' = [call EXCEPT !["server"] = c]
        BY <1>3 DEF Boot, HrUntouched, Open, vars
      <3> HIDE DEF c
      <3>3. QED
        BY <3>1, <3>2
    <2>2. call["server"] = NoCall
      BY <2>1 DEF Open
    <2>3. Clean' => Clean
      BY <2>1 DEF Clean, Exceptions
    <2>4. QED
      BY <1>1, <2>1, <2>2, <2>3
  <1>4. CASE Configure \/ UNCHANGED allVars
    <2>1. call' = call /\ own' = own /\ file' = file /\ omo' = omo /\ odd' = odd
      BY <1>4 DEF Configure, HrUntouched, allVars, plugin, vars
    <2>2. Pending' = Pending /\ (Clean' => Clean)
      BY <2>1 DEF Pending, Clean
    <2>3. QED
      BY <2>1, <2>2, Unstirred
  <1>5. CASE Close
    <2>1. call' = [a \in Actors |-> NoCall] /\ own' = own /\ file' = file /\ omo' = omo
      BY <1>5 DEF Close, HrUntouched, vars
    <2>2. odd' = odd \/ odd' = odd \cup {"killed" : a \in {b \in Actors : call[b].stage = "state"}}
      BY <1>5 DEF Close
    <2>3. CASE Pending = {}
      <3>1. Pending' = {}
        BY <2>1 DEF Pending
      <3>2. Clean' => Clean
        BY <2>2 DEF Clean
      <3>3. QED
        BY <2>1, <2>3, <3>1, <3>2, Unstirred
    <2>4. CASE Pending # {}
      <3>1. PICK a \in Actors : call[a].stage = "state"
        BY <2>4 DEF Pending
      <3>2. odd' = odd \cup {"killed" : b \in {d \in Actors : call[d].stage = "state"}}
        BY <1>5, <3>1 DEF Close
      <3>3. ~Clean'
        BY <3>1, <3>2 DEF Clean, Exceptions
      <3>4. QED
        BY <1>2, <2>1, <3>3
    <2>5. QED
      BY <2>3, <2>4
  <1>6. CASE Hr
    <2>1. /\ call' = call /\ own' = own /\ omo' = omo
          /\ odd' = IF file'.state = file.state THEN odd ELSE odd \cup {"blind"}
      BY <1>6 DEF Hr
    <2>2. Pending' = Pending
      BY <2>1 DEF Pending
    <2>3. CASE file'.state = file.state
      <3>1. Clean' => Clean
        BY <2>1, <2>3 DEF Clean
      <3>2. QED
        BY <2>1, <2>2, <2>3, <3>1, Unstirred
    <2>4. CASE file'.state # file.state
      <3>1. ~Clean'
        BY <2>1, <2>4 DEF Clean, Exceptions
      <3>2. QED
        BY <1>2, <2>1, <3>1
    <2>5. QED
      BY <2>3, <2>4
  <1>7. CASE Stocks
    <2>1. /\ call' = call /\ own' = own /\ omo' = omo /\ file'.state = file.state
          /\ odd \subseteq odd'
      BY <1>7 DEF Stocks
    <2>2. Pending' = Pending /\ (Clean' => Clean)
      BY <2>1 DEF Pending, Clean
    <2>3. QED
      BY <2>1, <2>2, Unstirred
  <1>8. CASE \E a \in Actors : OmoFails(a)
    <2>1. PICK a \in Actors : OmoFails(a)
      BY <1>8
    <2>2. /\ call' = [call EXCEPT ![a] = Ended(a)] /\ call[a].stage # "state"
          /\ own' = own /\ file' = file /\ omo' = omo /\ odd \subseteq odd'
      BY <2>1 DEF OmoFails, HrUntouched, vars
    <2>3. Ended(a).stage # "state" /\ (Clean' => Clean)
      BY <2>2, EndedTyped DEF Clean
    <2>4. QED
      BY <1>1, <2>2, <2>3
  <1>9. CASE \E a \in Actors : SaveFails(a)
    <2>1. PICK a \in Actors : SaveFails(a)
      BY <1>9
    <2>2. own' = own
      BY <2>1 DEF SaveFails
    <2>3. ~Clean'
      BY <2>1, SaveFailsTyped DEF Clean, Exceptions
    <2>4. QED
      BY <1>2, <2>2, <2>3
  <1>10. CASE \E a \in Actors : \E f : WriteFile(a, f)
    <2>1. PICK a \in Actors : \E f : WriteFile(a, f)
      BY <1>10
    <2>2. PICK f : WriteFile(a, f)
      BY <2>1
    <2> DEFINE left == [g \in DOMAIN call[a].files \ {f} |-> call[a].files[g]]
               c == IF DOMAIN left = {} THEN Ended(a) ELSE [call[a] EXCEPT !.files = left]
    <2>3. /\ call' = [call EXCEPT ![a] = c] /\ call[a].stage = "files"
          /\ own' = own /\ file' = file /\ odd' = odd
      BY <2>2 DEF WriteFile, HrUntouched, vars
    <2>4. omo' = omo \/ (omo = Absent /\ omo' = Omo!NewFile)
      BY <2>2, WriteFileTyped
    <2>5. c.stage # "state"
      <3>1. Ended(a).stage # "state" /\ call[a] \in Calls
        BY EndedTyped
      <3> HIDE DEF left
      <3>2. [call[a] EXCEPT !.files = left].stage = call[a].stage
        BY <3>1 DEF Calls
      <3>3. QED
        BY <2>3, <3>1, <3>2
    <2> HIDE DEF c
    <2>6. QED
      BY <1>1, <2>3, <2>4, <2>5 DEF Clean
  <1>11. QED
    BY <1>3, <1>4, <1>5, <1>6, <1>7, <1>8, <1>9, <1>10


\* At the start FastDraw has bound nothing.
LEMMA OriginalsAtStart == SessionInit => OriginalInv
  <1> SUFFICES ASSUME SessionInit
               PROVE  OriginalInv
    OBVIOUS
  <1>1. SessionInv
    BY SessionStart
  <1>2. /\ own = [r \in Roles |-> Omo!Target(omo, r)] /\ omo \in Omo!OmoFiles
        /\ call = [a \in Actors |-> NoCall] /\ file.state \in Seatings \cup {Absent}
    BY <1>1, SessionFacts DEF SessionInit, ScenesInit, Init
  <1>3. OwnShape
    BY <1>2, TargetTyped DEF OwnShape
  <1>4. Pending = {}
    BY <1>2 DEF Pending, NoCall
  <1>5. \A r \in Roles : LoadedState.omo[r] = None
    BY <1>2, SessionAssumption DEF LoadedState, EmptyState, NoRecords
  <1>6. ASSUME NEW r \in Roles
        PROVE  Held(r)
    BY <1>2, <1>4, <1>5 DEF Held, Stands, AsLeft
  <1>7. QED
    BY <1>3, <1>6 DEF OriginalInv

\* What a role was bound to before FastDraw touched it is never lost, in any
\* interleaving of the tool, the dialogs and the user's editor, and of failing
\* writes: OriginalStands, but for the steps Exceptions names.
THEOREM OriginalsAreKept == SessionSpec => []OriginalStands
  <1>1. SessionInv /\ OriginalInv /\ [SessionNext]_allVars => OriginalInv'
    <2> SUFFICES ASSUME SessionInv, OriginalInv, [SessionNext]_allVars
                 PROVE  OriginalInv'
      OBVIOUS
    <2>1. CASE SessionNext
      BY <2>1, Steps, OtherStands, BeginStands, WriteOmoStands, SaveStateStands, EditStands
    <2>2. CASE UNCHANGED allVars
      BY <2>2, OtherStands
    <2>3. QED
      BY <2>1, <2>2
  <1>2. OriginalInv => OriginalStands
    <2> SUFFICES ASSUME OriginalInv, Settled, NEW r \in Roles, Complete(r)
                 PROVE  LET rec == LoadedState.omo[r]
                            target == Omo!Target(omo, r)
                        IN IF rec = None THEN AsLeft(r, target.model, target.models)
                           ELSE AsLeft(r, rec.original, rec.chain)
      BY DEF OriginalStands
    <2>1. Pending = {} /\ Clean /\ Omo!Parseable(omo)
      BY DEF Settled, Pending, Clean
    <2>2. Stands(LoadedState.omo[r], r)
      BY <2>1 DEF OriginalInv, Held
    <2>3. QED
      BY <2>1, <2>2 DEF Stands
  <1>3. QED
    BY <1>1, <1>2, OriginalsAtStart, SessionTyped, PTL DEF SessionSpec


(***************************************************************************)
(* LoadSurvives                                                            *)
(***************************************************************************)

\* In a session that has not drifted, the live configuration has what FastDraw binds.
LiveInv ==
    Ready /\ "adrift" \notin odd
    => \A r \in Roles : server.agents[r] # None => server.live[r] = server.agents[r]

\* The live configuration follows the memory of the server.
LEMMA LiveStep == SessionInv /\ LiveInv /\ [SessionNext]_allVars => LiveInv'
  <1> SUFFICES ASSUME SessionInv, LiveInv, [SessionNext]_allVars
               PROVE  LiveInv'
    OBVIOUS
  <1> USE SessionFacts
  <1>1. ASSUME server' = None \/ server'.live = None
        PROVE  LiveInv'
    BY <1>1 DEF LiveInv, Ready, Open
  <1>2. ASSUME server' \in {None} \cup Servers,
               server # None /\ server' # None
               => server'.live = server.live /\ server'.agents = server.agents,
               server = None => server' = None, odd \subseteq odd'
        PROVE  LiveInv'
    BY <1>2 DEF LiveInv, Ready, Open
  <1>3. ASSUME NEW a \in Actors, call[a].stage = "state", a = "server",
               server' = Swapped(call[a]), odd \subseteq odd'
        PROVE  LiveInv'
    <2> DEFINE c == call[a]
    <2>1. c \in Calls /\ c.basis = Memory /\ Shaped(c) /\ server \in Servers
      BY <1>3 DEF SessionInv, CallsInv
    <2>2. IF server.live = None THEN c.swap = {} ELSE server.originals \in Originals
      BY <1>3, <2>1, SessionAssumption DEF SessionInv, CallsInv, Open
    <2>3. \A r \in Roles \ c.swap : c.next.agents[r] \in {None, server.agents[r]}
      BY <2>1, MemoryTyped DEF Shaped
    <2>4. CASE server.live = None
      BY <1>1, <1>3, <2>1, <2>2, <2>4, SwappedTyped
    <2>5. CASE server.live # None
      <3>1. /\ server'.agents = c.next.agents
            /\ \A r \in Roles : /\ r \in c.swap /\ c.next.agents[r] # None
                                   => server'.live[r] = c.next.agents[r]
                                /\ r \notin c.swap => server'.live[r] = server.live[r]
        BY <1>3, <2>1, <2>2, <2>5, SwappedTyped
      <3>2. Ready
        BY <2>1, <2>5, SessionAssumption DEF Ready
      <3> HIDE DEF c
      <3>3. QED
        BY <1>3, <2>3, <3>1, <3>2 DEF LiveInv
    <2>6. QED
      BY <2>4, <2>5
  <1>4. CASE SessionNext
    <2>1. CASE Boot
      BY <1>1, <2>1 DEF Boot
    <2>2. CASE Configure
      <3> DEFINE live == Overridden(Layers!Resolved(config), server.agents)
                 originals == [r \in Layers!Bound(server.agents) |-> Layers!Resolved(config)[r]]
      <3>1. server' = [server EXCEPT !.originals = originals, !.live = live]
        BY <2>2 DEF Configure
      <3>2. server \in Servers
        BY <2>2 DEF Configure
      <3>3. \A r \in Roles : server.agents[r] # None => live[r] = server.agents[r]
        BY DEF Overridden, Layers!Overlay
      <3> HIDE DEF live, originals
      <3>4. server'.agents = server.agents /\ server'.live = live
        BY <3>1, <3>2 DEF Servers
      <3>5. QED
        BY <3>3, <3>4 DEF LiveInv
    <2>3. CASE Close
      BY <1>1, <2>3 DEF Close
    <2>4. CASE Hr
      BY <1>2, <2>4 DEF Hr
    <2>5. CASE Stocks
      <3>1. CASE server' = server /\ odd' = odd
        BY <1>2, <3>1
      <3>2. CASE ~(server' = server /\ odd' = odd)
        <4>1. /\ server'.live = server.live /\ Ready /\ odd \subseteq odd'
              /\ "adrift" \notin odd' => server'.agents = server.agents
          BY <2>5, <3>2 DEF Stocks
        <4>2. QED
          BY <4>1 DEF LiveInv
      <3>3. QED
        BY <3>1, <3>2
    <2>6. CASE \E a \in Actors : \E c : Begins(a, c)
      BY <1>2, <2>6 DEF Begins
    <2>7. ASSUME NEW a \in Actors, WriteOmo(a)
          PROVE  LiveInv'
      BY <1>2, <2>7 DEF WriteOmo
    <2>8. ASSUME NEW a \in Actors, OmoFails(a)
          PROVE  LiveInv'
      <3>1. odd \subseteq odd' /\ server # None
        BY <2>8 DEF OmoFails, Open
      <3>2. QED
        BY <1>2, <2>8, <3>1, OmoFailsTyped
    <2>9. ASSUME NEW a \in Actors, SaveState(a)
          PROVE  LiveInv'
      <3>1. call[a].stage = "state" /\ odd \subseteq odd'
        BY <2>9 DEF SaveState
      <3>2. server' = IF a = "server" THEN Swapped(call[a]) ELSE server
        BY <2>9 DEF SaveState
      <3>3. QED
        BY <1>2, <1>3, <3>1, <3>2
    <2>10. ASSUME NEW a \in Actors, SaveFails(a)
           PROVE  LiveInv'
      <3>1. /\ odd \subseteq odd' /\ call[a].stage = "state"
            /\ "adrift" \notin odd' => server' \in {None, server, Swapped(call[a])}
        BY <2>10, SaveFailsTyped DEF SaveFails
      <3>2. CASE "adrift" \in odd'
        BY <3>2 DEF LiveInv
      <3>3. CASE server' = None \/ server' = server
        BY <1>1, <1>2, <3>1, <3>3
      <3>4. CASE a = "server" /\ server' = Swapped(call[a])
        BY <1>3, <3>1, <3>4
      <3>5. a # "server" => server' = server
        BY <2>10 DEF SaveFails, Actors
      <3>6. QED
        BY <3>1, <3>2, <3>3, <3>4, <3>5
    <2>11. ASSUME NEW a \in Actors, NEW f, WriteFile(a, f)
           PROVE  LiveInv'
      BY <1>2, <2>11 DEF WriteFile
    <2>12. ASSUME NEW content \in scene.edits, EditOmo(content)
           PROVE  LiveInv'
      BY <1>2, <2>12 DEF EditOmo
    <2>13. QED
      BY <1>4, <2>1, <2>2, <2>3, <2>4, <2>5, <2>6, <2>7, <2>8, <2>9, <2>10, <2>11, <2>12, Steps
  <1>5. CASE UNCHANGED allVars
    BY <1>2, <1>5 DEF allVars, plugin
  <1>6. QED
    BY <1>4, <1>5


\* Nothing has happened to the files that LoadSurvives excepts.
Untouched == odd \cap {"blind", "edited", "deserted"} = {}

\* The file a call has read has the names the file has.
NamesInv ==
    /\ \A a \in Actors, r \in Roles :
           Busy(a) => (Omo!IsOmoName(call[a].seen, r) <=> Omo!IsOmoName(omo, r))
    /\ \A r \in Roles : LoadedState.omo[r] # None /\ Omo!Parseable(omo) => Omo!IsOmoName(omo, r)

\* What a load is about to record is in the OMO file.
Loading(c) ==
    c.tool = "load" => \A r \in Roles : c.next.omo[r] # None
                                        => Omo!Target(omo, r).model = c.next.omo[r].model

ForceInv ==
    /\ \A a \in Actors : call[a].stage = "state" =>
           Loading(call[a]) /\ (call[a].tool = "migrate" => loaded = None)
    /\ loaded # None => \A r \in Layers!Bound(loaded) :
           loaded[r] = IF Omo!IsOmoName(omo, r) THEN Omo!Target(omo, r).model
                       ELSE LoadedState.agents[r]

LoadInv == Untouched => NamesInv /\ ForceInv

\* Steps that leave the state and every entry of the OMO file; a call that goes
\* to the state has nothing to write before.
LEMMA LoadUnstirred ==
    ASSUME SessionInv, SessionInv', LoadInv, Untouched' => Untouched, file'.state = file.state, loaded' = loaded,
           omo' = omo \/ (omo = Absent /\ omo' = Omo!NewFile),
           \A a \in Actors : Busy(a)' => \/ call'[a].seen = omo
                                         \/ Busy(a) /\ call'[a].seen = call[a].seen,
           \A a \in Actors : call'[a].stage = "state" =>
               \/ call'[a] = call[a]
               \/ call'[a].specs = NoRecords /\ call'[a].tool # "migrate" /\ Shaped(call'[a])
    PROVE  LoadInv'
  <1> SUFFICES ASSUME Untouched'
               PROVE  NamesInv' /\ ForceInv'
    BY DEF LoadInv
  <1>1. NamesInv /\ ForceInv /\ LoadedState' = LoadedState
    BY DEF LoadInv, LoadedState
  <1>2. ASSUME NEW r \in Roles
        PROVE  /\ Omo!Target(omo', r) = Omo!Target(omo, r)
               /\ Omo!IsOmoName(omo', r) <=> Omo!IsOmoName(omo, r)
               /\ Omo!Parseable(omo') <=> Omo!Parseable(omo)
    <2>1. CASE omo' = omo
      BY <2>1
    <2>2. CASE omo = Absent /\ omo' = Omo!NewFile
      <3>1. /\ Omo!EntryOf(omo', r) = Omo!EntryOf(omo, r)
            /\ Omo!Parseable(omo') /\ Omo!Parseable(omo)
        BY <2>2, NewFileEmpty
      <3>2. QED
        BY <3>1, SameTarget DEF Omo!IsOmoName
    <2>3. QED
      BY <2>1, <2>2
  <1>3. NamesInv'
    <2>1. ASSUME NEW a \in Actors, NEW r \in Roles, Busy(a)'
          PROVE  Omo!IsOmoName(call'[a].seen, r) <=> Omo!IsOmoName(omo', r)
      BY <1>1, <1>2, <2>1 DEF NamesInv
    <2>2. ASSUME NEW r \in Roles, LoadedState'.omo[r] # None, Omo!Parseable(omo')
          PROVE  Omo!IsOmoName(omo', r)
      BY <1>1, <1>2, <2>2 DEF NamesInv
    <2>3. QED
      BY <2>1, <2>2 DEF NamesInv
  <1>4. ASSUME NEW a \in Actors, call'[a].stage = "state"
        PROVE  Loading(call[a])' /\ (call'[a].tool = "migrate" => loaded' = None)
    <2>1. CASE call'[a] = call[a]
      <3>1. Loading(call[a]) /\ (call[a].tool = "migrate" => loaded = None)
        BY <1>1, <1>4, <2>1 DEF ForceInv
      <3>2. Loading(call[a])'
        BY <1>2, <2>1, <3>1 DEF Loading
      <3>3. QED
        BY <2>1, <3>1, <3>2
    <2>2. CASE /\ call'[a].specs = NoRecords /\ call'[a].tool # "migrate" /\ Shaped(call'[a])
      <3>1. ASSUME call'[a].tool = "load", NEW r \in Roles, call'[a].next.omo[r] # None
            PROVE  FALSE
        <4>1. call'[a].specs[r] = Omo!Spec(call'[a].next.omo[r].model)
          BY <2>2, <3>1 DEF Shaped, LoadShape
        <4>2. Omo!Spec(call'[a].next.omo[r].model) # None
          <5>1. call'[a].next.omo[r] \in Omo!Records
            BY <3>1 DEF SessionInv, SessionTypes, Calls, States
          <5>2. QED
            BY <5>1, SpecTyped DEF Omo!Records
        <4>3. QED
          BY <2>2, <4>1, <4>2 DEF NoRecords
      <3>2. QED
        BY <2>2, <3>1 DEF Loading
    <2>3. QED
      BY <1>4, <2>1, <2>2
  <1>5. loaded' # None => \A r \in Layers!Bound(loaded') :
            loaded'[r] = IF Omo!IsOmoName(omo', r) THEN Omo!Target(omo', r).model
                         ELSE LoadedState'.agents[r]
    <2>1. loaded # None => Layers!Bound(loaded) \subseteq Roles
      BY SessionFacts DEF Layers!Bound, Layers!Bindings
    <2>2. QED
      BY <1>1, <1>2, <2>1 DEF ForceInv
  <1>6. QED
    BY <1>3, <1>4, <1>5 DEF ForceInv, Loading


\* A call that has not gone by an outdated state writes names that are OMO's, and
\* what it is about to record.
LEMMA WriteOmoLoads ==
    ASSUME SessionInv, LoadInv, NEW a \in Actors, WriteOmo(a)
    PROVE  LoadInv'
  <1> USE SessionFacts
  <1> DEFINE c == call[a]
             written == Omo!Written(omo, c.specs)
  <1>1. /\ c.stage = "omo" /\ omo' = written /\ written # None
        /\ call' = [call EXCEPT ![a].stage = "state"]
        /\ odd' = IF Blind(a) \/ OutOfDate(c) THEN odd \cup {"blind"} ELSE odd
        /\ loaded' = None /\ file' = file
    BY DEF WriteOmo, HrUntouched, vars
  <1>2. /\ c \in Calls /\ Shaped(c) /\ c.specs \in [Roles -> {None} \cup Omo!Specs] /\ Busy(a)
        /\ c.next \in States
    BY <1>1 DEF Calls
  <1>3. LoadedState' = LoadedState
    BY <1>1 DEF LoadedState
  <1> SUFFICES ASSUME Untouched'
               PROVE  NamesInv' /\ ForceInv'
    BY DEF LoadInv
  <1>4. Untouched /\ ~Blind(a)
    BY <1>1 DEF Untouched
  <1>5. NamesInv
    BY <1>4 DEF LoadInv
  <1>6. c.basis = LoadedState /\ \A b \in Actors \ {a} : call[b].stage # "state"
    BY <1>4 DEF Blind
  <1>7. Omo!Parseable(omo) /\ Omo!Parseable(written)
    BY <1>1, <1>2, WrittenTyped
  <1>8. ASSUME NEW r \in Roles, c.specs[r] # None
        PROVE  Omo!IsOmoName(omo, r)
    <2>1. ~Keeps(c, r)
      BY <1>8 DEF Keeps
    <2>2. CASE Binds(c, r)
      BY <1>2, <1>5, <2>2 DEF Binds, NamesInv
    <2>3. CASE Reverts(c, r)
      BY <1>5, <1>6, <1>7, <2>3 DEF Reverts, NamesInv
    <2>4. QED
      BY <1>2, <2>1, <2>2, <2>3 DEF Shaped
  <1>9. ASSUME NEW r \in Roles
        PROVE  Omo!IsOmoName(written, r) <=> Omo!IsOmoName(omo, r)
    <2>1. Omo!IsOmoName(written, r) = Omo!IsOmoName(omo, r)
      BY <1>1, <1>2, <1>8, NamesKept
    <2>2. QED
      BY <2>1
  <1>10. ASSUME NEW b \in Actors
         PROVE  /\ call'[b].seen = call[b].seen /\ (Busy(b)' => Busy(b))
                /\ call'[b].tool = call[b].tool /\ call'[b].next = call[b].next
                /\ call'[b].stage = "state" => b = a
    BY <1>1, <1>2, <1>6 DEF Busy, Calls
  <1>11. NamesInv'
    <2>1. ASSUME NEW b \in Actors, NEW r \in Roles, Busy(b)'
          PROVE  Omo!IsOmoName(call'[b].seen, r) <=> Omo!IsOmoName(omo', r)
      BY <1>1, <1>5, <1>9, <1>10, <2>1 DEF NamesInv
    <2>2. ASSUME NEW r \in Roles, LoadedState'.omo[r] # None
          PROVE  Omo!IsOmoName(omo', r)
      BY <1>1, <1>3, <1>5, <1>7, <1>9, <2>2 DEF NamesInv
    <2>3. QED
      BY <2>1, <2>2 DEF NamesInv
  <1>12. c.tool = "load" => \A r \in Roles : c.next.omo[r] # None
                                             => Omo!Target(written, r).model = c.next.omo[r].model
    <2> SUFFICES ASSUME c.tool = "load", NEW r \in Roles, c.next.omo[r] # None
                 PROVE  Omo!Target(written, r).model = c.next.omo[r].model
      OBVIOUS
    <2>1. c.specs[r] = Omo!Spec(c.next.omo[r].model)
      BY <1>2 DEF Shaped, LoadShape
    <2>2. c.next.omo[r].model \in Models
      BY <1>2 DEF States, Omo!Records
    <2>3. c.specs[r] # None /\ c.specs[r].models = None /\ c.specs[r].model = c.next.omo[r].model
      BY <2>1, <2>2, SpecTyped DEF Omo!Spec
    <2>4. QED
      BY <1>1, <1>2, <2>3, WrittenTarget
  <1>13. ASSUME NEW b \in Actors, call'[b].stage = "state"
         PROVE  Loading(call[b])'
    BY <1>1, <1>10, <1>12, <1>13 DEF Loading
  <1>14. QED
    BY <1>1, <1>11, <1>13 DEF ForceInv

\* What is saved is in force, and so is what is left to it by the OMO file.
LEMMA SaveStateLoads ==
    ASSUME SessionInv, LoadInv, NEW a \in Actors, SaveState(a)
    PROVE  LoadInv'
  <1> USE SessionFacts
  <1> DEFINE c == call[a]
  <1>1. /\ c.stage = "state" /\ omo' = omo
        /\ loaded' = CASE c.tool = "load" -> BoundBy(c)
                       [] c.tool = "migrate" -> loaded
                       [] OTHER -> None
        /\ odd' = IF Blind(a) THEN odd \cup {"blind"} ELSE odd
    BY DEF SaveState
  <1>2. LoadedState' = c.next
    BY SaveStateTyped
  <1>3. c \in Calls /\ Shaped(c) /\ Busy(a) /\ c.next \in States
    BY <1>1 DEF Calls
  <1> SUFFICES ASSUME Untouched'
               PROVE  NamesInv' /\ ForceInv'
    BY DEF LoadInv
  <1>4. Untouched /\ ~Blind(a)
    BY <1>1 DEF Untouched
  <1>5. NamesInv /\ ForceInv
    BY <1>4 DEF LoadInv
  <1>6. c.basis = LoadedState /\ \A b \in Actors \ {a} : call[b].stage # "state"
    BY <1>4 DEF Blind
  <1>7. /\ \A b \in Actors \ {a} : call'[b] = call[b]
        /\ call'[a] = IF DOMAIN c.files = {} THEN Ended(a) ELSE [c EXCEPT !.stage = "files"]
    BY DEF SaveState
  <1>8. call'[a].stage # "state" /\ (call'[a].tool # "none" => call'[a].seen = c.seen)
    <2>1. CASE DOMAIN c.files = {}
      BY <1>7, <2>1, EndedTyped
    <2>2. CASE DOMAIN c.files # {}
      BY <1>3, <1>7, <2>2 DEF Calls
    <2>3. QED
      BY <2>1, <2>2
  <1>9. \A b \in Actors : call'[b].stage # "state"
    BY <1>6, <1>7, <1>8
  <1>10. ASSUME NEW r \in Roles, c.next.omo[r] # None, Omo!Parseable(omo)
         PROVE  Omo!IsOmoName(omo, r)
    <2>1. CASE Keeps(c, r)
      BY <1>5, <1>6, <1>10, <2>1 DEF Keeps, NamesInv
    <2>2. CASE Binds(c, r)
      BY <1>3, <1>5, <2>2 DEF Binds, NamesInv
    <2>3. ~Reverts(c, r)
      BY <1>10 DEF Reverts
    <2>4. QED
      BY <1>3, <2>1, <2>2, <2>3 DEF Shaped
  <1>11. NamesInv'
    <2>1. ASSUME NEW b \in Actors, NEW r \in Roles, Busy(b)'
          PROVE  Omo!IsOmoName(call'[b].seen, r) <=> Omo!IsOmoName(omo', r)
      <3>1. CASE b = a
        BY <1>1, <1>3, <1>5, <1>8, <2>1, <3>1 DEF NamesInv, Busy
      <3>2. CASE b # a
        BY <1>1, <1>5, <1>7, <2>1, <3>2 DEF NamesInv, Busy
      <3>3. QED
        BY <3>1, <3>2
    <2>2. QED
      BY <1>1, <1>2, <1>10, <2>1 DEF NamesInv
  <1>12. ASSUME c.tool = "load", NEW r \in Roles, BoundBy(c)[r] # None
         PROVE  BoundBy(c)[r] = IF Omo!IsOmoName(omo, r) THEN Omo!Target(omo, r).model
                                ELSE c.next.agents[r]
    <2>1. Omo!IsOmoName(c.seen, r) <=> Omo!IsOmoName(omo, r)
      BY <1>3, <1>5 DEF NamesInv
    <2>2. LoadShape(c, r)
      BY <1>3, <1>12 DEF Shaped
    <2>3. CASE c.next.agents[r] # None
      BY <2>1, <2>2, <2>3 DEF LoadShape, BoundBy
    <2>4. CASE c.next.agents[r] = None
      <3>1. c.next.omo[r] # None /\ BoundBy(c)[r] = c.next.omo[r].model
        BY <1>12, <2>4 DEF BoundBy
      <3>2. Omo!Target(omo, r).model = c.next.omo[r].model
        BY <1>1, <1>5, <1>12, <3>1 DEF ForceInv, Loading
      <3>3. QED
        BY <2>1, <2>2, <3>1, <3>2 DEF LoadShape
    <2>5. QED
      BY <2>3, <2>4
  <1>13. loaded' # None => \A r \in Layers!Bound(loaded') :
             loaded'[r] = IF Omo!IsOmoName(omo, r) THEN Omo!Target(omo, r).model
                          ELSE c.next.agents[r]
    <2>1. CASE c.tool = "load"
      <3>1. loaded' = BoundBy(c) /\ DOMAIN BoundBy(c) = Roles
        BY <1>1, <2>1 DEF BoundBy
      <3>2. QED
        BY <1>12, <2>1, <3>1 DEF Layers!Bound
    <2>2. CASE c.tool = "migrate"
      BY <1>1, <1>5, <2>2 DEF ForceInv
    <2>3. CASE c.tool \notin {"load", "migrate"}
      BY <1>1, <2>3
    <2>4. QED
      BY <2>1, <2>2, <2>3
  <1>14. ForceInv'
    BY <1>1, <1>2, <1>9, <1>13 DEF ForceInv
  <1>15. QED
    BY <1>11, <1>14

\* The user may edit while nothing is under way, and leave no role FastDraw binds out.
LEMMA EditLoads ==
    ASSUME SessionInv, LoadInv, NEW content \in scene.edits, EditOmo(content)
    PROVE  LoadInv'
  <1> USE SessionFacts
  <1>1. /\ omo' = content /\ file' = file /\ call' = call /\ loaded' = None
        /\ odd' = odd \cup {"edited" : a \in {b \in Actors : Busy(b)}}
                      \cup {"deserted" : r \in Deserted(content)}
    BY DEF EditOmo, HrUntouched, vars
  <1> SUFFICES ASSUME Untouched'
               PROVE  NamesInv' /\ ForceInv'
    BY DEF LoadInv
  <1>2. LoadedState' = LoadedState
    BY <1>1 DEF LoadedState
  <1>3. (\A b \in Actors : ~Busy(b)) /\ Deserted(content) = {}
    BY <1>1 DEF Untouched
  <1>4. \A b \in Actors : ~Busy(b)' /\ call'[b].stage # "state"
    BY <1>1, <1>3 DEF Busy
  <1>5. ASSUME NEW r \in Roles, LoadedState.omo[r] # None, Omo!Parseable(content)
        PROVE  Omo!IsOmoName(content, r)
    <2>1. Omo!EntryOf(content, r) # None
      BY <1>3, <1>5 DEF Deserted, Omo!Parseable
    <2>2. QED
      BY <1>5, <2>1 DEF Omo!IsOmoName
  <1>6. QED
    BY <1>1, <1>2, <1>4, <1>5 DEF NamesInv, ForceInv


\* The steps that write neither the OMO file nor the state.
LEMMA OtherLoads ==
    ASSUME SessionInv, SessionInv', LoadInv,
           \/ Boot \/ Configure \/ Close \/ Hr \/ Stocks \/ UNCHANGED allVars
           \/ \E a \in Actors : \E c : Begins(a, c)
           \/ \E a \in Actors : OmoFails(a) \/ SaveFails(a) \/ \E f : WriteFile(a, f)
    PROVE  LoadInv'
  <1> USE SessionFacts
  \* Steps of which one call comes, goes, or goes on, before and after its writes.
  <1>1. ASSUME NEW a \in Actors, NEW c, call' = [call EXCEPT ![a] = c],
               c.tool # "none" => c.seen = omo \/ (Busy(a) /\ c.seen = call[a].seen),
               c.stage = "state" => c.specs = NoRecords /\ c.tool # "migrate" /\ Shaped(c),
               file'.state = file.state, loaded' = loaded, Untouched' => Untouched,
               omo' = omo \/ (omo = Absent /\ omo' = Omo!NewFile)
        PROVE  LoadInv'
    <2>1. \A b \in Actors : Busy(b)' => \/ call'[b].seen = omo
                                        \/ Busy(b) /\ call'[b].seen = call[b].seen
      BY <1>1 DEF Busy
    <2>2. \A b \in Actors : call'[b].stage = "state" =>
              \/ call'[b] = call[b]
              \/ call'[b].specs = NoRecords /\ call'[b].tool # "migrate" /\ Shaped(call'[b])
      BY <1>1
    <2>3. QED
      BY <1>1, <2>1, <2>2, LoadUnstirred
  \* Steps that leave the calls, or end them all.
  <1>2. ASSUME call' = call \/ call' = [a \in Actors |-> NoCall],
               file'.state = file.state, loaded' = loaded, Untouched' => Untouched, omo' = omo
        PROVE  LoadInv'
    <2>1. \A b \in Actors : Busy(b)' => Busy(b) /\ call'[b].seen = call[b].seen
      BY <1>2 DEF Busy
    <2>2. \A b \in Actors : call'[b].stage = "state" => call'[b] = call[b]
      BY <1>2
    <2>3. QED
      BY <1>2, <2>1, <2>2, LoadUnstirred
  <1>3. CASE Boot
    <2> DEFINE c == [NoCall EXCEPT !.tool = "migrate", !.stage = "omo", !.basis = LoadedState,
                         !.seen = omo, !.next = Migrated(LoadedState),
                         !.specs = [r \in Roles |-> IF r \in Migrating(LoadedState)
                                                    THEN Omo!Spec(LoadedState.agents[r])
                                                    ELSE None]]
    <2>1. c.stage = "omo" /\ c.seen = omo
      BY DEF NoCall
    <2>2. /\ odd' = odd \ {"adrift"} /\ file' = file /\ omo' = omo /\ loaded' = loaded
          /\ \/ call' = [call EXCEPT !["server"] = NoCall]
             \/ call' = [call EXCEPT !["server"] = c]
      BY <1>3 DEF Boot, HrUntouched, vars
    <2> HIDE DEF c
    <2>3. PICK d \in {NoCall, c} : call' = [call EXCEPT !["server"] = d]
      BY <2>2
    <2>4. d.stage # "state" /\ (d.tool # "none" => d.seen = omo)
      BY <2>1, <2>3
    <2>5. Untouched' => Untouched
      BY <2>2 DEF Untouched
    <2>6. QED
      BY <1>1, <2>2, <2>3, <2>4, <2>5
  <1>4. CASE Configure \/ UNCHANGED allVars
    <2>1. call' = call /\ loaded' = loaded /\ file' = file /\ omo' = omo /\ odd' = odd
      BY <1>4 DEF Configure, HrUntouched, allVars, plugin, vars
    <2>2. QED
      BY <1>2, <2>1 DEF Untouched
  <1>5. CASE Close
    <2>1. /\ call' = [a \in Actors |-> NoCall] /\ loaded' = loaded /\ file' = file /\ omo' = omo
          /\ odd \subseteq odd'
      BY <1>5 DEF Close, HrUntouched, vars
    <2>2. QED
      BY <1>2, <2>1 DEF Untouched
  <1>6. CASE Hr
    <2>1. /\ call' = call /\ omo' = omo
          /\ loaded' = IF file'.state = file.state THEN loaded ELSE None
          /\ odd' = IF file'.state = file.state THEN odd ELSE odd \cup {"blind"}
      BY <1>6 DEF Hr
    <2>2. CASE file'.state = file.state
      BY <1>2, <2>1, <2>2 DEF Untouched
    <2>3. CASE file'.state # file.state
      BY <2>1, <2>3 DEF LoadInv, Untouched
    <2>4. QED
      BY <2>2, <2>3
  <1>7. CASE Stocks
    <2>1. /\ call' = call /\ loaded' = loaded /\ omo' = omo /\ file'.state = file.state
          /\ odd \subseteq odd'
      BY <1>7 DEF Stocks
    <2>2. QED
      BY <1>2, <2>1 DEF Untouched
  <1>8. ASSUME NEW a \in Actors, NEW c, Begins(a, c)
        PROVE  LoadInv'
    <2>1. /\ call' = [call EXCEPT ![a] = c] /\ c.tool # "migrate"
          /\ c.tool # "none" => c.seen = omo \/ (Busy(a) /\ c.seen = call[a].seen)
          /\ c.stage = "state" => c.specs = NoRecords /\ Shaped(c)
          /\ file' = file /\ loaded' = loaded /\ omo' = omo /\ odd' = odd
      BY <1>8 DEF Begins, vars
    <2>2. QED
      BY <1>1, <2>1 DEF Untouched
  <1>9. ASSUME NEW a \in Actors, OmoFails(a)
        PROVE  LoadInv'
    <2>1. /\ call' = [call EXCEPT ![a] = Ended(a)] /\ loaded' = loaded /\ file' = file
          /\ omo' = omo /\ odd \subseteq odd'
      BY <1>9 DEF OmoFails, HrUntouched, vars
    <2>2. /\ Ended(a).stage # "state"
          /\ Ended(a).tool # "none" => Busy(a) /\ Ended(a).seen = call[a].seen
      BY EndedTyped
    <2>3. QED
      BY <1>1, <2>1, <2>2 DEF Untouched
  <1>10. ASSUME NEW a \in Actors, SaveFails(a)
         PROVE  LoadInv'
    <2>1. /\ loaded' = loaded /\ file' = file /\ omo' = omo
          /\ call' = [b \in Actors |-> IF b = a THEN Ended(a)
                                       ELSE IF server' = None THEN NoCall ELSE call[b]]
      BY <1>10 DEF SaveFails, HrUntouched, vars
    <2>2. odd \subseteq odd'
      BY <1>10, SaveFailsTyped
    <2>3. /\ Ended(a).stage # "state"
          /\ Ended(a).tool # "none" => Busy(a) /\ Ended(a).seen = call[a].seen
      BY EndedTyped
    <2>4. \A b \in Actors : Busy(b)' => Busy(b) /\ call'[b].seen = call[b].seen
      BY <2>1, <2>3 DEF Busy
    <2>5. \A b \in Actors : call'[b].stage = "state" => call'[b] = call[b]
      BY <2>1, <2>3
    <2>6. Untouched' => Untouched
      BY <2>2 DEF Untouched
    <2>7. QED
      BY <2>1, <2>4, <2>5, <2>6, LoadUnstirred
  <1>11. ASSUME NEW a \in Actors, NEW f, WriteFile(a, f)
         PROVE  LoadInv'
    <2> DEFINE left == [g \in DOMAIN call[a].files \ {f} |-> call[a].files[g]]
               c == IF DOMAIN left = {} THEN Ended(a) ELSE [call[a] EXCEPT !.files = left]
    <2>1. /\ call' = [call EXCEPT ![a] = c] /\ call[a].stage = "files"
          /\ loaded' = loaded /\ file' = file /\ odd' = odd
      BY <1>11 DEF WriteFile, HrUntouched, vars
    <2>2. omo' = omo \/ (omo = Absent /\ omo' = Omo!NewFile)
      BY <1>11, WriteFileTyped
    <2>3. c.stage # "state" /\ (c.tool # "none" => Busy(a) /\ c.seen = call[a].seen)
      <3>1. /\ Ended(a).stage # "state" /\ call[a] \in Calls
            /\ Ended(a).tool # "none" => Busy(a) /\ Ended(a).seen = call[a].seen
        BY EndedTyped
      <3> HIDE DEF left
      <3>2. /\ [call[a] EXCEPT !.files = left].stage = call[a].stage
            /\ [call[a] EXCEPT !.files = left].seen = call[a].seen
        BY <3>1 DEF Calls
      <3>3. Busy(a)
        BY <2>1
      <3>4. QED
        BY <2>1, <3>1, <3>2, <3>3
    <2> HIDE DEF c
    <2>4. QED
      BY <1>1, <2>1, <2>2, <2>3 DEF Untouched
  <1>12. QED
    BY <1>3, <1>4, <1>5, <1>6, <1>7, <1>8, <1>9, <1>10, <1>11

\* What a load has bound is still in force: in the session that loaded, whatever of
\* the configuration files could not be written, and in one started after opencode
\* was killed while it was writing them.
THEOREM LoadStays == SessionSpec => []LoadSurvives
  <1>1. SessionInit => LiveInv /\ LoadInv
    <2> SUFFICES ASSUME SessionInit
                 PROVE  LiveInv /\ LoadInv
      OBVIOUS
    <2>1. /\ server = None /\ call = [a \in Actors |-> NoCall] /\ loaded = None
          /\ file.state \in Seatings \cup {Absent}
      BY DEF SessionInit, Init
    <2>2. \A r \in Roles : LoadedState.omo[r] = None
      BY <2>1, SessionAssumption DEF LoadedState, EmptyState, NoRecords
    <2>3. \A a \in Actors : ~Busy(a) /\ call[a].stage # "state"
      BY <2>1 DEF Busy, NoCall
    <2>4. QED
      BY <2>1, <2>2, <2>3 DEF LiveInv, Ready, Open, LoadInv, NamesInv, ForceInv
  <1>2. SessionInv /\ SessionInv' /\ LoadInv /\ [SessionNext]_allVars => LoadInv'
    <2> SUFFICES ASSUME SessionInv, SessionInv', LoadInv, [SessionNext]_allVars
                 PROVE  LoadInv'
      OBVIOUS
    <2>1. CASE SessionNext
      BY <2>1, Steps, OtherLoads, WriteOmoLoads, SaveStateLoads, EditLoads
    <2>2. CASE UNCHANGED allVars
      BY <2>2, OtherLoads
    <2>3. QED
      BY <2>1, <2>2
  <1>3. SessionInv /\ LiveInv /\ LoadInv => LoadSurvives
    <2> SUFFICES ASSUME SessionInv, LiveInv, LoadInv, Ready, loaded # None, Memory = LoadedState,
                        odd \cap {"blind", "edited", "deserted", "adrift"} = {},
                        NEW r \in Layers!Bound(loaded)
                 PROVE  loaded[r] = IF Omo!IsOmoName(omo, r) THEN Omo!Target(omo, r).model
                                    ELSE server.live[r]
      BY DEF LoadSurvives
    <2>1. loaded[r] = IF Omo!IsOmoName(omo, r) THEN Omo!Target(omo, r).model
                      ELSE LoadedState.agents[r]
      BY DEF LoadInv, Untouched, ForceInv
    <2>2. r \in Roles /\ loaded[r] # None
      BY SessionFacts DEF Layers!Bound, Layers!Bindings
    <2>3. server.agents = LoadedState.agents
      BY DEF Memory
    <2>4. server.agents[r] # None => server.live[r] = server.agents[r]
      BY <2>2 DEF LiveInv
    <2>5. QED
      BY <2>1, <2>2, <2>3, <2>4
  <1>4. QED
    BY <1>1, <1>2, <1>3, LiveStep, SessionTyped, PTL DEF SessionSpec



(***************************************************************************)
(* ImplementsUndoable: in a scene without FastDraw, hr's files and its     *)
(* recovery points change as UndoableFiles says.                           *)
(***************************************************************************)

\* One hr process at a time, as many names a second as backups are kept, nobody kills
\* it, and of its writes only those of an apply fail.
OneAtATime == /\ \A p, q \in Procs : p = q
              /\ IsFiniteSet(Ties) /\ Cardinality(Ties) <= MaxBackups
              /\ MaxCrashes = 0 /\ FaultyKinds \subseteq {"apply"}

HrInv == BackupsInv /\ RestoreInv /\ UndoInv /\ AloneInv
LoneInv == Solitary => HrInv /\ server = None /\ call = [a \in Actors |-> NoCall]

Points == {b.hash : b \in {c \in backups : Valid(c)}}

\* The files before a job are its own, and the files there are when it has none.
LEMMA BeforeOf ==
    ASSUME \A p, q \in Procs : p = q, NEW q \in Procs
    PROVE  /\ FilesBefore = IF job[q].base # None THEN job[q].base ELSE file
           /\ FilesBefore' = IF job'[q].base # None THEN job'[q].base ELSE file'
  <1>1. ASSUME NEW table, NEW there
        PROVE  (IF \E p \in Procs : table[p].base # None
                THEN table[CHOOSE p \in Procs : table[p].base # None].base ELSE there)
               = IF table[q].base # None THEN table[q].base ELSE there
    <2>1. CASE table[q].base # None
      <3> DEFINE r == CHOOSE p \in Procs : table[p].base # None
      <3>1. r \in Procs
        BY <2>1
      <3>2. r = q
        BY <3>1
      <3> HIDE DEF r
      <3>3. table[r].base = table[q].base
        BY <3>2
      <3>4. QED
        BY <2>1, <3>3 DEF r
    <2>2. CASE table[q].base = None
      BY <2>2
    <2>3. QED
      BY <2>1, <2>2
  <1>2. QED
    BY <1>1 DEF FilesBefore

\* The recovery points are made of the backups.
LEMMA SamePoints ==
    ASSUME backups' = backups
    PROVE  Points' = Points
  BY DEF Points, Valid

\* A prune takes recovery points, and leaves one if there is any.
LEMMA PrunedPoints ==
    ASSUME TypeOK, DirsInv, backups' = Kept(backups)
    PROVE  Points' = Points \/ (Points' \in SUBSET Points /\ Points' # {})
  <1>1. backups' \subseteq backups
    BY DEF Kept
  <1>2. Points' \in SUBSET Points
    BY <1>1 DEF Points, Valid
  <1>3. CASE Points = {}
    BY <1>2, <1>3
  <1>4. CASE Points # {}
    <2>1. \E b \in backups : Valid(b)
      BY <1>4 DEF Points
    <2>2. PICK b \in backups' : Valid(b)
      BY <2>1, KeptOne
    <2>3. b.hash \in Points'
      BY <2>2 DEF Points, Valid
    <2>4. QED
      BY <1>2, <2>3
  <1>5. QED
    BY <1>3, <1>4

\* What a seal adds is the files the apply has found.
LEMMA SealedPoints ==
    ASSUME TypeOK, NEW q \in Procs, Seal(q), OwnOK(q), job[q].kind = "apply",
           Recoverable(q)', job'[q].base = job[q].base
    PROVE  Points' \in SUBSET (Points \cup {job[q].base}) /\ job[q].base \in Points'
  <1>1. job[q].base \in Points'
    BY DEF Recoverable, OwnBackup, Points, Valid
  <1>2. ASSUME NEW c \in backups', Valid(c)
        PROVE  c.hash \in Points \cup {job[q].base}
    <2>1. PICK b \in backups : c = IF b \in OwnBackup(q)
                                   THEN [b EXCEPT !.sealed = TRUE, !.blob = file] ELSE b
      BY DEF Seal
    <2>2. CASE b \in OwnBackup(q)
      <3>1. c.hash = b.hash
        BY <2>1, <2>2 DEF TypeOK, Backup
      <3>2. QED
        BY <2>2, <3>1 DEF OwnOK, Seal
    <2>3. CASE b \notin OwnBackup(q)
      BY <1>2, <2>1, <2>3 DEF Points
    <2>4. QED
      BY <2>2, <2>3
  <1>3. QED
    BY <1>1, <1>2 DEF Points, Valid


\* Every step of hr is one of UndoableFiles, or none.
StaysPut == FilesBefore' = FilesBefore /\ Points' = Points
Saves == /\ FilesBefore' = FilesBefore
         /\ Points' \in SUBSET (Points \cup {FilesBefore}) /\ FilesBefore \in Points'
Expires == FilesBefore' = FilesBefore /\ Points' \in SUBSET Points /\ Points' # {}
Undoes == FilesBefore' \in Points /\ Points' = Points
Commits == LET store == IF FilesBefore.presets = Absent THEN EmptyStore ELSE FilesBefore.presets
           IN /\ FilesBefore \in Points /\ Points' = Points
              /\ \E name \in Names, seating \in Seatings : \E state \in {FilesBefore.state, seating} :
                     FilesBefore' = [presets |-> [store EXCEPT ![name] = seating], state |-> state]

\* The one hr process leaves its files alone, saves them, lets a recovery point expire,
\* goes back to one, or commits a preset.
LEMMA HrMoves ==
    ASSUME OneAtATime, HrInv, HrInv', Next
    PROVE  StaysPut \/ Saves \/ Expires \/ Undoes \/ Commits
  <1>a. /\ TypeOK /\ TypeOK' /\ JobInv /\ DirsInv /\ RestoreInv /\ UndoInv /\ AloneInv
        /\ UndoInv' /\ AloneInv'
    BY DEF HrInv, BackupsInv
  <1>b. None \notin Contents /\ file \in Contents /\ job \in [Procs -> JobType] /\ backups \subseteq Backup
    BY <1>a, DistinctAssumption DEF TypeOK
  <1>1. CASE NewVerdict \/ Tick
    <2>1. job' = job /\ file' = file /\ backups' = backups
      BY <1>1 DEF NewVerdict, Tick
    <2>2. FilesBefore' = FilesBefore
      <3>1. CASE Procs = {}
        BY <2>1, <3>1 DEF FilesBefore
      <3>2. ASSUME NEW q \in Procs
            PROVE  FilesBefore' = FilesBefore
        BY <2>1, BeforeOf DEF OneAtATime
      <3>3. QED
        BY <3>1, <3>2
    <2>3. QED
      BY <2>1, <2>2, SamePoints DEF StaysPut
  <1>2. ASSUME NEW q \in Procs, Command(q) \/ Step(q) \/ Crash(q)
        PROVE  StaysPut \/ Saves \/ Expires \/ Undoes \/ Commits
    <2> DEFINE j == job[q]
    <2>a. /\ FilesBefore = IF j.base # None THEN j.base ELSE file
          /\ FilesBefore' = IF job'[q].base # None THEN job'[q].base ELSE file'
      BY BeforeOf DEF OneAtATime
    <2>b. /\ j \in JobType /\ AloneOK(q) /\ AloneOK(q)' /\ UndoOK(q) /\ UndoOK(q)'
          /\ OwnOK(q) /\ PlanOK(q) /\ j.kind \in {"apply", "restore"}
          /\ j.kind = "restore" => j.pc \in {"write", "fill"}
      BY <1>a, <1>b DEF AloneInv, UndoInv, RestoreInv, JobInv, JobType
    <2>c. /\ j.kind = "restore" => j.base \in Contents
          /\ j.kind = "apply" /\ j.pc \notin {"idle", "checked"} => j.base \in Contents
          /\ j.kind = "apply" /\ j.pc \in {"idle", "checked"} => j.base = None
      BY <2>b DEF AloneOK
    <2>1. ASSUME job'[q].base = j.base, j.base = None => file' = file, backups' = backups
          PROVE  StaysPut
      BY <2>a, <2>1, SamePoints DEF StaysPut
    <2>2. CASE job'[q] = Recovered(q) /\ j.kind = "apply" /\ j.pc \in {"ready", "write", "fill"}
               /\ backups' = backups
      <3>1. PICK b \in OwnBackup(q) : Valid(b)
        BY <2>2, <2>b DEF UndoOK, Recoverable
      <3>2. Recovered(q).base = j.base
        <4>1. Recovered(q) = [j EXCEPT !.kind = "restore", !.pc = "write",
                                  !.plan = RestorePlan(CHOOSE c \in OwnBackup(q) : Valid(c)),
                                  !.goal = j.base]
          BY <3>1 DEF Recovered
        <4>2. QED
          BY <2>b, <4>1 DEF JobType
      <3>3. QED
        BY <1>b, <2>1, <2>2, <2>c, <3>2
    <2>3. CASE Command(q)
      <3>1. ASSUME NEW arg \in Args, NEW setState \in BOOLEAN, Check(q, arg, setState)
            PROVE  StaysPut
        <4>1. job'[q].base = None /\ backups' = backups /\ file' = file
          BY <1>b, <3>1 DEF Check, Idle
        <4>2. j.base = None
          BY <2>b, <2>c, <3>1 DEF Check, InFlight
        <4>3. QED
          BY <2>1, <4>1, <4>2
      <3>2. ASSUME NEW b \in backups, Rollback(q, b)
            PROVE  StaysPut
        <4>1. job'[q].base = file /\ backups' = backups
          BY <1>b, <3>2 DEF Rollback, Idle
        <4>2. j.base = None
          BY <2>b, <2>c, <3>2 DEF Rollback, InFlight
        <4>3. FilesBefore' = FilesBefore
          BY <1>b, <2>a, <4>1, <4>2
        <4>4. QED
          BY <4>1, <4>3, SamePoints DEF StaysPut
      <3>3. ASSUME NEW arg \in Args, NEW setState \in BOOLEAN, NEW tie \in Ties,
                   Preview(q, arg, setState, tie)
            PROVE  StaysPut
        BY <2>1, <3>3 DEF Preview
      <3>4. CASE Prune(q)
        <4>1. FilesBefore' = FilesBefore /\ backups' = Kept(backups)
          BY <2>a, <3>4 DEF Prune
        <4>2. QED
          BY <1>a, <4>1, PrunedPoints DEF StaysPut, Expires
      <3>5. QED
        BY <2>3, <3>1, <3>2, <3>3, <3>4 DEF Command
    <2>4. ASSUME NEW tie \in Ties, MakeManifest(q, tie)
          PROVE  StaysPut
      <3> DEFINE made == [stamp |-> <<now, tie>>, sealed |-> FALSE, hash |-> file,
                          blob |-> [presets |-> Absent, state |-> Absent]]
      <3>1. job'[q].base = file /\ backups' = backups \cup {made} /\ j.pc = "checked"
        BY <1>b, <2>4 DEF MakeManifest, JobType
      <3>2. ~made.sealed
        OBVIOUS
      <3> HIDE DEF made
      <3>3. Points' = Points
        BY <3>1, <3>2 DEF Points, Valid
      <3>4. FilesBefore' = FilesBefore
        BY <1>b, <2>a, <2>b, <2>c, <3>1
      <3>5. QED
        BY <3>3, <3>4 DEF StaysPut
    <2>5. CASE Seal(q)
      <3>1. j.pc = "hashed" /\ j.kind = "apply" /\ OwnBackup(q) # {}
        BY <2>5, <2>b DEF Seal, UndoOK, BackedUp
      <3>2. job'[q] = [j EXCEPT !.pc = "sealed"]
        BY <1>b, <2>5, <3>1 DEF Seal
      <3> HIDE DEF j
      <3>3. job'[q].base = j.base /\ job'[q].pc = "sealed" /\ job'[q].kind = "apply"
        BY <2>b, <3>1, <3>2 DEF JobType
      <3>4. Recoverable(q)'
        BY <2>b, <3>3 DEF UndoOK
      <3>5. Points' \in SUBSET (Points \cup {j.base}) /\ j.base \in Points'
        BY <1>a, <2>5, <2>b, <3>1, <3>3, <3>4, SealedPoints DEF j
      <3>6. FilesBefore = j.base /\ FilesBefore' = j.base
        BY <1>b, <2>a, <2>c, <3>1, <3>3
      <3>7. QED
        BY <3>5, <3>6 DEF Saves
    <2>6. CASE PruneOwn(q)
      <3>1. /\ j.pc = "sealed" /\ backups' = Kept(backups)
            /\ job'[q] = [j EXCEPT !.pc = "ready"] /\ file' = file
        BY <1>b, <2>6 DEF PruneOwn
      <3> HIDE DEF j
      <3>2. job'[q].base = j.base
        BY <2>b, <3>1 DEF JobType
      <3>3. FilesBefore' = FilesBefore
        BY <2>a, <3>1, <3>2
      <3>4. QED
        BY <1>a, <3>1, <3>3, PrunedPoints DEF StaysPut, Expires
    <2>7. CASE Load(q)
      <3>1. j.pc = "ready" /\ j.kind = "apply" /\ backups' = backups /\ file' = file
        BY <2>7, <2>b DEF Load
      <3>2. CASE verdict = None \/ file.presets = Torn
        BY <1>b, <2>2, <2>7, <3>1, <3>2 DEF Load
      <3>3. CASE ~(verdict = None \/ file.presets = Torn)
        <4>1. job'[q].base = j.base
          BY <1>b, <2>7, <3>3 DEF Load, JobType
        <4>2. QED
          BY <2>1, <3>1, <4>1
      <3>4. QED
        BY <3>2, <3>3
    <2>8. CASE Truncate(q) \/ Fill(q) \/ Unlink(q)
      <3>1. /\ j.pc \in {"write", "fill"} /\ backups' = backups
            /\ job'[q] \in {[j EXCEPT !.pc = "fill", !.wrote = TRUE],
                            [j EXCEPT !.pc = "write", !.plan = Tail(@)], [j EXCEPT !.plan = Tail(@)]}
        BY <1>b, <2>8 DEF Truncate, Fill, Unlink, Writing, Others
      <3> HIDE DEF j
      <3>2. job'[q].base = j.base
        BY <2>b, <3>1 DEF JobType
      <3>3. j.base # None
        BY <1>b, <2>b, <2>c, <3>1
      <3>4. QED
        BY <2>1, <3>1, <3>2, <3>3
    <2>9. CASE SkipMissing(q)
      BY <2>9, <2>b DEF SkipMissing, AloneOK, Returns
    <2>10. CASE Verify(q)
      <3>1. /\ j.kind = "apply" /\ j.pc = "write" /\ j.plan = <<>> /\ backups' = backups
            /\ file' = file
        BY <2>10 DEF Verify
      <3>2. CASE job'[q] = Recovered(q)
        BY <2>2, <3>1, <3>2
      <3>3. CASE job'[q] = Idle
        <4>1. FilesBefore = j.base /\ FilesBefore' = Wanted(q)
          BY <1>a, <1>b, <2>a, <2>c, <3>1, <3>3, Ends DEF Idle
        <4>2. j.base \in Points /\ Points' = Points
          BY <2>b, <3>1, SamePoints DEF UndoOK, Recoverable, OwnBackup, Points
        <4>3. JobName(q) \in Names /\ j.seating \in Seatings
          BY <2>b, <3>1, BridgeAssumption DEF AloneOK, JobName, NameFor
        <4>4. QED
          BY <4>1, <4>2, <4>3 DEF Commits, Wanted
      <3>4. QED
        BY <1>b, <2>10, <3>2, <3>3 DEF Verify
    <2>11. CASE RestoreDone(q)
      <3>1. /\ j.kind = "restore" /\ backups' = backups /\ file' = file /\ job'[q].base = None
        BY <1>b, <2>11 DEF RestoreDone, Idle
      <3>2. file = j.goal
        BY <1>a, <2>11, Ends
      <3>3. j.goal \in Points
        BY <2>b, <3>1 DEF AloneOK, Returns, OwnBackup, Points
      <3>4. QED
        BY <2>a, <3>1, <3>2, <3>3, SamePoints DEF Undoes
    <2>12. CASE WriteFails(q) \/ ReadFails(q)
      <3>1. /\ j.kind = "apply" /\ j.pc \in {"ready", "write", "fill"} /\ backups' = backups
        BY <2>b, <2>12 DEF WriteFails, ReadFails, Writing, OneAtATime
      <3>2. job'[q] = Recovered(q)
        BY <1>b, <2>12, <3>1 DEF WriteFails, ReadFails
      <3>3. QED
        BY <2>2, <3>1, <3>2
    <2>13. ~Crash(q)
      BY <1>a DEF Crash, TypeOK, OneAtATime
    <2>14. QED
      BY <1>2, <2>3, <2>4, <2>5, <2>6, <2>7, <2>8, <2>9, <2>10, <2>11, <2>12, <2>13 DEF Step
  <1>3. QED
    BY <1>1, <1>2 DEF Next


\* Every scene stays as it is, and one without FastDraw has hr's steps and the user's alone.
LEMMA LoneSteps ==
    ASSUME SessionInv, LoneInv, [SessionNext]_allVars
    PROVE  /\ scene' = scene
           /\ Solitary => [Next]_vars /\ server' = server /\ call' = call
  <1>1. CASE UNCHANGED allVars
    BY <1>1 DEF allVars, plugin
  <1>2. CASE SessionNext
    <2>1. scene' = scene
      <3>1. CASE Boot \/ Configure \/ Close \/ Hr \/ Stocks
        BY <3>1 DEF Boot, Configure, Close, Hr, Stocks, HrUntouched
      <3>2. ASSUME NEW a \in Actors, NEW c, Begins(a, c)
            PROVE  scene' = scene
        BY <3>2 DEF Begins
      <3>3. ASSUME NEW a \in Actors, WriteOmo(a) \/ OmoFails(a) \/ SaveState(a) \/ SaveFails(a)
            PROVE  scene' = scene
        BY <3>3 DEF WriteOmo, OmoFails, SaveState, SaveFails, HrUntouched, FileWritten
      <3>4. ASSUME NEW a \in Actors, NEW f, WriteFile(a, f)
            PROVE  scene' = scene
        BY <3>4 DEF WriteFile, HrUntouched
      <3>5. ASSUME NEW content \in scene.edits, EditOmo(content)
            PROVE  scene' = scene
        BY <3>5 DEF EditOmo, HrUntouched
      <3>6. QED
        BY <1>2, <3>1, <3>2, <3>3, <3>4, <3>5, Steps
    <2>2. ASSUME Solitary
          PROVE  [Next]_vars /\ server' = server /\ call' = call
      <3>1. scene.cast = {} /\ call = [a \in Actors |-> NoCall]
        BY <2>2 DEF LoneInv, Solitary
      <3>2. \A a \in Actors : call[a].stage = "none" /\ call[a].files = <<>>
        BY <3>1 DEF NoCall
      <3>3. \A a \in Actors : ~Work(a)
        BY <3>2 DEF Work, WriteOmo, OmoFails, SaveState, SaveFails, WriteFile
      <3>4. Hr \/ \E content \in scene.edits : EditOmo(content)
        BY <1>2, <3>1, <3>3 DEF SessionNext
      <3>5. CASE Hr
        BY <3>5 DEF Hr
      <3>6. ASSUME NEW content \in scene.edits, EditOmo(content)
            PROVE  UNCHANGED vars /\ server' = server /\ call' = call
        BY <3>6 DEF EditOmo, HrUntouched
      <3>7. QED
        BY <3>4, <3>5, <3>6
    <2>3. QED
      BY <2>1, <2>2
  <1>3. QED
    BY <1>1, <1>2

\* hr goes its way alone.
LEMMA LoneStep ==
    ASSUME OneAtATime, SessionInv, LoneInv, [SessionNext]_allVars
    PROVE  LoneInv'
  <1>1. /\ scene' = scene
        /\ Solitary => [Next]_vars /\ server' = server /\ call' = call
    BY LoneSteps
  <1> SUFFICES ASSUME Solitary'
               PROVE  HrInv' /\ server' = None /\ call' = [a \in Actors |-> NoCall]
    BY DEF LoneInv
  <1>2. Solitary /\ HrInv /\ server = None /\ call = [a \in Actors |-> NoCall] /\ [Next]_vars
    BY <1>1 DEF Solitary, LoneInv
  <1>3. BackupsInv'
    BY <1>2, BackupsStep DEF HrInv
  <1>4. RestoreInv' /\ UndoInv' /\ AloneInv'
    BY <1>2, RestoreStep, UndoStep, AloneStep DEF HrInv, BackupsInv, OneAtATime
  <1>5. QED
    BY <1>1, <1>2, <1>3, <1>4 DEF HrInv

\* It begins so.
LEMMA LoneStart == SessionInit => LoneInv
  <1> SUFFICES ASSUME SessionInit
               PROVE  LoneInv
    OBVIOUS
  <1>1. Init
    BY DEF SessionInit
  <1>2. BackupsInv
    BY <1>1, BackupsInit
  <1>3. RestoreInv /\ UndoInv
    BY <1>1 DEF Init, RestoreInv, OwnOK, PlanOK, UndoInv, UndoOK, Idle
  <1>4. AloneInv
    BY <1>1 DEF Init, AloneInv, AloneOK, Idle
  <1>5. QED
    BY <1>2, <1>3, <1>4 DEF SessionInit, LoneInv, HrInv


\* One hr process that nobody kills, whatever write of an apply fails, whatever is
\* pruned, previewed or rolled back: its files change in one step or not at all, only
\* once they are a recovery point, and there is always a recovery point left.
THEOREM UndoableByHr ==
    ASSUME OneAtATime
    PROVE  SessionSpec => ImplementsUndoable
  <1> DEFINE files == IF Solitary THEN FilesBefore ELSE None
             points == IF Solitary THEN {b.hash : b \in {c \in backups : Valid(c)}} ELSE {}
  <1>1. SessionInit => Undoable!Init
    BY DEF SessionInit, Init, Undoable!Init
  <1>2. ASSUME SessionInv, LoneInv, LoneInv', [SessionNext]_allVars
        PROVE  [Undoable!Next]_<<files, points>>
    <2>1. /\ Solitary' = Solitary
          /\ Solitary => [Next]_vars /\ HrInv /\ HrInv'
      BY <1>2, LoneSteps DEF Solitary, LoneInv
    <2>2. CASE ~Solitary
      BY <2>1, <2>2
    <2>3. CASE Solitary
      <3>1. files = FilesBefore /\ points = Points /\ files' = FilesBefore' /\ points' = Points'
        BY <2>1, <2>3 DEF Points
      <3>2. CASE UNCHANGED vars
        <4>1. CASE Procs = {}
          BY <3>1, <3>2, <4>1, SamePoints DEF vars, FilesBefore
        <4>2. ASSUME NEW q \in Procs
              PROVE  FilesBefore' = FilesBefore
          BY <3>2, BeforeOf DEF vars, OneAtATime
        <4>3. QED
          BY <3>1, <3>2, <4>1, <4>2, SamePoints DEF vars
      <3>3. CASE Next
        <4>1. StaysPut \/ Saves \/ Expires \/ Undoes \/ Commits
          BY <2>1, <2>3, <3>3, HrMoves
        <4>2. CASE StaysPut
          BY <3>1, <4>2 DEF StaysPut
        <4>3. CASE Saves
          BY <2>1, <2>3, <3>1, <4>3 DEF Saves, Points, Undoable!Next, Undoable!Save
        <4>4. CASE Expires
          BY <2>1, <2>3, <3>1, <4>4 DEF Expires, Points, Undoable!Next, Undoable!Expire
        <4>5. CASE Undoes
          BY <2>1, <2>3, <3>1, <4>5 DEF Undoes, Points, Undoable!Next, Undoable!Undo
        <4>6. CASE Commits
          BY <2>1, <2>3, <3>1, <4>6
             DEF Commits, Points, Undoable!Next, Undoable!Commit, Undoable!Store, EmptyStore
        <4>7. QED
          BY <4>1, <4>2, <4>3, <4>4, <4>5, <4>6
      <3>4. QED
        BY <2>1, <2>3, <3>2, <3>3
    <2>4. QED
      BY <2>2, <2>3
  <1>3. LoneInv /\ SessionInv /\ [SessionNext]_allVars => LoneInv'
    BY LoneStep
  <1>4. QED
    BY <1>1, <1>2, <1>3, LoneStart, SessionTyped, PTL DEF SessionSpec, ImplementsUndoable, Undoable!Spec
=============================================================================
