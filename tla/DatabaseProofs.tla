--------------------------- MODULE DatabaseProofs ----------------------------
(***************************************************************************)
(* Proofs about the SQLite file, for any number of fixture rows: whatever  *)
(* file was found, and wherever earlier openings of it were cut short, the *)
(* statements still to run are those that the file still lacks.            *)
(***************************************************************************)
EXTENDS Database, SequenceTheorems, TLAPS

Statements == [op : {"create"}, name : Objects]
                \cup [op : {"add"}, name : WindColumns]
                \cup [op : {"stamp"}, to : 1 .. SCHEMA_VERSION]

(* The statements still to run are the last ones of t. *)
LeftOf(t) ==
    /\ Len(script) <= Len(t)
    /\ \A i \in 1 .. Len(script) : script[i] = t[Len(t) - Len(script) + i]

(* A version promises what the file has.  A v1 file may have been altered  *)
(* in part, and the tables of v3 may precede the version.                  *)
Sound(f) ==
    /\ f.version = 0 => f.columns = IF "outdoor_readings" \in f.objects
                                    THEN WindColumns ELSE {}
    /\ f.version >= 1 => Outdoor \subseteq f.objects
    /\ f.version >= 2 => f.columns = WindColumns
    /\ f.version >= 3 => f.objects = Objects

(* The objects whose CREATE has run are there. *)
CreatingInv ==
    opening = "creating" =>
        /\ LeftOf(SCHEMA_SQL)
        /\ \A i \in 1 .. 4 - Len(script) : SCHEMA_SQL[i].name \in file.objects

(* What is left of the migration starts at the version of the file, after  *)
(* the columns that have been added.                                       *)
MigratingInv ==
    opening = "migrating" =>
        /\ file.objects = Objects
        /\ \/ /\ file.version = 0
              /\ Len(script) = 1 /\ script[1] = stamp(SCHEMA_VERSION)
           \/ /\ file.version = 1
              /\ LeftOf(_migrate(1)) /\ Len(script) \in 4 .. 7
              /\ \A i \in 1 .. 7 - Len(script) : _migrate(1)[i].name \in file.columns
           \/ /\ file.version = 2
              /\ LeftOf(_migrate(2)) /\ Len(script) \in 1 .. 3
           \/ /\ file.version = 3
              /\ Len(script) = 0

(* What a power failure brings back is of a later version exactly if the   *)
(* file is.                                                                *)
SameKind == file.version > SCHEMA_VERSION <=> durable.version > SCHEMA_VERSION

IInv ==
    /\ TypeOK
    /\ Sound(file) /\ Sound(durable) /\ SameKind
    /\ CreatingInv /\ MigratingInv
    /\ ServesCompleteSchema
    /\ RefusesOnlyUnfit

-----------------------------------------------------------------------------
(* The migrations *)

FromTwo == _MIGRATIONS[2] \o << stamp(2 + 1) >> \o << >>
FromOne == _MIGRATIONS[1] \o << stamp(1 + 1) >> \o FromTwo

(* What the recursion of _migrate comes to. *)
LEMMA Unfolded == _migrate(1) = FromOne /\ _migrate(2) = FromTwo
<1> DEFINE Body(g) == [v \in 1 .. 3 |-> IF v = 3 THEN << >>
                         ELSE _MIGRATIONS[v] \o << stamp(v + 1) >> \o g[v + 1]]
           known == [v \in 1 .. 3 |-> IF v = 3 THEN << >>
                                      ELSE IF v = 2 THEN FromTwo ELSE FromOne]
           Rest == CHOOSE g : g = Body(g)
<1>1. known = Body(known)
  BY DEF FromOne, FromTwo
<1>2. Rest = Body(Rest)
  <2> HIDE DEF Body, known
  <2> QED BY <1>1
<1> HIDE DEF Rest
<1>3. Rest[3] = << >>
  BY <1>2
<1>4. Rest[2] = FromTwo
  BY <1>2, <1>3 DEF FromTwo
<1>5. Rest[1] = FromOne
  <2>1. Rest[1] = _MIGRATIONS[1] \o << stamp(1 + 1) >> \o Rest[1 + 1]
    <3>1. 1 \in 1 .. 3 /\ 1 # 3
      OBVIOUS
    <3> QED BY <1>2, <3>1
  <2>2. Rest[1 + 1] = FromTwo
    BY <1>4
  <2> QED BY <2>1, <2>2 DEF FromOne
<1>6. \A from : _migrate(from) = Rest[from]
  BY DEF _migrate, SCHEMA_VERSION, Rest
<1> QED BY <1>4, <1>5, <1>6

LEMMA StatementTypes ==
    /\ \A o \in Objects : create(o) \in Statements
    /\ \A col \in WindColumns : add(col) \in Statements
    /\ \A v \in 1 .. 3 : stamp(v) \in Statements
  BY DEF Statements, create, add, stamp, SCHEMA_VERSION

(* Elements of a concatenation. *)
LEMMA InFirst ==
    ASSUME NEW s \in Seq(Statements), NEW t \in Seq(Statements), NEW i \in 1 .. Len(s)
    PROVE  (s \o t)[i] = s[i]
  BY ConcatProperties, LenProperties

LEMMA InSecond ==
    ASSUME NEW s \in Seq(Statements), NEW t \in Seq(Statements), NEW i \in 1 .. Len(t),
           NEW j, j = Len(s) + i
    PROVE  (s \o t)[j] = t[i]
<1>1. Len(s) \in Nat /\ Len(t) \in Nat
  BY LenProperties
<1>2. j \in 1 .. Len(s) + Len(t) /\ ~(j <= Len(s)) /\ j - Len(s) = i
  BY <1>1
<1>3. \A k \in 1 .. Len(s) + Len(t) :
         (s \o t)[k] = IF k <= Len(s) THEN s[k] ELSE t[k - Len(s)]
  BY ConcatProperties
<1>4. (s \o t)[j] = t[j - Len(s)]
  BY <1>2, <1>3, Zenon
<1> QED BY <1>2, <1>4, Zenon

LEMMA Joined ==
    ASSUME NEW s \in Seq(Statements), NEW t \in Seq(Statements),
           NEW m \in Nat, NEW n \in Nat, Len(s) = m, Len(t) = n
    PROVE  /\ s \o t \in Seq(Statements) /\ Len(s \o t) = m + n
           /\ \A i \in 1 .. m : (s \o t)[i] = s[i]
           /\ \A i \in 1 .. n : (s \o t)[m + i] = t[i]
<1>1. s \o t \in Seq(Statements) /\ Len(s \o t) = m + n
  BY ConcatProperties
<1>2. \A i \in 1 .. m : (s \o t)[i] = s[i]
  BY InFirst
<1>3. ASSUME NEW i \in 1 .. n PROVE (s \o t)[m + i] = t[i]
  <2>1. i \in 1 .. Len(t) /\ m + i = Len(s) + i
    OBVIOUS
  <2> QED BY <2>1, InSecond
<1> QED BY <1>1, <1>2, <1>3

LEMMA StepTwo ==
    /\ _migrate(2) \in Seq(Statements) /\ Len(_migrate(2)) = 3
    /\ _migrate(2)[1] = create("wind_readings")
    /\ _migrate(2)[2] = create("idx_wind")
    /\ _migrate(2)[3] = stamp(3)
<1> DEFINE tables == << create("wind_readings"), create("idx_wind") >>
           bump == << stamp(3) >>
<1>1. /\ tables \in Seq(Statements) /\ Len(tables) = 2
      /\ tables[1] = create("wind_readings") /\ tables[2] = create("idx_wind")
  BY StatementTypes DEF Objects
<1>2. bump \in Seq(Statements) /\ Len(bump) = 1 /\ bump[1] = stamp(3)
  BY StatementTypes
<1>3. _migrate(2) = tables \o bump \o << >>
  BY Unfolded DEF FromTwo, _MIGRATIONS
<1> HIDE DEF tables, bump
<1>4. _migrate(2) = tables \o bump
  BY <1>1, <1>2, <1>3, ConcatEmptySeq, ConcatProperties
<1>5. 1 \in Nat /\ 2 \in Nat
  OBVIOUS
<1>6. /\ tables \o bump \in Seq(Statements) /\ Len(tables \o bump) = 2 + 1
      /\ \A i \in 1 .. 2 : (tables \o bump)[i] = tables[i]
      /\ \A i \in 1 .. 1 : (tables \o bump)[2 + i] = bump[i]
  BY <1>1, <1>2, <1>5, Joined, Zenon
<1>7. /\ Len(tables \o bump) = 3
      /\ (tables \o bump)[1] = tables[1] /\ (tables \o bump)[2] = tables[2]
      /\ (tables \o bump)[3] = bump[1]
  BY <1>6
<1> QED BY <1>1, <1>2, <1>4, <1>6, <1>7, Zenon

LEMMA StepOne ==
    /\ _migrate(1) \in Seq(Statements) /\ Len(_migrate(1)) = 7
    /\ _migrate(1)[1] = add("wind_speed_ms")
    /\ _migrate(1)[2] = add("wind_gust_ms")
    /\ _migrate(1)[3] = add("wind_direction_deg")
    /\ _migrate(1)[4] = stamp(2)
    /\ \A i \in 1 .. 3 : _migrate(1)[4 + i] = _migrate(2)[i]
<1> DEFINE alters == << add("wind_speed_ms"), add("wind_gust_ms"), add("wind_direction_deg") >>
           bump == << stamp(2) >>
           first == alters \o bump
<1>1. /\ alters \in Seq(Statements) /\ Len(alters) = 3
      /\ alters[1] = add("wind_speed_ms") /\ alters[2] = add("wind_gust_ms")
      /\ alters[3] = add("wind_direction_deg")
  BY StatementTypes DEF WindColumns
<1>2. bump \in Seq(Statements) /\ Len(bump) = 1 /\ bump[1] = stamp(2)
  BY StatementTypes
<1>3. _migrate(1) = first \o _migrate(2)
  BY <1>1, <1>2, StepTwo, ConcatAssociative, Unfolded DEF FromOne, _MIGRATIONS
<1> HIDE DEF alters, bump
<1>4. 1 \in Nat /\ 3 \in Nat /\ 4 \in Nat /\ 3 + 1 = 4
  OBVIOUS
<1>5. /\ first \in Seq(Statements) /\ Len(first) = 3 + 1
      /\ \A i \in 1 .. 3 : first[i] = alters[i]
      /\ \A i \in 1 .. 1 : first[3 + i] = bump[i]
  BY <1>1, <1>2, <1>4, Joined, Zenon
<1> HIDE DEF first
<1>6. /\ first \o _migrate(2) \in Seq(Statements) /\ Len(first \o _migrate(2)) = 4 + 3
      /\ \A i \in 1 .. 4 : (first \o _migrate(2))[i] = first[i]
      /\ \A i \in 1 .. 3 : (first \o _migrate(2))[4 + i] = _migrate(2)[i]
  <2>1. Len(first) = 4
    BY <1>4, <1>5
  <2> QED BY <1>4, <1>5, <2>1, StepTwo, Joined, Zenon
<1>7. /\ first[1] = add("wind_speed_ms") /\ first[2] = add("wind_gust_ms")
      /\ first[3] = add("wind_direction_deg") /\ first[4] = stamp(2)
  BY <1>1, <1>2, <1>5
<1>8. /\ Len(first \o _migrate(2)) = 7
      /\ (first \o _migrate(2))[1] = first[1] /\ (first \o _migrate(2))[2] = first[2]
      /\ (first \o _migrate(2))[3] = first[3] /\ (first \o _migrate(2))[4] = first[4]
  BY <1>6
<1> QED BY <1>3, <1>6, <1>7, <1>8, Zenon

LEMMA Schema ==
    /\ SCHEMA_SQL \in Seq(Statements) /\ Len(SCHEMA_SQL) = 4
    /\ SCHEMA_SQL[1] = create("outdoor_readings")
    /\ SCHEMA_SQL[2] = create("idx_outdoor")
    /\ SCHEMA_SQL[3] = create("wind_readings")
    /\ SCHEMA_SQL[4] = create("idx_wind")
  BY StatementTypes DEF SCHEMA_SQL, Objects

LEMMA SchemaCreates ==
    \A k \in 1 .. 4 : SCHEMA_SQL[k].op = "create" /\ SCHEMA_SQL[k].name \in Objects
<1> TAKE k \in 1 .. 4
<1>1. k = 1 \/ k = 2 \/ k = 3 \/ k = 4
  OBVIOUS
<1>2. \A o : create(o).op = "create" /\ create(o).name = o
  BY DEF create
<1> QED BY <1>1, <1>2, Schema DEF Objects

(* Taking a statement off the script leaves it the end of what it was.     *)
LEMMA LeftOfNext ==
    ASSUME NEW t \in Seq(Statements), script \in Seq(Statements), script # << >>, LeftOf(t)
    PROVE  /\ Len(script) \in 1 .. Len(t)
           /\ Head(script) \in Statements
           /\ Head(script) = t[Len(t) - Len(script) + 1]
           /\ Tail(script) \in Seq(Statements) /\ Len(Tail(script)) = Len(script) - 1
           /\ \A i \in 1 .. Len(script) - 1 :
                 Tail(script)[i] = t[Len(t) - (Len(script) - 1) + i]
<1>1. /\ Tail(script) \in Seq(Statements) /\ Len(Tail(script)) = Len(script) - 1
      /\ \A i \in 1 .. Len(script) - 1 : Tail(script)[i] = script[i + 1]
  BY HeadTailProperties
<1>2. /\ Len(script) \in Nat \ {0} /\ Len(t) \in Nat
      /\ Head(script) = script[1] /\ script[1] \in Statements
  BY EmptySeq, LenProperties, HeadTailProperties
<1>3. Len(script) \in 1 .. Len(t) /\ 1 \in 1 .. Len(script)
  BY <1>2 DEF LeftOf
<1>4. Head(script) = t[Len(t) - Len(script) + 1]
  BY <1>2, <1>3 DEF LeftOf
<1>5. ASSUME NEW i \in 1 .. Len(script) - 1
      PROVE  Tail(script)[i] = t[Len(t) - (Len(script) - 1) + i]
  <2>1. i + 1 \in 1 .. Len(script)
    BY <1>2
  <2>2. Len(t) - Len(script) + (i + 1) = Len(t) - (Len(script) - 1) + i
    BY <1>2
  <2>3. script[i + 1] = t[Len(t) - Len(script) + (i + 1)]
    BY <2>1 DEF LeftOf
  <2> QED BY <1>1, <2>2, <2>3
<1> QED BY <1>1, <1>2, <1>3, <1>4, <1>5

-----------------------------------------------------------------------------
(* The inductive invariant *)

LEMMA TypesOfScript == TypeOK => script \in Seq(Statements)
  BY DEF TypeOK, Statements

LEMMA InitInvariant == Init => IInv
<1> SUFFICES ASSUME Init PROVE IInv
  OBVIOUS
<1>1. Fresh \in Files /\ Sound(Fresh) /\ Fresh.version <= SCHEMA_VERSION
  BY SweepAssumption DEF Fresh, Files, Sound, SCHEMA_VERSION
<1>2. \A f \in Inherited : f \in Files /\ Sound(f)
  BY SweepAssumption DEF Inherited, Files, Sound, Outdoor, Objects, Logs, WindColumns
<1>3. file \in Files /\ Sound(file) /\ durable = file
  BY <1>1, <1>2 DEF Init
<1>4. opening = "closed" /\ script = << >>
  BY DEF Init
<1>5. TypeOK
  BY <1>3, <1>4 DEF TypeOK
<1> QED
  BY <1>3, <1>4, <1>5
  DEF IInv, SameKind, CreatingInv, MigratingInv, ServesCompleteSchema, RefusesOnlyUnfit

LEMMA ConnectKeeps == IInv /\ Connect => IInv'
<1> SUFFICES ASSUME IInv, Connect PROVE IInv'
  OBVIOUS
<1> USE DEF Connect, IInv
<1>1. TypeOK'
  BY Schema DEF TypeOK, Statements
<1>2. CreatingInv'
  BY Schema DEF CreatingInv, LeftOf
<1>3. (Sound(file) /\ Sound(durable) /\ SameKind)'
  BY DEF Sound, SameKind
<1> QED
  BY <1>1, <1>2, <1>3 DEF MigratingInv, ServesCompleteSchema, RefusesOnlyUnfit

(* A statement of the schema. *)
LEMMA CreateKeeps ==
    ASSUME IInv, Execute, opening = "creating"
    PROVE  IInv'
<1> USE DEF IInv
<1> DEFINE n == Len(script)
           h == Head(script)
<1>1. script \in Seq(Statements) /\ LeftOf(SCHEMA_SQL) /\ script # << >>
  BY TypesOfScript DEF CreatingInv, Execute
<1>2. /\ n \in 1 .. 4 /\ h = SCHEMA_SQL[4 - n + 1]
      /\ Tail(script) \in Seq(Statements) /\ Len(Tail(script)) = n - 1
      /\ \A i \in 1 .. n - 1 : Tail(script)[i] = SCHEMA_SQL[4 - (n - 1) + i]
  BY <1>1, LeftOfNext, Schema
<1>3. 4 - n + 1 \in 1 .. 4
  BY <1>2
<1>4. h.op = "create" /\ h.name \in Objects
  BY <1>2, <1>3, SchemaCreates
<1>5. script' = Tail(script) /\ file' = Effect(h) /\ opening' = opening /\ durable' = durable
  BY <1>4 DEF Execute, Raises
<1>6. file' = [file EXCEPT !.objects = @ \cup {h.name},
                           !.columns = IF h.name = "outdoor_readings"
                                          /\ h.name \notin file.objects
                                       THEN WindColumns ELSE @]
  BY <1>4, <1>5 DEF Effect
<1>7. file \in Files
  BY DEF TypeOK
<1>8. /\ file' \in Files /\ file'.version = file.version
      /\ file'.objects = file.objects \cup {h.name}
      /\ file'.columns = IF h.name = "outdoor_readings" /\ h.name \notin file.objects
                         THEN WindColumns ELSE file.columns
  BY <1>4, <1>6, <1>7 DEF Files
<1>9. /\ script' \in Seq(Statements) /\ Len(script') = n - 1
      /\ \A i \in 1 .. Len(script') : script'[i] = SCHEMA_SQL[4 - Len(script') + i]
  BY <1>2, <1>5
<1>10. TypeOK'
  BY <1>5, <1>8, <1>9 DEF TypeOK, Statements
<1>11. Sound(file)'
  BY <1>4, <1>7, <1>8 DEF Sound, Outdoor, Files
<1>12. CreatingInv'
  <2>1. \A i \in 1 .. 4 - Len(script') : SCHEMA_SQL[i].name \in file'.objects
    <3> TAKE i \in 1 .. 4 - Len(script')
    <3>1. i \in 1 .. 4 - n \/ i = 4 - n + 1
      BY <1>2, <1>9
    <3> QED BY <3>1, <1>2, <1>8 DEF CreatingInv
  <2> QED BY <2>1, <1>2, <1>9, Schema DEF CreatingInv, LeftOf
<1>13. SameKind' /\ Sound(durable)'
  BY <1>5, <1>8 DEF SameKind, Sound
<1> QED
  BY <1>5, <1>10, <1>11, <1>12, <1>13
  DEF MigratingInv, ServesCompleteSchema, RefusesOnlyUnfit
(* What the three kinds of statement do to the file. *)
LEMMA Effects ==
    ASSUME file \in Files
    PROVE  /\ \A v \in 1 .. 3 :
                /\ ~Raises(stamp(v)) /\ Effect(stamp(v)) \in Files
                /\ Effect(stamp(v)).version = v
                /\ Effect(stamp(v)).objects = file.objects
                /\ Effect(stamp(v)).columns = file.columns
           /\ \A c \in WindColumns :
                /\ Raises(add(c)) <=> c \in file.columns
                /\ Effect(add(c)) \in Files
                /\ Effect(add(c)).version = file.version
                /\ Effect(add(c)).objects = file.objects
                /\ Effect(add(c)).columns = file.columns \cup {c}
           /\ \A o \in Objects :
                o # "outdoor_readings" =>
                    ~Raises(create(o)) /\ Effect(create(o)) \in Files
                    /\ Effect(create(o)).version = file.version
                    /\ Effect(create(o)).objects = file.objects \cup {o}
                    /\ Effect(create(o)).columns = file.columns
<1>1. ASSUME NEW v \in 1 .. 3
      PROVE  /\ ~Raises(stamp(v)) /\ Effect(stamp(v)) \in Files
             /\ Effect(stamp(v)).version = v
             /\ Effect(stamp(v)).objects = file.objects
             /\ Effect(stamp(v)).columns = file.columns
  <2>1. Effect(stamp(v)) = [file EXCEPT !.version = v]
    BY DEF Effect, stamp
  <2>2. ~Raises(stamp(v))
    BY DEF Raises, stamp
  <2> QED BY <2>1, <2>2 DEF Files
<1>2. ASSUME NEW c \in WindColumns
      PROVE  /\ Raises(add(c)) <=> c \in file.columns
             /\ Effect(add(c)) \in Files
             /\ Effect(add(c)).version = file.version
             /\ Effect(add(c)).objects = file.objects
             /\ Effect(add(c)).columns = file.columns \cup {c}
  <2>1. Effect(add(c)) = [file EXCEPT !.columns = @ \cup {c}]
    BY DEF Effect, add
  <2>2. Raises(add(c)) <=> c \in file.columns
    BY DEF Raises, add
  <2> QED BY <2>1, <2>2 DEF Files
<1>3. ASSUME NEW o \in Objects, o # "outdoor_readings"
      PROVE  /\ ~Raises(create(o)) /\ Effect(create(o)) \in Files
             /\ Effect(create(o)).version = file.version
             /\ Effect(create(o)).objects = file.objects \cup {o}
             /\ Effect(create(o)).columns = file.columns
  <2>1. Effect(create(o)) = [file EXCEPT !.objects = @ \cup {o}, !.columns = @]
    BY <1>3 DEF Effect, create
  <2>2. ~Raises(create(o))
    BY DEF Raises, create
  <2> QED BY <2>1, <2>2 DEF Files
<1> QED BY <1>1, <1>2, <1>3

(* Stamping a file that was just created. *)
LEMMA StampNewKeeps ==
    ASSUME IInv, Execute, opening = "migrating", file.version = 0
    PROVE  IInv'
<1> USE DEF IInv
<1>1. /\ file \in Files /\ durable \in Files /\ script \in Seq(Statements)
      /\ script # << >> /\ Len(script) = 1 /\ script[1] = stamp(3)
      /\ file.objects = Objects
  BY TypesOfScript DEF TypeOK, MigratingInv, Execute, SCHEMA_VERSION
<1>2. /\ Head(script) = stamp(3) /\ Tail(script) \in Seq(Statements) /\ Len(Tail(script)) = 0
  BY <1>1, HeadTailProperties
<1>3. /\ file' = Effect(stamp(3)) /\ script' = Tail(script)
      /\ opening' = opening /\ durable' = durable
  BY <1>1, <1>2, Effects DEF Execute
<1>4. /\ file' \in Files /\ file'.version = 3
      /\ file'.objects = file.objects /\ file'.columns = file.columns
  BY <1>1, <1>3, Effects
<1>5. file.columns = WindColumns
  BY <1>1 DEF Sound, Objects
<1>6. TypeOK'
  BY <1>1, <1>2, <1>3, <1>4 DEF TypeOK, Statements
<1>7. (Sound(file) /\ Sound(durable) /\ SameKind)'
  BY <1>1, <1>3, <1>4, <1>5 DEF Sound, SameKind, SCHEMA_VERSION, Outdoor, Objects
<1>8. MigratingInv'
  BY <1>1, <1>2, <1>3, <1>4 DEF MigratingInv
<1> QED
  BY <1>3, <1>6, <1>7, <1>8 DEF CreatingInv, ServesCompleteSchema, RefusesOnlyUnfit

(* A statement of the step from v1 to v2. *)
LEMMA StepOneKeeps ==
    ASSUME IInv, Execute, opening = "migrating", file.version = 1
    PROVE  IInv'
<1> USE DEF IInv
<1> DEFINE n == Len(script)
           h == Head(script)
<1>1. /\ file \in Files /\ durable \in Files /\ script \in Seq(Statements) /\ script # << >>
      /\ LeftOf(_migrate(1)) /\ n \in 4 .. 7 /\ file.objects = Objects
      /\ \A i \in 1 .. 7 - n : _migrate(1)[i].name \in file.columns
  BY TypesOfScript DEF TypeOK, MigratingInv, Execute
<1>2. /\ h = _migrate(1)[7 - n + 1]
      /\ Tail(script) \in Seq(Statements) /\ Len(Tail(script)) = n - 1
      /\ \A i \in 1 .. n - 1 : Tail(script)[i] = _migrate(1)[7 - (n - 1) + i]
  BY <1>1, LeftOfNext, StepOne
<1> HIDE DEF n, h
<1>3. ASSUME n \in 5 .. 7 PROVE IInv'
  <2>1. /\ h = add(h.name) /\ h.name \in WindColumns
        /\ _migrate(1)[7 - n + 1].name = h.name
    <3>1. 7 - n + 1 = 1 \/ 7 - n + 1 = 2 \/ 7 - n + 1 = 3
      BY <1>3
    <3>2. \A c : add(c).name = c
      BY DEF add
    <3>3. h = add("wind_speed_ms") \/ h = add("wind_gust_ms") \/ h = add("wind_direction_deg")
      BY <3>1, <1>2, StepOne
    <3> QED BY <3>2, <3>3, <1>2 DEF WindColumns
  <2>2. CASE h.name \in file.columns
    <3>1. opening' = "refused" /\ script' = << >> /\ file' = file /\ durable' = durable
      BY <1>1, <2>1, <2>2, Effects DEF Execute, h
    <3>2. HalfAltered(file)'
      BY <2>2, <3>1 DEF HalfAltered
    <3>3. (TypeOK /\ Sound(file) /\ Sound(durable) /\ SameKind)'
      BY <3>1, EmptySeq DEF TypeOK, Sound, SameKind
    <3> QED
      BY <3>1, <3>2, <3>3
      DEF CreatingInv, MigratingInv, ServesCompleteSchema, RefusesOnlyUnfit
  <2>3. CASE h.name \notin file.columns
    <3>1. /\ file' = Effect(h) /\ script' = Tail(script)
          /\ opening' = opening /\ durable' = durable
      BY <1>1, <2>1, <2>3, Effects DEF Execute, h
    <3>2. /\ file' \in Files /\ file'.version = 1
          /\ file'.objects = file.objects /\ file'.columns = file.columns \cup {h.name}
      BY <1>1, <2>1, <3>1, Effects
    <3>3. TypeOK'
      BY <1>1, <1>2, <3>1, <3>2 DEF TypeOK, Statements
    <3>4. (Sound(file) /\ Sound(durable) /\ SameKind)'
      BY <1>1, <3>1, <3>2 DEF Sound, SameKind, SCHEMA_VERSION, Outdoor, Objects
    <3>5. \A i \in 1 .. 7 - Len(script') : _migrate(1)[i].name \in file'.columns
      <4> TAKE i \in 1 .. 7 - Len(script')
      <4>1. i \in 1 .. 7 - n \/ i = 7 - n + 1
        BY <1>2, <1>3, <3>1
      <4> QED BY <4>1, <1>1, <2>1, <3>2
    <3>6. LeftOf(_migrate(1))' /\ Len(script') \in 4 .. 7
      <4>1. /\ Len(script') = n - 1 /\ Len(_migrate(1)) = 7
            /\ \A i \in 1 .. n - 1 : script'[i] = _migrate(1)[7 - (n - 1) + i]
        BY <1>2, <3>1, StepOne
      <4>2. n - 1 <= 7 /\ n - 1 \in 4 .. 7
        BY <1>3
      <4>3. \A i \in 1 .. Len(script') :
               script'[i] = _migrate(1)[Len(_migrate(1)) - Len(script') + i]
        BY <4>1, Zenon
      <4> QED BY <4>1, <4>2, <4>3 DEF LeftOf
    <3>7. MigratingInv'
      BY <1>1, <3>1, <3>2, <3>5, <3>6 DEF MigratingInv
    <3> QED
      BY <3>1, <3>3, <3>4, <3>7 DEF CreatingInv, ServesCompleteSchema, RefusesOnlyUnfit
  <2> QED BY <2>2, <2>3
<1>4. ASSUME n = 4 PROVE IInv'
  <2>1. h = stamp(2)
    BY <1>2, <1>4, StepOne
  <2>2. /\ file' = Effect(stamp(2)) /\ script' = Tail(script)
        /\ opening' = opening /\ durable' = durable
    BY <1>1, <2>1, Effects DEF Execute, h
  <2>3. /\ file' \in Files /\ file'.version = 2
        /\ file'.objects = file.objects /\ file'.columns = file.columns
    BY <1>1, <2>2, Effects
  <2>4. file.columns = WindColumns
    <3>1. /\ _migrate(1)[1].name \in file.columns /\ _migrate(1)[2].name \in file.columns
          /\ _migrate(1)[3].name \in file.columns
      BY <1>1, <1>4
    <3>2. \A c : add(c).name = c
      BY DEF add
    <3>3. file.columns \subseteq WindColumns
      BY <1>1 DEF Files
    <3> QED BY <3>1, <3>2, <3>3, StepOne DEF WindColumns
  <2>5. TypeOK'
    BY <1>1, <1>2, <2>2, <2>3 DEF TypeOK, Statements
  <2>6. (Sound(file) /\ Sound(durable) /\ SameKind)'
    BY <1>1, <2>2, <2>3, <2>4 DEF Sound, SameKind, SCHEMA_VERSION, Outdoor, Objects
  <2>7. /\ Len(script') = 3
        /\ \A i \in 1 .. 3 : script'[i] = _migrate(2)[i]
    <3>1. Len(script') = 3
      BY <1>2, <1>4, <2>2
    <3>2. ASSUME NEW i \in 1 .. 3 PROVE script'[i] = _migrate(2)[i]
      <4>1. i \in 1 .. n - 1 /\ 7 - (n - 1) + i = 4 + i
        BY <1>4
      <4>2. Tail(script)[i] = _migrate(1)[4 + i]
        BY <1>2, <4>1
      <4> QED BY <4>2, <2>2, StepOne
    <3> QED BY <3>1, <3>2
  <2>8. MigratingInv'
    <3>1. LeftOf(_migrate(2))'
      BY <2>7, StepTwo DEF LeftOf
    <3> QED BY <1>1, <2>2, <2>3, <2>7, <3>1 DEF MigratingInv
  <2> QED
    BY <2>2, <2>5, <2>6, <2>8 DEF CreatingInv, ServesCompleteSchema, RefusesOnlyUnfit
<1> QED BY <1>1, <1>3, <1>4
(* A statement of the step from v2 to v3. *)
LEMMA StepTwoKeeps ==
    ASSUME IInv, Execute, opening = "migrating", file.version = 2
    PROVE  IInv'
<1> USE DEF IInv
<1> DEFINE n == Len(script)
           h == Head(script)
<1>1. /\ file \in Files /\ durable \in Files /\ script \in Seq(Statements) /\ script # << >>
      /\ LeftOf(_migrate(2)) /\ n \in 1 .. 3 /\ file.objects = Objects
      /\ file.columns = WindColumns
  BY TypesOfScript DEF TypeOK, MigratingInv, Execute, Sound
<1>2. /\ h = _migrate(2)[3 - n + 1]
      /\ Tail(script) \in Seq(Statements) /\ Len(Tail(script)) = n - 1
      /\ \A i \in 1 .. n - 1 : Tail(script)[i] = _migrate(2)[3 - (n - 1) + i]
  BY <1>1, LeftOfNext, StepTwo
<1> HIDE DEF n, h
<1>3. \/ n \in 2 .. 3 /\ \E o \in Objects : o # "outdoor_readings" /\ h = create(o)
      \/ n = 1 /\ h = stamp(3)
  <2>1. CASE n = 3
    BY <1>2, <2>1, StepTwo DEF Objects
  <2>2. CASE n = 2
    BY <1>2, <2>2, StepTwo DEF Objects
  <2>3. CASE n = 1
    BY <1>2, <2>3, StepTwo
  <2> QED BY <1>1, <2>1, <2>2, <2>3
<1>4. /\ file' = Effect(h) /\ script' = Tail(script)
      /\ opening' = opening /\ durable' = durable
  BY <1>1, <1>3, Effects DEF Execute, h
<1>5. /\ file' \in Files /\ file'.objects = Objects /\ file'.columns = WindColumns
      /\ IF n = 1 THEN file'.version = 3 ELSE file'.version = 2
  <2>1. CASE n = 1 /\ h = stamp(3)
    BY <1>1, <1>4, <2>1, Effects
  <2>2. CASE n \in 2 .. 3 /\ \E o \in Objects : o # "outdoor_readings" /\ h = create(o)
    <3>1. PICK o \in Objects : o # "outdoor_readings" /\ h = create(o)
      BY <2>2
    <3>2. Objects \cup {o} = Objects
      OBVIOUS
    <3>3. n # 1
      BY <2>2
    <3> QED BY <1>1, <1>4, <3>1, <3>2, <3>3, Effects
  <2> QED BY <1>3, <2>1, <2>2
<1>6. TypeOK'
  BY <1>1, <1>2, <1>4, <1>5 DEF TypeOK, Statements
<1>7. (Sound(file) /\ Sound(durable) /\ SameKind)'
  BY <1>1, <1>4, <1>5 DEF Sound, SameKind, SCHEMA_VERSION, Outdoor, Objects
<1>8. MigratingInv'
  <2>1. CASE n = 1
    BY <1>2, <1>4, <1>5, <2>1 DEF MigratingInv
  <2>2. CASE n \in 2 .. 3
    <3>1. /\ Len(script') = n - 1 /\ Len(_migrate(2)) = 3
          /\ \A i \in 1 .. n - 1 : script'[i] = _migrate(2)[3 - (n - 1) + i]
      BY <1>2, <1>4, StepTwo
    <3>2. n - 1 <= 3 /\ n - 1 \in 1 .. 3 /\ n # 1
      BY <2>2
    <3>3. \A i \in 1 .. Len(script') :
             script'[i] = _migrate(2)[Len(_migrate(2)) - Len(script') + i]
      BY <3>1, Zenon
    <3>4. LeftOf(_migrate(2))' /\ Len(script') \in 1 .. 3
      BY <3>1, <3>2, <3>3 DEF LeftOf
    <3> QED BY <1>4, <1>5, <3>2, <3>4 DEF MigratingInv
  <2> QED BY <1>3, <2>1, <2>2
<1> QED
  BY <1>4, <1>6, <1>7, <1>8 DEF CreatingInv, ServesCompleteSchema, RefusesOnlyUnfit

LEMMA ExecuteKeeps == IInv /\ Execute => IInv'
<1> SUFFICES ASSUME IInv, Execute PROVE IInv'
  OBVIOUS
<1>1. CASE opening = "creating"
  BY <1>1, CreateKeeps
<1>2. CASE opening = "migrating"
  <2>1. file.version = 0 \/ file.version = 1 \/ file.version = 2
    <3>1. script # << >> /\ script \in Seq(Statements)
      BY TypesOfScript DEF IInv, Execute
    <3>2. Len(script) # 0
      BY <3>1, EmptySeq
    <3> QED BY <1>2, <3>2 DEF IInv, MigratingInv
  <2> QED BY <1>2, <2>1, StampNewKeeps, StepOneKeeps, StepTwoKeeps
<1> QED BY <1>1, <1>2 DEF Execute

LEMMA ReadVersionKeeps == IInv /\ ReadVersion => IInv'
<1> SUFFICES ASSUME IInv, ReadVersion PROVE IInv'
  OBVIOUS
<1> USE DEF IInv
<1>1. /\ file \in Files /\ script = << >> /\ Len(script) = 0 /\ opening = "creating"
      /\ UNCHANGED <<file, durable>>
  BY EmptySeq DEF TypeOK, ReadVersion
<1>2. file.objects = Objects
  <2>1. \A i \in 1 .. 4 : SCHEMA_SQL[i].name \in file.objects
    BY <1>1 DEF CreatingInv
  <2>2. \A o : create(o).name = o
    BY DEF create
  <2>3. /\ SCHEMA_SQL[1].name \in file.objects /\ SCHEMA_SQL[2].name \in file.objects
        /\ SCHEMA_SQL[3].name \in file.objects /\ SCHEMA_SQL[4].name \in file.objects
    BY <2>1
  <2>4. Objects \subseteq file.objects
    BY <2>2, <2>3, Schema DEF Objects
  <2> QED BY <1>1, <2>4 DEF Files
<1>3. (Sound(file) /\ Sound(durable) /\ SameKind)'
  BY <1>1 DEF Sound, SameKind
<1>4. /\ script' \in Seq(Statements)
      /\ opening' = IF file.version > 3 THEN "refused" ELSE "migrating"
      /\ \/ file.version = 0 /\ Len(script') = 1 /\ script'[1] = stamp(3)
         \/ file.version = 1 /\ script' = _migrate(1)
         \/ file.version = 2 /\ script' = _migrate(2)
         \/ file.version \in {3, 4} /\ Len(script') = 0
  <2>1. file.version \in 0 .. 4
    BY <1>1 DEF Files
  <2>2. opening' = IF file.version > 3 THEN "refused" ELSE "migrating"
    BY DEF ReadVersion, TooNew, SCHEMA_VERSION
  <2>3. CASE file.version = 0
    BY <2>2, <2>3, StatementTypes DEF ReadVersion, SCHEMA_VERSION
  <2>4. CASE file.version = 1
    BY <2>2, <2>4, StepOne DEF ReadVersion, SCHEMA_VERSION
  <2>5. CASE file.version = 2
    BY <2>2, <2>5, StepTwo DEF ReadVersion, SCHEMA_VERSION
  <2>6. CASE file.version \in {3, 4}
    BY <2>2, <2>6, EmptySeq DEF ReadVersion, SCHEMA_VERSION
  <2> QED BY <2>1, <2>3, <2>4, <2>5, <2>6
<1>5. TypeOK'
  BY <1>1, <1>4 DEF TypeOK, Statements
<1>6. MigratingInv'
  <2>1. CASE file.version = 0
    BY <1>1, <1>2, <1>4, <2>1 DEF MigratingInv, SCHEMA_VERSION
  <2>2. CASE file.version = 1
    <3>1. LeftOf(_migrate(1))' /\ Len(script') = 7
      BY <1>4, <2>2, StepOne DEF LeftOf
    <3> QED BY <1>1, <1>2, <2>2, <3>1 DEF MigratingInv
  <2>3. CASE file.version = 2
    <3>1. LeftOf(_migrate(2))' /\ Len(script') = 3
      BY <1>4, <2>3, StepTwo DEF LeftOf
    <3> QED BY <1>1, <1>2, <2>3, <3>1 DEF MigratingInv
  <2>4. CASE file.version \in {3, 4}
    BY <1>1, <1>2, <1>4, <2>4 DEF MigratingInv
  <2> QED BY <1>4, <2>1, <2>2, <2>3, <2>4
<1> QED
  BY <1>1, <1>3, <1>4, <1>5, <1>6
  DEF CreatingInv, ServesCompleteSchema, RefusesOnlyUnfit, SCHEMA_VERSION

LEMMA OpenedKeeps == IInv /\ Opened => IInv'
<1> SUFFICES ASSUME IInv, Opened PROVE IInv'
  OBVIOUS
<1> USE DEF IInv, Opened
<1>1. Len(script) = 0
  BY EmptySeq
<1>2. (TypeOK /\ Sound(file) /\ Sound(durable) /\ SameKind)'
  BY DEF TypeOK, Sound, SameKind
<1>3. ServesCompleteSchema'
  BY <1>1
  DEF MigratingInv, Sound, ServesCompleteSchema, CompleteSchema, SCHEMA_VERSION
<1> QED BY <1>2, <1>3 DEF CreatingInv, MigratingInv, RefusesOnlyUnfit

LEMMA InsertKeeps ==
    ASSUME NEW log \in Logs, NEW rows \in {0, 1}, IInv, Insert(log, rows)
    PROVE  IInv'
<1> USE DEF IInv
<1>1. file \in Files /\ opening = "open" /\ UNCHANGED <<durable, opening, script>>
  BY DEF TypeOK, Insert, Insertable
<1>2. /\ file' \in Files /\ file'.version = file.version
      /\ file'.objects = file.objects /\ file'.columns = file.columns
  <2>1. file.swept + rows \in 0 .. 2 * MaxSweep
    <3>1. file.swept \in Nat
      BY <1>1, SweepAssumption DEF Files
    <3>2. rows \in Nat
      OBVIOUS
    <3>3. 2 * MaxSweep \in Nat /\ file.swept + rows <= 2 * MaxSweep
      BY SweepAssumption DEF Insert
    <3> QED BY <3>1, <3>2, <3>3
  <2> DEFINE swept == file.swept + rows
             cap == 2 * MaxSweep
  <2>2. /\ file' = [file EXCEPT !.logged = @ \cup {log}, !.swept = swept]
        /\ swept \in 0 .. cap
    BY <2>1 DEF Insert
  <2>3. file \in [version : 0 .. 4, objects : SUBSET Objects, columns : SUBSET WindColumns,
                 logged : SUBSET Logs, swept : 0 .. cap]
    BY <1>1 DEF Files
  <2> HIDE DEF swept, cap
  <2>4. /\ file' \in [version : 0 .. 4, objects : SUBSET Objects, columns : SUBSET WindColumns,
                      logged : SUBSET Logs, swept : 0 .. cap]
        /\ file'.version = file.version
        /\ file'.objects = file.objects /\ file'.columns = file.columns
    BY <2>2, <2>3
  <2> QED BY <2>4 DEF Files, cap
<1>3. (TypeOK /\ Sound(file) /\ Sound(durable) /\ SameKind /\ ServesCompleteSchema)'
  BY <1>1, <1>2 DEF TypeOK, Sound, SameKind, ServesCompleteSchema, CompleteSchema
<1> QED BY <1>1, <1>3 DEF CreatingInv, MigratingInv, RefusesOnlyUnfit

LEMMA CheckpointKeeps == IInv /\ Checkpoint => IInv'
<1> SUFFICES ASSUME IInv, Checkpoint PROVE IInv'
  OBVIOUS
<1> USE DEF IInv, Checkpoint
<1>1. (TypeOK /\ Sound(file) /\ Sound(durable) /\ SameKind)'
  BY DEF TypeOK, Sound, SameKind
<1>2. CreatingInv'
  BY DEF CreatingInv, LeftOf
<1>3. MigratingInv'
  BY DEF MigratingInv, LeftOf
<1> QED
  BY <1>1, <1>2, <1>3
  DEF ServesCompleteSchema, CompleteSchema, RefusesOnlyUnfit, HalfAltered

(* Close, Crash, PowerFailure: whatever is left of the file is sound.      *)
LEMMA EndKeeps == IInv /\ (Close \/ Crash \/ PowerFailure) => IInv'
<1> SUFFICES ASSUME IInv, Close \/ Crash \/ PowerFailure PROVE IInv'
  OBVIOUS
<1> USE DEF IInv
<1>1. /\ opening' = "closed" /\ script' \in {script, << >>}
      /\ file' \in {file, durable} /\ durable' \in {file, durable}
  BY DEF Close, Crash, PowerFailure
<1>2. TypeOK'
  BY <1>1, TypesOfScript, EmptySeq DEF TypeOK, Statements
<1>3. (Sound(file) /\ Sound(durable) /\ SameKind)'
  BY <1>1 DEF Sound, SameKind
<1> QED
  BY <1>1, <1>2, <1>3 DEF CreatingInv, MigratingInv, ServesCompleteSchema, RefusesOnlyUnfit

LEMMA NextKeeps == IInv /\ [Next]_vars => IInv'
<1> SUFFICES ASSUME IInv, [Next]_vars PROVE IInv'
  OBVIOUS
<1>1. CASE InitDb
  BY <1>1, ConnectKeeps, ExecuteKeeps, ReadVersionKeeps, OpenedKeeps DEF InitDb
<1>2. ASSUME NEW log \in Logs, Insert(log, 0) PROVE IInv'
  BY <1>2, InsertKeeps
<1>3. CASE Insert("outdoor", 1)
  BY <1>3, InsertKeeps DEF Logs
<1>4. CASE Checkpoint
  BY <1>4, CheckpointKeeps
<1>5. CASE Close \/ Crash \/ PowerFailure
  BY <1>5, EndKeeps
<1>6. CASE UNCHANGED vars
  <2>1. UNCHANGED <<file, durable, opening, script>>
    BY <1>6 DEF vars
  <2> QED
    BY <2>1
    DEF IInv, TypeOK, Sound, SameKind, CreatingInv, MigratingInv, LeftOf,
        ServesCompleteSchema, CompleteSchema, RefusesOnlyUnfit, HalfAltered
<1> QED BY <1>1, <1>2, <1>3, <1>4, <1>5, <1>6 DEF Next

THEOREM Invariance == Spec => []IInv
  BY InitInvariant, NextKeeps, PTL DEF Spec

-----------------------------------------------------------------------------
(* What follows *)

(* The file and the statements still to run stay what the code writes      *)
(* (db.py:26-151).                                                         *)
THEOREM TypeCorrect == Spec => []TypeOK
<1>1. IInv => TypeOK
  BY DEF IInv
<1> QED BY <1>1, Invariance, PTL

(* A connection that init_db returns has the whole schema, whatever file   *)
(* was found and wherever its migration was cut short (db.py:117-151).     *)
THEOREM SchemaIsComplete == Spec => []ServesCompleteSchema
<1>1. IInv => ServesCompleteSchema
  BY DEF IInv
<1> QED BY <1>1, Invariance, PTL

(* init_db fails only on a file of a later version and on a v1 file that   *)
(* was altered in part (db.py:117-151).                                    *)
THEOREM RefusalIsDeserved == Spec => []RefusesOnlyUnfit
<1>1. IInv => RefusesOnlyUnfit
  BY DEF IInv
<1> QED BY <1>1, Invariance, PTL

(* A file of a later version is never served, and its version is never     *)
(* touched, by a power failure either (db.py:140-147).                     *)
THEOREM NewerIsSafe == Spec => NewerIsLeftAlone
<1>1. IInv /\ [Next]_vars
        => [file.version > SCHEMA_VERSION =>
              opening' # "open" /\ file'.version = file.version]_vars
  <2> SUFFICES ASSUME IInv, Next, file.version > SCHEMA_VERSION
               PROVE  opening' # "open" /\ file'.version = file.version
    BY DEF vars
  <2>1. /\ file \in Files /\ durable \in Files
        /\ file.version = 4 /\ durable.version = 4
    BY DEF IInv, TypeOK, SameKind, SCHEMA_VERSION, Files
  <2>2. opening # "open" /\ opening # "migrating"
    BY <2>1 DEF IInv, ServesCompleteSchema, CompleteSchema, MigratingInv, SCHEMA_VERSION
  <2>3. CASE Execute
    <3>1. script \in Seq(Statements) /\ script # << >> /\ LeftOf(SCHEMA_SQL)
      BY <2>2, <2>3, TypesOfScript DEF IInv, Execute, CreatingInv
    <3> DEFINE n == Len(script)
    <3>2. n \in 1 .. 4 /\ Head(script) = SCHEMA_SQL[4 - n + 1]
      BY <3>1, LeftOfNext, Schema
    <3> HIDE DEF n
    <3>3. 4 - n + 1 \in 1 .. 4
      BY <3>2
    <3>4. Head(script).op = "create"
      BY <3>2, <3>3, SchemaCreates
    <3>5. file' = Effect(Head(script)) /\ opening' = opening
      BY <2>3, <3>4 DEF Execute, Raises
    <3>6. file'.version = file.version
      BY <2>1, <3>4, <3>5 DEF Effect, Files
    <3> QED BY <2>2, <3>5, <3>6
  <2>4. CASE Connect \/ ReadVersion \/ Opened \/ Checkpoint \/ Crash \/ PowerFailure
    BY <2>1, <2>2, <2>4 DEF Connect, ReadVersion, Opened, Checkpoint, Crash, PowerFailure
  <2>5. CASE Close \/ \E log \in Logs : Insert(log, 0) \/ Insert(log, 1)
    BY <2>2, <2>5 DEF Close, Insert, Insertable
  <2> QED BY <2>3, <2>4, <2>5 DEF Next, InitDb, Logs
<1> QED BY <1>1, Invariance, PTL DEF Spec, NewerIsLeftAlone
=============================================================================
