--------------------------- MODULE MigrationsProofs ---------------------------
(***************************************************************************)
(* What runs of alembic do to accounts and memberships, for any number of  *)
(* them, and whether or not the slip of the downgrade of 0007 is repaired. *)
(*                                                                         *)
(* A run folds a script over the database, so everything here rests on     *)
(* RunSteps: a run is a row of databases, each made from the one before by *)
(* one operation.  Its proof is an induction over the length of the        *)
(* script, argued with the least number of a set of counterexamples        *)
(* (LeastNumber).  On top of it, most operations touch no row (Neutral),   *)
(* and a stretch of them changes none (NeutralSteps); what remains is the  *)
(* backfill of 0007 and the operations beside it, the rebuilding of the    *)
(* memberships, and the dropping of the tables that hold rows.             *)
(*                                                                         *)
(* That runs end well is an argument about schemas.  Fits tells a schema   *)
(* by the names that operations ask for, each operation has a lemma that   *)
(* says what it needs of them and makes of them, FitsAt says which names a *)
(* revision has, and each script leads from those of one revision to those *)
(* of the next, operation by operation.  The invariant FitsInv adds that   *)
(* the database always has the names of its revision.                      *)
(***************************************************************************)
EXTENDS Migrations, WellFoundedInduction, TLAPS

-----------------------------------------------------------------------------
(* Runs, operation by operation.                                             *)

\* A nonempty set of natural numbers has a least one: induction over a run goes by it.
LEMMA LeastNumber ==
  ASSUME NEW T, T \subseteq Nat, T # {}
  PROVE  \E n \in T : \A m \in T : n <= m
<1> DEFINE R == OpToRel(<, Nat)
<1>1. IsWellFoundedOn(R, Nat)
  BY NatLessThanWellFounded
<1>2. \A m, n \in Nat : <<m, n>> \in R <=> m < n
  BY DEF OpToRel
<1> HIDE DEF R
<1>3. \E n \in T : \A m \in T : <<m, n>> \notin R
  BY <1>1, WFMin
<1>4. PICK n \in T : \A m \in T : <<m, n>> \notin R
  BY <1>3
<1>5. ASSUME NEW m \in T PROVE n <= m
  <2>1. n \in Nat /\ m \in Nat /\ ~(m < n)
    BY <1>2, <1>4
  <2>2. QED
    BY <2>1
<1>6. QED
  BY <1>5

Rec(pick, d, s, S, g) ==
  g = [T \in SUBSET S |-> IF T = {} THEN d ELSE Do(g[T \ {Max(T)}], s[Max(T)], pick)]

\* What the fold of a run is defined to be.
LEMMA RunUnfolded ==
  ASSUME NEW pick, NEW d, NEW s, NEW n \in Nat, DOMAIN s = 1..n
  PROVE  Run(d, s, pick) = (CHOOSE g : Rec(pick, d, s, 1..n, g))[1..n]
BY DEF Run, FoldLeft, MapThenFoldSet, Rec

LEMMA MaxOfTop ==
  ASSUME NEW n \in Nat, NEW T \in SUBSET (1..n), n \in T
  PROVE  Max(T) = n
<1>1. \A y \in T : n >= y
  OBVIOUS
<1>2. \A x \in T : (\A y \in T : x >= y) => x = n
  OBVIOUS
<1>3. QED
  BY <1>1, <1>2 DEF Max

\* The recursion that the fold chooses has a solution: one exists for the empty script,
\* and one for m operations extends to one for m + 1.
LEMMA RecExists ==
  ASSUME NEW pick, NEW d, NEW s, NEW n \in Nat
  PROVE  \E g : Rec(pick, d, s, 1..n, g)
<1> DEFINE Bad == {m \in Nat : ~ \E g : Rec(pick, d, s, 1..m, g)}
<1>1. \E g : Rec(pick, d, s, 1..0, g)
  <2> DEFINE g == [T \in SUBSET (1..0) |-> d]
  <2>1. \A T \in SUBSET (1..0) : T = {}
    OBVIOUS
  <2>2. Rec(pick, d, s, 1..0, g)
    BY <2>1 DEF Rec
  <2>3. QED
    BY <2>2
<1>2. ASSUME NEW m \in Nat, NEW g, Rec(pick, d, s, 1..m, g)
      PROVE  \E h : Rec(pick, d, s, 1..(m+1), h)
  <2> DEFINE h == [T \in SUBSET (1..(m+1)) |->
                     IF m+1 \in T THEN Do(g[T \ {m+1}], s[m+1], pick) ELSE g[T]]
  <2>1. ASSUME NEW T \in SUBSET (1..(m+1))
        PROVE  h[T] = IF T = {} THEN d ELSE Do(h[T \ {Max(T)}], s[Max(T)], pick)
    <3>0. h[T] = IF m+1 \in T THEN Do(g[T \ {m+1}], s[m+1], pick) ELSE g[T]
      OBVIOUS
    <3>1. CASE m+1 \in T
      <4>1. Max(T) = m + 1
        <5>1. m + 1 \in Nat
          OBVIOUS
        <5>2. QED
          BY <3>1, <5>1, MaxOfTop
      <4>2. T \ {m+1} \in SUBSET (1..(m+1)) /\ m+1 \notin T \ {m+1}
        OBVIOUS
      <4>3. h[T \ {m+1}] = g[T \ {m+1}]
        BY <4>2
      <4> HIDE DEF h
      <4>4. QED
        BY <3>0, <3>1, <4>1, <4>3
    <3>2. CASE m+1 \notin T
      <4>1. T \in SUBSET (1..m)
        BY <3>2
      <4>2. T \ {Max(T)} \in SUBSET (1..(m+1)) /\ m+1 \notin T \ {Max(T)}
        BY <3>2
      <4>3. h[T \ {Max(T)}] = g[T \ {Max(T)}]
        BY <4>2
      <4>4. g[T] = IF T = {} THEN d ELSE Do(g[T \ {Max(T)}], s[Max(T)], pick)
        BY <1>2, <4>1 DEF Rec
      <4> HIDE DEF h
      <4>5. QED
        BY <3>0, <3>2, <4>3, <4>4
    <3>3. QED
      BY <3>1, <3>2
  <2>2. h = [T \in SUBSET (1..(m+1)) |-> h[T]]
    OBVIOUS
  <2> HIDE DEF h
  <2>3. Rec(pick, d, s, 1..(m+1), h)
    BY <2>1, <2>2 DEF Rec
  <2>4. QED
    BY <2>3
<1>3. ASSUME Bad # {} PROVE FALSE
  <2>1. PICK b \in Bad : \A m \in Bad : b <= m
    BY <1>3, LeastNumber
  <2>2. b \in Nat /\ b # 0
    BY <1>1
  <2>3. b - 1 \in Nat /\ b - 1 \notin Bad
    BY <2>1, <2>2
  <2>4. PICK g : Rec(pick, d, s, 1..(b-1), g)
    BY <2>3
  <2>5. \E h : Rec(pick, d, s, 1..((b-1)+1), h)
    BY <1>2, <2>3, <2>4
  <2>6. (b-1)+1 = b
    BY <2>2
  <2>7. QED
    BY <2>5, <2>6
<1>4. QED
  BY <1>3

\* The databases p of a run of the n operations of s over d.
Trace(p, d, s, n, pick) == p[0] = d /\ \A i \in 1..n : p[i] = Do(p[i-1], s[i], pick)

\* A run takes one operation after the other.
LEMMA RunSteps ==
  ASSUME NEW pick, NEW d, NEW s, NEW n \in Nat, DOMAIN s = 1..n
  PROVE  \E p : Trace(p, d, s, n, pick) /\ Run(d, s, pick) = p[n]
<1> DEFINE g == CHOOSE f : Rec(pick, d, s, 1..n, f)
           p == [i \in 0..n |-> g[1..i]]
<1>1. Rec(pick, d, s, 1..n, g)
  BY RecExists
<1>2. Run(d, s, pick) = g[1..n]
  BY RunUnfolded
<1> HIDE DEF g
<1>3. g[{}] = d /\ 1..0 = {}
  BY <1>1 DEF Rec
<1>4. ASSUME NEW i \in 1..n
      PROVE  g[1..i] = Do(g[1..(i-1)], s[i], pick)
  <2>1. 1..i \in SUBSET (1..n) /\ 1..i # {}
    OBVIOUS
  <2>2. i-1 \in Nat /\ (i-1)+1 = i
    OBVIOUS
  <2>3. Max(1..i) = i
    <3>1. i \in Nat /\ 1..i \in SUBSET (1..i) /\ i \in 1..i
      OBVIOUS
    <3>2. QED
      BY <3>1, MaxOfTop
  <2>4. (1..i) \ {i} = 1..(i-1)
    OBVIOUS
  <2>5. g[1..i] = Do(g[(1..i) \ {Max(1..i)}], s[Max(1..i)], pick)
    BY <1>1, <2>1 DEF Rec
  <2>6. QED
    BY <2>3, <2>4, <2>5
<1>5. p[0] = d
  BY <1>3
<1>6. \A i \in 1..n : p[i] = Do(p[i-1], s[i], pick)
  BY <1>4
<1>7. p[n] = g[1..n]
  OBVIOUS
<1>8. QED
  BY <1>2, <1>5, <1>6, <1>7 DEF Trace

\* A failed operation leaves a failed run: what ends well went well all along.
LEMMA AllWentWell ==
  ASSUME NEW pick, NEW d, NEW s, NEW n \in Nat, NEW p, Trace(p, d, s, n, pick), p[n].ok
  PROVE  \A i \in 0..n : p[i].ok
<1> DEFINE T == {k \in 0..n : ~ p[n - k].ok}
<1>1. ASSUME T # {} PROVE FALSE
  <2>1. T \subseteq Nat
    OBVIOUS
  <2>2. PICK k \in T : \A m \in T : k <= m
    BY <1>1, <2>1, LeastNumber
  <2>3. k \in 1..n /\ ~ p[n - k].ok
    <3>1. k \in 0..n /\ ~ p[n - k].ok
      OBVIOUS
    <3>2. n - 0 = n
      OBVIOUS
    <3>3. k # 0
      BY <3>1, <3>2
    <3>4. QED
      BY <3>1, <3>3
  <2>4. k - 1 \in 0..n /\ k - 1 \notin T
    BY <2>2, <2>3
  <2>5. p[n - (k - 1)].ok
    BY <2>4
  <2>6. n - (k - 1) \in 1..n /\ (n - (k - 1)) - 1 = n - k
    BY <2>3
  <2>7. p[n - (k - 1)] = Do(p[n - k], s[n - (k - 1)], pick)
    BY <2>6 DEF Trace
  <2>8. p[n - (k - 1)] = p[n - k]
    BY <2>3, <2>7 DEF Do
  <2>9. QED
    BY <2>3, <2>5, <2>8
<1>2. ASSUME NEW i \in 0..n PROVE p[i].ok
  <2>1. n - i \in 0..n /\ n - (n - i) = i
    OBVIOUS
  <2>2. n - i \notin T
    BY <1>1
  <2>3. QED
    BY <2>1, <2>2
<1>3. QED
  BY <1>2

-----------------------------------------------------------------------------
(* Operations that touch no row.                                             *)

\* A schema and a database as the operations know them.
SchemaFields == {"tables", "columns", "keys", "enums", "indexes"}
Fields       == {"ok", "schema", "users", "members", "creators"}

\* The columns that tables of ts can have.
ColumnsOf(ts) == [table : ts, name : ColumnNames, type : ColumnTypes]

SchemaShape(s) ==
  /\ s = [f \in SchemaFields |-> s[f]]
  /\ s.columns \subseteq ColumnsOf(s.tables)

Shape(d) ==
  /\ d = [f \in Fields |-> d[f]]
  /\ d.ok \in BOOLEAN
  /\ SchemaShape(d.schema)
  /\ d.users = [u \in DOMAIN d.users |-> [org |-> d.users[u].org, role |-> d.users[u].role]]

Rows(d) == <<d.users, d.members, d.creators>>

RowTables == {"users", "organization_members", "jobs"}

\* Operations that leave users, memberships and the creators of jobs alone.
Neutral(op) ==
  \/ op[1] \in {"create_enum", "drop_enum", "create_index", "drop_index", "create_key",
                "drop_key"}
  \/ op[1] = "create_table" /\ op[3] \subseteq ColumnsOf({op[2]})
  \/ op[1] = "drop_table" /\ op[2] \notin RowTables
  \/ op[1] = "add_column" /\ op[3] \in ColumnNames /\ op[4] \in ColumnTypes
  \/ op[1] = "drop_column" /\ (op[2] = "users" => op[3] \notin {"organization_id", "role"})

\* An operation that succeeds installs its schema, one that fails changes no row.
LEMMA StepShape ==
  ASSUME NEW d, Shape(d), NEW guard, NEW s, guard => SchemaShape(s)
  PROVE  /\ Shape(Step(d, guard, s)) /\ Rows(Step(d, guard, s)) = Rows(d)
         /\ Step(d, guard, s).ok => guard /\ Step(d, guard, s).schema = s
BY DEF Step, Shape, Rows, Fields

\* Rows of users that forget a column keep the others.
LEMMA ForgetShape ==
  ASSUME NEW d, Shape(d), NEW t, NEW c
  PROVE  /\ Shape(Forget(d, t, c))
         /\ Forget(d, t, c).ok = d.ok /\ Forget(d, t, c).schema = d.schema
         /\ Forget(d, t, c).members = d.members /\ Forget(d, t, c).creators = d.creators
         /\ DOMAIN Forget(d, t, c).users = DOMAIN d.users
         /\ \A u \in DOMAIN d.users : Forget(d, t, c).users[u] =
              [org  |-> IF t = "users" /\ c = "organization_id" THEN None ELSE d.users[u].org,
               role |-> IF t = "users" /\ c = "role" THEN None ELSE d.users[u].role]
BY DEF Forget, Shape, Fields

LEMMA ForgetNothing ==
  ASSUME NEW d, Shape(d), NEW t, NEW c, t = "users" => c \notin {"organization_id", "role"}
  PROVE  Forget(d, t, c) = d
BY DEF Forget, Shape, Fields

\* A neutral operation touches no row, whether it succeeds or fails.
LEMMA NeutralOperation ==
  ASSUME NEW d, Shape(d), NEW op, Neutral(op), NEW pick
  PROVE  Shape(Do(d, op, pick)) /\ Rows(Do(d, op, pick)) = Rows(d)
<1> SUFFICES Shape(Apply(d, op, pick)) /\ Rows(Apply(d, op, pick)) = Rows(d)
  BY DEF Do
<1>0. SchemaShape(d.schema)
  BY DEF Shape
<1>1. CASE op[1] = "create_enum"
  <2> DEFINE g == TRUE
             s == [d.schema EXCEPT !.enums = @ \cup {op[2]}]
  <2>1. Apply(d, op, pick) = Step(d, g, s)
    BY <1>1 DEF Apply, CreateEnum
  <2>2. SchemaShape(s)
    BY <1>0 DEF SchemaShape, ColumnsOf, SchemaFields
  <2> HIDE DEF s, g
  <2>3. QED
    BY <2>1, <2>2, StepShape
<1>2. CASE op[1] = "drop_enum"
  <2> DEFINE g == \A c \in d.schema.columns : c.type # op[2]
             s == [d.schema EXCEPT !.enums = @ \ {op[2]}]
  <2>1. Apply(d, op, pick) = Step(d, g, s)
    BY <1>2 DEF Apply, DropEnum
  <2>2. SchemaShape(s)
    BY <1>0 DEF SchemaShape, ColumnsOf, SchemaFields
  <2> HIDE DEF s, g
  <2>3. QED
    BY <2>1, <2>2, StepShape
<1>3. CASE op[1] = "create_index"
  <2> DEFINE g == /\ op[2] \in d.schema.tables
                  /\ \A x \in d.schema.indexes : x.name # op[3]
             s == [d.schema EXCEPT !.indexes = @ \cup {Index(op[2], op[3])}]
  <2>1. Apply(d, op, pick) = Step(d, g, s)
    BY <1>3 DEF Apply, CreateIndex
  <2>2. SchemaShape(s)
    BY <1>0 DEF SchemaShape, ColumnsOf, SchemaFields
  <2> HIDE DEF s, g
  <2>3. QED
    BY <2>1, <2>2, StepShape
<1>4. CASE op[1] = "drop_index"
  <2> DEFINE g == Index(op[2], op[3]) \in d.schema.indexes
             s == [d.schema EXCEPT !.indexes = @ \ {Index(op[2], op[3])}]
  <2>1. Apply(d, op, pick) = Step(d, g, s)
    BY <1>4 DEF Apply, DropIndex
  <2>2. SchemaShape(s)
    BY <1>0 DEF SchemaShape, ColumnsOf, SchemaFields
  <2> HIDE DEF s, g
  <2>3. QED
    BY <2>1, <2>2, StepShape
<1>5. CASE op[1] = "create_key"
  <2> DEFINE g == op[2] \notin d.schema.keys
             s == [d.schema EXCEPT !.keys = @ \cup {op[2]}]
  <2>1. Apply(d, op, pick) = Step(d, g, s)
    BY <1>5 DEF Apply, CreateKey
  <2>2. SchemaShape(s)
    BY <1>0 DEF SchemaShape, ColumnsOf, SchemaFields
  <2> HIDE DEF s, g
  <2>3. QED
    BY <2>1, <2>2, StepShape
<1>6. CASE op[1] = "drop_key"
  <2> DEFINE g == op[2] \in d.schema.keys
             s == [d.schema EXCEPT !.keys = @ \ {op[2]}]
  <2>1. Apply(d, op, pick) = Step(d, g, s)
    BY <1>6 DEF Apply, DropKey
  <2>2. SchemaShape(s)
    BY <1>0 DEF SchemaShape, ColumnsOf, SchemaFields
  <2> HIDE DEF s, g
  <2>3. QED
    BY <2>1, <2>2, StepShape
<1>7. CASE op[1] = "create_table" /\ op[3] \subseteq ColumnsOf({op[2]})
  <2> DEFINE g == /\ op[2] \notin d.schema.tables
                  /\ \A c \in op[3] : Typed(d, c.type)
                  /\ \A k \in op[4] : k.to \in d.schema.tables
             s == [d.schema EXCEPT !.tables = @ \cup {op[2]}, !.columns = @ \cup op[3],
                              !.keys = @ \cup op[4]]
  <2>1. Apply(d, op, pick) = Step(d, g, s)
    <3>1. Apply(d, op, pick) = CreateTable(d, op[2], op[3], op[4])
      BY <1>7 DEF Apply
    <3>2. QED
      BY <3>1 DEF CreateTable
  <2>2. SchemaShape(s)
    BY <1>0, <1>7 DEF SchemaShape, ColumnsOf, SchemaFields
  <2> HIDE DEF s, g
  <2>3. QED
    BY <2>1, <2>2, StepShape
<1>8. CASE op[1] = "drop_table" /\ op[2] \notin RowTables
  <2> DEFINE g == /\ op[2] \in d.schema.tables
                  /\ \A k \in d.schema.keys : k.to = op[2] => k.from = op[2]
             s == [d.schema EXCEPT !.tables = @ \ {op[2]}, !.columns = OfTable(@, op[2]),
                                   !.keys = {k \in @ : k.from # op[2]},
                                   !.indexes = OfTable(@, op[2])]
             e == [d EXCEPT !.users    = IF op[2] = "users" THEN << >> ELSE @,
                            !.members  = IF op[2] = "organization_members" THEN {} ELSE @,
                            !.creators = IF op[2] = "jobs" THEN {} ELSE @]
  <2>1. Apply(d, op, pick) = Step(e, g, s)
    BY <1>8 DEF Apply, DropTable
  <2>2. SchemaShape(s)
    BY <1>0 DEF SchemaShape, ColumnsOf, SchemaFields, OfTable
  <2>3. e = d
    BY <1>8 DEF RowTables, Shape, Fields
  <2> HIDE DEF s, g, e
  <2>4. QED
    BY <2>1, <2>2, <2>3, StepShape
<1>9. CASE op[1] = "add_column" /\ op[3] \in ColumnNames /\ op[4] \in ColumnTypes
  <2> DEFINE g == /\ op[2] \in d.schema.tables /\ Typed(d, op[4])
                  /\ ~HasColumn(d.schema, op[2], op[3])
             s == [d.schema EXCEPT !.columns = @ \cup {Col(op[2], op[3], op[4])}]
  <2>1. Apply(d, op, pick) = Step(d, g, s)
    BY <1>9 DEF Apply, AddColumn
  <2>2. g => SchemaShape(s)
    <3>1. s = [f \in SchemaFields |-> s[f]] /\ s.tables = d.schema.tables
          /\ s.columns = d.schema.columns \cup {Col(op[2], op[3], op[4])}
      BY <1>0 DEF SchemaShape, ColumnsOf, SchemaFields
    <3>2. g => Col(op[2], op[3], op[4]) \in ColumnsOf(d.schema.tables)
      BY <1>9 DEF Col, ColumnsOf
    <3> HIDE DEF s, g
    <3>3. QED
      BY <1>0, <3>1, <3>2 DEF SchemaShape, ColumnsOf
  <2> HIDE DEF s, g
  <2>3. QED
    BY <2>1, <2>2, StepShape
<1>10. CASE /\ op[1] = "drop_column"
            /\ op[2] = "users" => op[3] \notin {"organization_id", "role"}
  <2> DEFINE g == HasColumn(d.schema, op[2], op[3])
             s == [d.schema EXCEPT !.columns = {x \in @ : x.table # op[2] \/ x.name # op[3]}]
  <2>1. Apply(d, op, pick) = Step(d, g, s)
    BY <1>10, ForgetNothing DEF Apply, DropColumn
  <2>2. SchemaShape(s)
    BY <1>0 DEF SchemaShape, ColumnsOf, SchemaFields
  <2> HIDE DEF s, g
  <2>3. QED
    BY <2>1, <2>2, StepShape
<1>11. QED
  BY <1>1, <1>2, <1>3, <1>4, <1>5, <1>6, <1>7, <1>8, <1>9, <1>10 DEF Neutral

\* A run that ends well, operation by operation.
LEMMA RunStages ==
  ASSUME NEW pick, NEW d, NEW s, NEW n \in Nat, DOMAIN s = 1..n, NEW x, x = Run(d, s, pick),
         x.ok
  PROVE  \E p : /\ Trace(p, d, s, n, pick) /\ p[0] = d /\ p[n] = x
                /\ \A i \in 0..n : p[i].ok
<1>1. PICK p : Trace(p, d, s, n, pick) /\ x = p[n]
  BY RunSteps
<1>2. \A i \in 0..n : p[i].ok
  BY <1>1, AllWentWell
<1>3. QED
  BY <1>1, <1>2 DEF Trace

\* The operations of s after the a-th up to the b-th of n are neutral.
NeutralBetween(s, n, a, b) ==
  /\ n \in Nat /\ a \in 0..n /\ b \in 0..n /\ a <= b
  /\ \A i \in 1..n : a < i /\ i <= b => Neutral(s[i])

\* A stretch of neutral operations touches no row.
LEMMA NeutralSteps ==
  ASSUME NEW d, NEW s, NEW n, NEW pick, NEW p, Trace(p, d, s, n, pick),
         NEW a, NEW b, NeutralBetween(s, n, a, b), Shape(p[a])
  PROVE  Shape(p[b]) /\ Rows(p[b]) = Rows(p[a])
<1>0. /\ n \in Nat /\ a \in 0..n /\ b \in 0..n /\ a <= b
      /\ \A i \in 1..n : a < i /\ i <= b => Neutral(s[i])
  BY DEF NeutralBetween
<1> DEFINE Good(x) == Shape(x) /\ Rows(x) = Rows(p[a])
           Bad == {i \in a..b : ~ Good(p[i])}
<1>1. ASSUME Bad # {} PROVE FALSE
  <2>1. PICK i \in Bad : \A j \in Bad : i <= j
    <3>1. Bad \subseteq Nat
      BY <1>0
    <3>2. QED
      BY <1>1, <3>1, LeastNumber
  <2>2. a < i /\ i <= b /\ i \in 1..n
    BY <1>0
  <2>3. i - 1 \in a..b /\ i - 1 \notin Bad
    BY <1>0, <2>1, <2>2
  <2>4. Good(p[i-1])
    BY <2>3
  <2>5. p[i] = Do(p[i-1], s[i], pick) /\ Neutral(s[i])
    BY <1>0, <2>2 DEF Trace
  <2>6. Good(p[i])
    BY <2>4, <2>5, NeutralOperation
  <2>7. QED
    BY <2>6
<1>2. b \in a..b /\ b \notin Bad
  BY <1>0, <1>1
<1>3. QED
  BY <1>2

\* The databases of a run are determined.
LEMMA TracesAgree ==
  ASSUME NEW d, NEW s, NEW n \in Nat, NEW pick, NEW p, NEW q,
         Trace(p, d, s, n, pick), Trace(q, d, s, n, pick)
  PROVE  \A i \in 0..n : p[i] = q[i]
<1> DEFINE Bad == {i \in 0..n : p[i] # q[i]}
<1>1. ASSUME Bad # {} PROVE FALSE
  <2>1. PICK i \in Bad : \A j \in Bad : i <= j
    <3>1. Bad \subseteq Nat
      OBVIOUS
    <3>2. QED
      BY <1>1, <3>1, LeastNumber
  <2>2. i \in 1..n
    BY DEF Trace
  <2>3. i - 1 \in 0..n /\ i - 1 \notin Bad
    BY <2>1, <2>2
  <2>4. p[i-1] = q[i-1]
    BY <2>3
  <2>5. p[i] = q[i]
    BY <2>2, <2>4 DEF Trace
  <2>6. QED
    BY <2>5
<1>2. QED
  BY <1>1

\* A script in two parts is a run after a run.
LEMMA RunOfParts ==
  ASSUME NEW d, NEW A, NEW B, NEW s \in Seq(A), NEW t \in Seq(B), NEW pick
  PROVE  Run(d, s \o t, pick) = Run(Run(d, s, pick), t, pick)
<1> DEFINE m == Len(s)
           n == Len(t)
           w == s \o t
<1>1. /\ m \in Nat /\ n \in Nat /\ DOMAIN s = 1..m /\ DOMAIN t = 1..n
      /\ DOMAIN w = 1..(m + n)
      /\ \A i \in 1..m : w[i] = s[i]
      /\ \A i \in 1..n : w[m + i] = t[i]
  OBVIOUS
<1> HIDE DEF m, n, w
<1>2. m + n \in Nat
  BY <1>1
<1>3. PICK p : Trace(p, d, w, m + n, pick) /\ Run(d, w, pick) = p[m + n]
  BY <1>1, <1>2, RunSteps
<1>4. PICK q : Trace(q, d, s, m, pick) /\ Run(d, s, pick) = q[m]
  BY <1>1, RunSteps
<1>5. Trace(p, d, s, m, pick)
  BY <1>1, <1>3 DEF Trace
<1>6. p[m] = Run(d, s, pick)
  BY <1>1, <1>4, <1>5, TracesAgree
<1> DEFINE e == p[m]
<1> HIDE DEF e
<1>7. PICK r : Trace(r, e, t, n, pick) /\ Run(e, t, pick) = r[n]
  BY <1>1, RunSteps
<1> DEFINE o == [i \in 0..n |-> p[m + i]]
<1>8. Trace(o, e, t, n, pick)
  <2>1. o[0] = e
    BY <1>1 DEF e
  <2>2. ASSUME NEW i \in 1..n PROVE o[i] = Do(o[i-1], t[i], pick)
    <3>1. m + i \in 1..(m + n) /\ (m + i) - 1 = m + (i - 1)
      BY <1>1
    <3>2. p[m + i] = Do(p[m + (i - 1)], t[i], pick)
      BY <1>1, <1>3, <3>1 DEF Trace
    <3>3. QED
      BY <1>1, <3>2
  <2> HIDE DEF o
  <2>3. QED
    BY <2>1, <2>2 DEF Trace
<1>9. o[n] = r[n]
  BY <1>1, <1>7, <1>8, TracesAgree
<1>10. QED
  BY <1>1, <1>3, <1>6, <1>7, <1>9 DEF e, w

-----------------------------------------------------------------------------
(* The scripts that touch no row.                                            *)

\* A script of which every operation is neutral.
Calm(s) == (\E S : s \in Seq(S)) /\ \A i \in DOMAIN s : Neutral(s[i])

\* A script of neutral operations touches no row.
LEMMA CalmRun ==
  ASSUME NEW d, Shape(d), NEW s, Calm(s), NEW pick
  PROVE  Shape(Run(d, s, pick)) /\ Rows(Run(d, s, pick)) = Rows(d)
<1>1. PICK n \in Nat : DOMAIN s = 1..n
  <2>1. PICK S : s \in Seq(S)
    BY DEF Calm
  <2>2. Len(s) \in Nat /\ DOMAIN s = 1..Len(s)
    BY <2>1
  <2>3. QED
    BY <2>2
<1>2. PICK p : Trace(p, d, s, n, pick) /\ Run(d, s, pick) = p[n]
  BY <1>1, RunSteps
<1>3. p[0] = d /\ NeutralBetween(s, n, 0, n)
  BY <1>1, <1>2 DEF Trace, Calm, NeutralBetween
<1>4. QED
  BY <1>2, <1>3, NeutralSteps

LEMMA CalmParts ==
  ASSUME NEW s, Calm(s), NEW t, Calm(t)
  PROVE  Calm(s \o t)
<1>1. PICK S, T : s \in Seq(S) /\ t \in Seq(T)
  BY DEF Calm
<1>2. s \o t \in Seq(S \cup T)
  BY <1>1
<1>3. ASSUME NEW i \in DOMAIN (s \o t) PROVE Neutral((s \o t)[i])
  BY <1>1 DEF Calm
<1>4. QED
  BY <1>2, <1>3 DEF Calm

LEMMA CalmTuples ==
  ASSUME NEW a, Neutral(a), NEW b, Neutral(b), NEW c, Neutral(c), NEW e, Neutral(e),
         NEW f, Neutral(f), NEW g, Neutral(g)
  PROVE  /\ Calm(<<a>>) /\ Calm(<<a, b>>) /\ Calm(<<a, b, c>>) /\ Calm(<<a, b, c, e>>)
         /\ Calm(<<a, b, c, e, f>>) /\ Calm(<<a, b, c, e, f, g>>)
<1>1. Calm(<<a>>)
  <2>1. \E S : <<a>> \in Seq(S)
    <3>1. <<a>> \in Seq({a})
      OBVIOUS
    <3>2. QED
      BY <3>1
  <2>2. \A i \in DOMAIN <<a>> : Neutral(<<a>>[i])
    OBVIOUS
  <2>3. QED
    BY <2>1, <2>2 DEF Calm
<1>2. Calm(<<a, b>>)
  <2>1. \E S : <<a, b>> \in Seq(S)
    <3>1. <<a, b>> \in Seq({a, b})
      OBVIOUS
    <3>2. QED
      BY <3>1
  <2>2. \A i \in DOMAIN <<a, b>> : Neutral(<<a, b>>[i])
    OBVIOUS
  <2>3. QED
    BY <2>1, <2>2 DEF Calm
<1>3. Calm(<<a, b, c>>)
  <2>1. \E S : <<a, b, c>> \in Seq(S)
    <3>1. <<a, b, c>> \in Seq({a, b, c})
      OBVIOUS
    <3>2. QED
      BY <3>1
  <2>2. \A i \in DOMAIN <<a, b, c>> : Neutral(<<a, b, c>>[i])
    OBVIOUS
  <2>3. QED
    BY <2>1, <2>2 DEF Calm
<1>4. Calm(<<a, b, c, e>>)
  <2>1. \E S : <<a, b, c, e>> \in Seq(S)
    <3>1. <<a, b, c, e>> \in Seq({a, b, c, e})
      OBVIOUS
    <3>2. QED
      BY <3>1
  <2>2. \A i \in DOMAIN <<a, b, c, e>> : Neutral(<<a, b, c, e>>[i])
    OBVIOUS
  <2>3. QED
    BY <2>1, <2>2 DEF Calm
<1>5. Calm(<<a, b, c, e, f>>)
  <2>1. \E S : <<a, b, c, e, f>> \in Seq(S)
    <3>1. <<a, b, c, e, f>> \in Seq({a, b, c, e, f})
      OBVIOUS
    <3>2. QED
      BY <3>1
  <2>2. \A i \in DOMAIN <<a, b, c, e, f>> : Neutral(<<a, b, c, e, f>>[i])
    OBVIOUS
  <2>3. QED
    BY <2>1, <2>2 DEF Calm
<1>6. Calm(<<a, b, c, e, f, g>>)
  <2>1. \E S : <<a, b, c, e, f, g>> \in Seq(S)
    <3>1. <<a, b, c, e, f, g>> \in Seq({a, b, c, e, f, g})
      OBVIOUS
    <3>2. QED
      BY <3>1
  <2>2. \A i \in DOMAIN <<a, b, c, e, f, g>> : Neutral(<<a, b, c, e, f, g>>[i])
    OBVIOUS
  <2>3. QED
    BY <2>1, <2>2 DEF Calm
<1>7. QED
  BY <1>1, <1>2, <1>3, <1>4, <1>5, <1>6

\* Which operations of the scripts are neutral.
LEMMA NeutralKinds ==
  /\ \A e : Neutral(<<"create_enum", e>>) /\ Neutral(<<"drop_enum", e>>)
  /\ \A k : Neutral(<<"create_key", k>>) /\ Neutral(<<"drop_key", k>>)
  /\ \A t, i : Neutral(<<"create_index", t, i>>) /\ Neutral(<<"drop_index", t, i>>)
  /\ \A t, cols, keys : cols \subseteq ColumnsOf({t})
                          => Neutral(<<"create_table", t, cols, keys>>)
  /\ \A t : t \notin RowTables => Neutral(<<"drop_table", t>>)
  /\ \A t : \A c \in ColumnNames, type \in ColumnTypes : Neutral(<<"add_column", t, c, type>>)
  /\ \A t, c : (t = "users" => c \notin {"organization_id", "role"})
                => Neutral(<<"drop_column", t, c>>)
BY DEF Neutral

\* All scripts but the upgrade 0007 and the downgrades 0001, 0002 and 0007 are calm.
LEMMA CalmLiterals ==
  /\ Calm(Upgrade1) /\ Calm(Upgrade3) /\ Calm(Upgrade5) /\ Calm(Upgrade6) /\ Calm(Upgrade8)
  /\ Calm(Downgrade3) /\ Calm(Downgrade4) /\ Calm(Downgrade5) /\ Calm(Downgrade6)
  /\ Calm(Downgrade8)
<1>1. Calm(Upgrade1)
  <2>1. UserColumns \subseteq ColumnsOf({"users"})
    BY DEF UserColumns, Col, ColumnsOf, ColumnNames, ColumnTypes
  <2>2. {Col("organization_members", "role", "organization_role")}
          \subseteq ColumnsOf({"organization_members"})
    BY DEF Col, ColumnsOf, ColumnNames, ColumnTypes, EnumTypes
  <2>3. Neutral(MembersTable)
    BY <2>2, NeutralKinds DEF MembersTable
  <2>4. QED
    BY <2>1, <2>3, CalmTuples, NeutralKinds DEF Upgrade1
<1>2. Calm(Upgrade3)
  BY CalmTuples, NeutralKinds DEF Upgrade3
<1>3. Calm(Upgrade5)
  BY CalmTuples, NeutralKinds DEF Upgrade5
<1>4. Calm(Upgrade6)
  BY CalmTuples, NeutralKinds DEF Upgrade6, ColumnNames, ColumnTypes
<1>5. Calm(Upgrade8)
  BY CalmTuples, NeutralKinds DEF Upgrade8, ColumnNames, ColumnTypes
<1>6. Calm(Downgrade3)
  BY CalmTuples, NeutralKinds DEF Downgrade3, RowTables
<1>7. Calm(Downgrade4)
  BY CalmTuples, NeutralKinds DEF Downgrade4, RowTables
<1>8. Calm(Downgrade5)
  BY CalmTuples, NeutralKinds DEF Downgrade5
<1>9. Calm(Downgrade6)
  BY CalmTuples, NeutralKinds DEF Downgrade6
<1>10. Calm(Downgrade8)
  BY CalmTuples, NeutralKinds DEF Downgrade8
<1>11. QED
  BY <1>1, <1>2, <1>3, <1>4, <1>5, <1>6, <1>7, <1>8, <1>9, <1>10

LEMMA CalmQueue ==
  ASSUME NEW times, times \subseteq ColumnNames
  PROVE  Calm(Queue(times))
<1>1. {Col("screening_jobs", c, "timestamp") : c \in times}
        \subseteq ColumnsOf({"screening_jobs"})
  BY DEF Col, ColumnsOf, ColumnTypes
<1>2. QED
  BY <1>1, CalmTuples, NeutralKinds DEF Queue

\* 0004, after the queue the trail.
LEMMA CalmUpgrade4 == Calm(Upgrade4)
<1>1. Calm(Queue({"started_at", "created_at"}))
  BY CalmQueue DEF ColumnNames
<1> DEFINE audit == {Col("audit_events", "request_id", "varchar(80)")}
           keys  == {Key("audit_events", "organizations", "SET NULL"),
                     Key("audit_events", "users", "SET NULL")}
           s == << <<"create_table", "audit_events", audit, keys>>,
                   <<"create_index", "audit_events", "ix_audit_events_org_created">>,
                   <<"create_index", "audit_events", "ix_audit_events_entity">> >>
<1>2. audit \subseteq ColumnsOf({"audit_events"})
  BY DEF Col, ColumnsOf, ColumnNames, ColumnTypes
<1>3. Calm(s)
  <2> HIDE DEF audit, keys
  <2>1. QED
    BY <1>2, CalmTuples, NeutralKinds
<1>4. Upgrade4 = Queue({"started_at", "created_at"}) \o s
  BY DEF Upgrade4
<1> HIDE DEF s
<1>5. QED
  BY <1>1, <1>3, <1>4, CalmParts

\* 0002, part by part.
LEMMA CalmHiring ==
  /\ Calm(Enums2) /\ Calm(Jobs2) /\ Calm(Candidates2) /\ Calm(Resumes2) /\ Calm(Applications2)
<1> DEFINE GoodCols(cols, t) == cols \subseteq ColumnsOf({t})
<1>1. Calm(Enums2)
  BY CalmTuples, NeutralKinds DEF Enums2
<1>2. Calm(Jobs2)
  <2>1. /\ GoodCols({Col("jobs", "status", "job_status")}, "jobs")
        /\ GoodCols({}, "job_requirements")
    BY DEF Col, ColumnsOf, ColumnNames, ColumnTypes, EnumTypes
  <2>2. QED
    BY <2>1, CalmTuples, NeutralKinds DEF Jobs2
<1>3. Calm(Candidates2)
  BY CalmTuples, NeutralKinds DEF Candidates2
<1>4. Calm(Resumes2)
  <2>1. GoodCols({Col("resumes", "file_type", "resume_file_type"),
                  Col("resumes", "status", "resume_status")}, "resumes")
    BY DEF Col, ColumnsOf, ColumnNames, ColumnTypes, EnumTypes
  <2>2. QED
    BY <2>1, CalmTuples, NeutralKinds DEF Resumes2
<1>5. Calm(Applications2)
  <2>1. GoodCols({Col("applications", "status", "application_status")}, "applications")
    BY DEF Col, ColumnsOf, ColumnNames, ColumnTypes, EnumTypes
  <2>2. QED
    BY <2>1, CalmTuples, NeutralKinds DEF Applications2
<1>6. QED
  BY <1>1, <1>2, <1>3, <1>4, <1>5

LEMMA CalmUpgrade2 == Calm(Upgrade2)
BY CalmHiring, CalmParts DEF Upgrade2

-----------------------------------------------------------------------------
(* The operations that touch rows.                                           *)

\* A dropped table takes its rows along.
LEMMA DropTableOperation ==
  ASSUME NEW d, Shape(d), d.ok, NEW t, NEW pick,
         NEW x, x = Do(d, <<"drop_table", t>>, pick)
  PROVE  /\ Shape(x)
         /\ x.users = IF t = "users" THEN << >> ELSE d.users
         /\ x.members = IF t = "organization_members" THEN {} ELSE d.members
         /\ x.creators = IF t = "jobs" THEN {} ELSE d.creators
<1> DEFINE g == /\ t \in d.schema.tables
                /\ \A k \in d.schema.keys : k.to = t => k.from = t
           s == [d.schema EXCEPT !.tables = @ \ {t}, !.columns = OfTable(@, t),
                                 !.keys = {k \in @ : k.from # t}, !.indexes = OfTable(@, t)]
           e == [d EXCEPT !.users    = IF t = "users" THEN << >> ELSE @,
                          !.members  = IF t = "organization_members" THEN {} ELSE @,
                          !.creators = IF t = "jobs" THEN {} ELSE @]
<1>1. x = Step(e, g, s)
  BY DEF Do, Apply, DropTable
<1>2. SchemaShape(s)
  BY DEF Shape, SchemaShape, ColumnsOf, SchemaFields, OfTable
<1>3. /\ e.users = IF t = "users" THEN << >> ELSE d.users
      /\ e.members = IF t = "organization_members" THEN {} ELSE d.members
      /\ e.creators = IF t = "jobs" THEN {} ELSE d.creators
      /\ e.ok = d.ok /\ e.schema = d.schema
      /\ e = [f \in Fields |-> e[f]]
  BY DEF Shape, Fields
<1>4. << >> = [u \in DOMAIN << >> |-> [org |-> << >>[u].org, role |-> << >>[u].role]]
  OBVIOUS
<1>5. Shape(e)
  <2> HIDE DEF e
  <2>1. e.users = [u \in DOMAIN e.users |-> [org |-> e.users[u].org, role |-> e.users[u].role]]
    BY <1>3, <1>4 DEF Shape
  <2>2. QED
    BY <1>3, <2>1 DEF Shape
<1> HIDE DEF g, s, e
<1>6. QED
  BY <1>1, <1>2, <1>3, <1>5, StepShape DEF Rows

LEMMA DropUserColumn ==
  ASSUME NEW d, Shape(d), d.ok, NEW c \in {"organization_id", "role"}, NEW pick,
         NEW x, x = Do(d, <<"drop_column", "users", c>>, pick)
  PROVE  /\ Shape(x) /\ x.members = d.members /\ x.creators = d.creators
         /\ DOMAIN x.users = DOMAIN d.users
         /\ \A u \in DOMAIN d.users : x.users[u] =
              [org  |-> IF c = "organization_id" THEN None ELSE d.users[u].org,
               role |-> IF c = "role" THEN None ELSE d.users[u].role]
<1> DEFINE g == HasColumn(d.schema, "users", c)
           s == [d.schema EXCEPT !.columns = {y \in @ : y.table # "users" \/ y.name # c}]
           e == Forget(d, "users", c)
<1>1. x = Step(e, g, s)
  BY DEF Do, Apply, DropColumn
<1>2. SchemaShape(s)
  BY DEF Shape, SchemaShape, ColumnsOf, SchemaFields
<1>3. /\ Shape(e) /\ e.members = d.members /\ e.creators = d.creators
      /\ DOMAIN e.users = DOMAIN d.users
      /\ \A u \in DOMAIN d.users : e.users[u] =
           [org  |-> IF c = "organization_id" THEN None ELSE d.users[u].org,
            role |-> IF c = "role" THEN None ELSE d.users[u].role]
  BY ForgetShape
<1> HIDE DEF g, s, e
<1>4. Shape(x) /\ Rows(x) = Rows(e)
  BY <1>1, <1>2, <1>3, StepShape
<1>5. x.users = e.users /\ x.members = e.members /\ x.creators = e.creators
  BY <1>4 DEF Rows
<1>6. QED
  BY <1>3, <1>4, <1>5

\* The backfill places who has a membership (0007, 50-63).
LEMMA BackfillOperation ==
  ASSUME NEW d, Shape(d), d.ok, NEW pick, NEW x, x = Do(d, <<"backfill">>, pick)
  PROVE  /\ Shape(x) /\ x.members = d.members /\ x.creators = d.creators
         /\ DOMAIN x.users = DOMAIN d.users
         /\ \A u \in DOMAIN d.users : x.users[u] =
              IF MembersOf(d, u) = {} THEN d.users[u]
              ELSE [org |-> pick[u].org, role |-> pick[u].role]
<1>1. x = Backfill(d, pick)
  BY DEF Do, Apply
<1>2. QED
  <2>1. x.users = [u \in DOMAIN d.users |-> IF MembersOf(d, u) = {} THEN d.users[u]
                     ELSE [org |-> pick[u].org, role |-> pick[u].role]]
    BY <1>1 DEF Backfill, Shape, Fields
  <2>2. /\ x.members = d.members /\ x.creators = d.creators /\ x.ok = d.ok
        /\ x.schema = d.schema /\ x = [f \in Fields |-> x[f]]
    BY <1>1 DEF Backfill, Shape, Fields
  <2>3. \A u \in DOMAIN d.users :
          d.users[u] = [org |-> d.users[u].org, role |-> d.users[u].role]
    BY DEF Shape
  <2>4. x.users = [u \in DOMAIN x.users |-> [org |-> x.users[u].org, role |-> x.users[u].role]]
    BY <2>1, <2>3
  <2>5. Shape(x)
    BY <2>2, <2>4 DEF Shape
  <2>6. QED
    BY <2>1, <2>2, <2>5

Unplaced(d) == {u \in DOMAIN d.users : d.users[u].org = None}

\* Who was not placed is deleted, unless jobs hold one of them (0007, 65).
LEMMA DeleteUnplacedOperation ==
  ASSUME NEW d, Shape(d), d.ok, NEW pick, NEW x, x = Do(d, <<"delete_unplaced">>, pick), x.ok
  PROVE  /\ Shape(x) /\ x.creators = d.creators /\ Unplaced(d) \cap d.creators = {}
         /\ x.members = {m \in d.members : m.user \notin Unplaced(d)}
         /\ DOMAIN x.users = DOMAIN d.users \ Unplaced(d)
         /\ \A u \in DOMAIN x.users : x.users[u] = d.users[u]
<1>1. x = DeleteUnplaced(d)
  BY DEF Do, Apply
<1>2. Unplaced(d) \cap d.creators = {}
  BY <1>1 DEF DeleteUnplaced, Unplaced, Shape, Fields
<1>3. x = [d EXCEPT !.users = [u \in DOMAIN d.users \ Unplaced(d) |-> d.users[u]],
                    !.members = {m \in d.members : m.user \notin Unplaced(d)}]
  BY <1>1, <1>2 DEF DeleteUnplaced, Unplaced
<1>4. /\ x.users = [u \in DOMAIN d.users \ Unplaced(d) |-> d.users[u]]
      /\ x.members = {m \in d.members : m.user \notin Unplaced(d)}
      /\ x.creators = d.creators /\ x.ok = d.ok
      /\ x.schema = d.schema /\ x = [f \in Fields |-> x[f]]
  BY <1>3 DEF Shape, Fields
<1>5. \A u \in DOMAIN d.users : d.users[u] = [org |-> d.users[u].org, role |-> d.users[u].role]
  BY DEF Shape
<1>6. x.users = [u \in DOMAIN x.users |-> [org |-> x.users[u].org, role |-> x.users[u].role]]
  <2>1. DOMAIN x.users = DOMAIN d.users \ Unplaced(d)
    BY <1>4
  <2>2. \A u \in DOMAIN x.users :
          x.users[u] = [org |-> x.users[u].org, role |-> x.users[u].role]
    BY <1>4, <1>5
  <2>3. x.users = [u \in DOMAIN x.users |-> x.users[u]]
    BY <1>4
  <2>4. QED
    BY <2>2, <2>3
<1>7. Shape(x)
  BY <1>4, <1>6 DEF Shape
<1>8. QED
  BY <1>2, <1>4, <1>7

LEMMA SetNotNullOperation ==
  ASSUME NEW d, Shape(d), d.ok, NEW pick, NEW x, x = Do(d, <<"set_not_null">>, pick), x.ok
  PROVE  x = d /\ \A u \in DOMAIN d.users : d.users[u].org # None /\ d.users[u].role # None
<1>1. x = SetNotNull(d)
  BY DEF Do, Apply
<1>2. QED
  BY <1>1 DEF SetNotNull, Shape, Fields

\* The downgrade's INSERT (0007, 178-192), with its column corrected.
LEMMA RebuildMembersOperation ==
  ASSUME NEW d, Shape(d), d.ok, NEW pick, NEW x, x = Do(d, <<"rebuild_members">>, pick), x.ok
  PROVE  /\ Shape(x) /\ x.users = d.users /\ x.creators = d.creators
         /\ x.members = {[user |-> u, org |-> d.users[u].org, at |-> 1,
                          role |-> d.users[u].role] : u \in DOMAIN d.users}
         /\ "user_id" \in Repaired
<1>1. x = RebuildMembers(d)
  BY DEF Do, Apply
<1>0. "user_id" \in Repaired
  BY <1>1 DEF RebuildMembers, Shape, Fields
<1> DEFINE m == {[user |-> u, org |-> d.users[u].org, at |-> 1,
                  role |-> d.users[u].role] : u \in DOMAIN d.users}
<1>2. x = [d EXCEPT !.members = m]
  BY <1>1 DEF RebuildMembers, Shape, Fields
<1> HIDE DEF m
<1>3. Shape(x) /\ x.users = d.users /\ x.creators = d.creators /\ x.members = m
  BY <1>2 DEF Shape, Fields
<1>4. QED
  BY <1>0, <1>3 DEF m

-----------------------------------------------------------------------------
(* The scripts that touch rows.                                              *)

\* What TypeOK says of the rows of a database at revision k, and that jobs exist
\* from revision 2 on.
RowsFit(d, k) ==
  /\ d.members \subseteq Member /\ \A m \in d.members : m.user \in DOMAIN d.users
  /\ DOMAIN d.users \subseteq Users /\ d.creators \subseteq DOMAIN d.users
  /\ \A u \in DOMAIN d.users :
       d.users[u] \in IF k >= Tenancy THEN [org : Orgs, role : Roles]
                                       ELSE [org : {None}, role : {None}]
  /\ k >= Tenancy => d.members = {}
  /\ k < 2 => d.creators = {}

\* 0002, downgrade: the jobs go, nobody else.
LEMMA DowngradeOfJobs ==
  ASSUME NEW d, Shape(d), NEW pick, NEW x, x = Run(d, Downgrade2, pick), x.ok
  PROVE  Shape(x) /\ x.users = d.users /\ x.members = d.members /\ x.creators = {}
<1> DEFINE n == 9
<1>1. DOMAIN Downgrade2 = 1..n /\ n \in Nat
  BY DEF Downgrade2
<1> HIDE DEF n
<1>2. PICK p : Trace(p, d, Downgrade2, n, pick) /\ p[0] = d /\ p[n] = x
               /\ \A i \in 0..n : p[i].ok
  BY <1>1, RunStages
<1>3. p[0] = d /\ p[4].ok
  BY <1>2 DEF n
<1>4. Shape(p[4]) /\ Rows(p[4]) = Rows(d)
  <2>1. NeutralBetween(Downgrade2, n, 0, 4)
    <3>1. /\ Neutral(Downgrade2[1]) /\ Neutral(Downgrade2[2])
          /\ Neutral(Downgrade2[3]) /\ Neutral(Downgrade2[4])
      BY NeutralKinds DEF Downgrade2, RowTables
    <3>2. QED
      BY <3>1 DEF NeutralBetween, n
  <2>2. QED
    BY <1>2, <1>3, <2>1, NeutralSteps
<1>5. p[5] = Do(p[4], <<"drop_table", "jobs">>, pick)
  <2>1. 5 \in 1..n /\ 5 - 1 = 4 /\ Downgrade2[5] = <<"drop_table", "jobs">>
    BY DEF Downgrade2, n
  <2>2. QED
    BY <1>2, <2>1 DEF Trace
<1>6. /\ Shape(p[5]) /\ p[5].users = p[4].users /\ p[5].members = p[4].members
      /\ p[5].creators = {}
  BY <1>3, <1>4, <1>5, DropTableOperation
<1>7. Shape(p[n]) /\ Rows(p[n]) = Rows(p[5])
  <2>1. NeutralBetween(Downgrade2, n, 5, n)
    <3>1. /\ Neutral(Downgrade2[6]) /\ Neutral(Downgrade2[7])
          /\ Neutral(Downgrade2[8]) /\ Neutral(Downgrade2[9])
      BY NeutralKinds DEF Downgrade2
    <3>2. QED
      BY <3>1 DEF NeutralBetween, n
  <2>2. QED
    BY <1>2, <1>6, <2>1, NeutralSteps
<1>8. QED
  BY <1>2, <1>4, <1>6, <1>7 DEF Rows

\* 0001, downgrade: accounts and memberships go.
LEMMA DowngradeOfAccounts ==
  ASSUME NEW d, Shape(d), NEW pick, NEW x, x = Run(d, Downgrade1, pick), x.ok
  PROVE  Shape(x) /\ x.users = << >> /\ x.members = {} /\ x.creators = d.creators
<1> DEFINE n == 5
<1>1. DOMAIN Downgrade1 = 1..n /\ n \in Nat
  BY DEF Downgrade1
<1> HIDE DEF n
<1>2. PICK p : Trace(p, d, Downgrade1, n, pick) /\ p[0] = d /\ p[n] = x
               /\ \A i \in 0..n : p[i].ok
  BY <1>1, RunStages
<1>3. p[0] = d /\ p[0].ok /\ p[1].ok /\ p[2].ok
  BY <1>2 DEF n
<1>4. /\ p[1] = Do(d, <<"drop_table", "refresh_tokens">>, pick)
      /\ p[2] = Do(p[1], <<"drop_table", "organization_members">>, pick)
      /\ p[3] = Do(p[2], <<"drop_table", "users">>, pick)
  <2>1. \A i \in 1..5 : p[i] = Do(p[i-1], Downgrade1[i], pick)
    BY <1>2 DEF Trace, n
  <2>2. /\ Downgrade1[1] = <<"drop_table", "refresh_tokens">>
        /\ Downgrade1[2] = <<"drop_table", "organization_members">>
        /\ Downgrade1[3] = <<"drop_table", "users">>
    BY DEF Downgrade1
  <2>3. p[1] = Do(p[0], Downgrade1[1], pick) /\ p[2] = Do(p[1], Downgrade1[2], pick)
        /\ p[3] = Do(p[2], Downgrade1[3], pick)
    BY <2>1
  <2>4. QED
    BY <1>3, <2>2, <2>3
<1>5. Shape(p[1]) /\ p[1].creators = d.creators
  BY <1>3, <1>4, DropTableOperation
<1>6. Shape(p[2]) /\ p[2].members = {} /\ p[2].creators = d.creators
  BY <1>3, <1>4, <1>5, DropTableOperation
<1>7. Shape(p[3]) /\ p[3].users = << >> /\ p[3].members = {} /\ p[3].creators = d.creators
  BY <1>3, <1>4, <1>6, DropTableOperation
<1>8. Shape(p[n]) /\ Rows(p[n]) = Rows(p[3])
  <2>1. NeutralBetween(Downgrade1, n, 3, n)
    <3>1. Neutral(Downgrade1[4]) /\ Neutral(Downgrade1[5])
      BY NeutralKinds DEF Downgrade1, RowTables
    <3>2. QED
      BY <3>1 DEF NeutralBetween, n
  <2>2. QED
    BY <1>2, <1>7, <2>1, NeutralSteps
<1>9. QED
  BY <1>2, <1>7, <1>8 DEF Rows

\* Where 0007 touches no row.
LEMMA NeutralOps7 ==
  /\ NeutralBetween(Upgrade7, 13, 0, 3) /\ NeutralBetween(Upgrade7, 13, 6, 8)
  /\ NeutralBetween(Upgrade7, 13, 9, 13)
<1>1. Neutral(Upgrade7[1]) /\ Neutral(Upgrade7[2]) /\ Neutral(Upgrade7[3])
  BY NeutralKinds DEF Upgrade7, ColumnNames, ColumnTypes, EnumTypes
<1>2. Neutral(Upgrade7[7]) /\ Neutral(Upgrade7[8])
  BY NeutralKinds DEF Upgrade7
<1>3. Neutral(Upgrade7[10]) /\ Neutral(Upgrade7[11]) /\ Neutral(Upgrade7[12])
      /\ Neutral(Upgrade7[13])
  BY NeutralKinds DEF Upgrade7, RowTables
<1>4. NeutralBetween(Upgrade7, 13, 0, 3)
  BY <1>1 DEF NeutralBetween
<1>5. NeutralBetween(Upgrade7, 13, 6, 8)
  BY <1>2 DEF NeutralBetween
<1>6. NeutralBetween(Upgrade7, 13, 9, 13)
  BY <1>3 DEF NeutralBetween
<1>7. QED
  BY <1>4, <1>5, <1>6

\* x is what a run that moves tenancy to the accounts makes of d.
Moved(d, x, pick) ==
  /\ x.creators = d.creators
  /\ DOMAIN x.users = {u \in DOMAIN d.users : MembersOf(d, u) # {}}
  /\ \A u \in DOMAIN x.users : x.users[u] = [org |-> pick[u].org, role |-> pick[u].role]

\* The membership that DISTINCT ON picks is an earliest of its own account.
LEMMA PickedMembership ==
  ASSUME NEW d, d.members \subseteq Member, NEW pick \in Picks(d), NEW u \in DOMAIN d.users,
         MembersOf(d, u) # {}
  PROVE  /\ pick[u] \in MembersOf(d, u) /\ pick[u] \in Member
         /\ \A n \in MembersOf(d, u) : n.at >= pick[u].at
         /\ pick[u].org # None
<1>1. pick[u] \in Earliest(d, u)
  BY DEF Picks
<1>2. pick[u] \in MembersOf(d, u) /\ \A n \in MembersOf(d, u) : pick[u].at <= n.at
  BY <1>1 DEF Earliest
<1>3. MembersOf(d, u) \subseteq Member
  BY DEF MembersOf
<1>4. pick[u] \in Member /\ \A n \in MembersOf(d, u) : n.at \in Nat
  BY <1>2, <1>3 DEF Member
<1>5. pick[u].org \in Orgs /\ pick[u].at \in Nat
  BY <1>4 DEF Member
<1>6. QED
  BY <1>2, <1>4, <1>5, NoneAssumption

\* 0007, upgrade: who has a membership is kept and placed, who has none is removed.
LEMMA UpgradeOfTenancy ==
  ASSUME NEW d, Shape(d), RowsFit(d, 6), NEW pick \in Picks(d),
         NEW x, x = Run(d, Upgrade7, pick), x.ok
  PROVE  Shape(x) /\ RowsFit(x, 7) /\ Moved(d, x, pick)
<1> DEFINE n == 13
<1>1. DOMAIN Upgrade7 = 1..n /\ n \in Nat
  BY DEF Upgrade7
<1>2. /\ NeutralBetween(Upgrade7, n, 0, 3) /\ NeutralBetween(Upgrade7, n, 6, 8)
      /\ NeutralBetween(Upgrade7, n, 9, n)
  BY NeutralOps7
<1> HIDE DEF n
<1>3. PICK p : Trace(p, d, Upgrade7, n, pick) /\ p[0] = d /\ p[n] = x
               /\ \A i \in 0..n : p[i].ok
  BY <1>1, RunStages
<1>4. p[3].ok /\ p[4].ok /\ p[5].ok /\ p[6].ok /\ p[8].ok
  BY <1>3 DEF n
<1>5. /\ p[4] = Do(p[3], <<"backfill">>, pick)
      /\ p[5] = Do(p[4], <<"delete_unplaced">>, pick)
      /\ p[6] = Do(p[5], <<"set_not_null">>, pick)
      /\ p[9] = Do(p[8], <<"drop_table", "organization_members">>, pick)
  <2>1. /\ Upgrade7[4] = <<"backfill">> /\ Upgrade7[5] = <<"delete_unplaced">>
        /\ Upgrade7[6] = <<"set_not_null">>
        /\ Upgrade7[9] = <<"drop_table", "organization_members">>
    BY DEF Upgrade7
  <2>2. \A i \in 1..13 : p[i] = Do(p[i-1], Upgrade7[i], pick)
    BY <1>3 DEF Trace, n
  <2>3. /\ p[4] = Do(p[3], Upgrade7[4], pick) /\ p[5] = Do(p[4], Upgrade7[5], pick)
        /\ p[6] = Do(p[5], Upgrade7[6], pick) /\ p[9] = Do(p[8], Upgrade7[9], pick)
    BY <2>2
  <2>4. QED
    BY <2>1, <2>3
<1>6. /\ Shape(p[3]) /\ p[3].users = d.users /\ p[3].members = d.members
      /\ p[3].creators = d.creators
  <2>1. Shape(p[3]) /\ Rows(p[3]) = Rows(d)
    BY <1>2, <1>3, NeutralSteps
  <2>2. QED
    BY <2>1 DEF Rows
<1>7. /\ Shape(p[4]) /\ p[4].members = d.members /\ p[4].creators = d.creators
      /\ DOMAIN p[4].users = DOMAIN d.users
      /\ \A u \in DOMAIN d.users : p[4].users[u] =
           IF MembersOf(d, u) = {} THEN d.users[u]
           ELSE [org |-> pick[u].org, role |-> pick[u].role]
  <2>1. \A u : MembersOf(p[3], u) = MembersOf(d, u)
    BY <1>6 DEF MembersOf
  <2>2. /\ Shape(p[4]) /\ p[4].members = p[3].members /\ p[4].creators = p[3].creators
        /\ DOMAIN p[4].users = DOMAIN p[3].users
        /\ \A u \in DOMAIN p[3].users : p[4].users[u] =
             IF MembersOf(p[3], u) = {} THEN p[3].users[u]
             ELSE [org |-> pick[u].org, role |-> pick[u].role]
    BY <1>4, <1>5, <1>6, BackfillOperation
  <2>3. QED
    BY <1>6, <2>1, <2>2
<1>8. Unplaced(p[4]) = {u \in DOMAIN d.users : MembersOf(d, u) = {}}
  <2>1. ASSUME NEW u \in DOMAIN d.users, MembersOf(d, u) = {} PROVE p[4].users[u].org = None
    <3>1. p[4].users[u] = d.users[u]
      BY <1>7, <2>1
    <3>2. d.users[u] \in [org : {None}, role : {None}]
      BY DEF RowsFit, Tenancy
    <3>3. QED
      BY <3>1, <3>2
  <2>2. ASSUME NEW u \in DOMAIN d.users, MembersOf(d, u) # {} PROVE p[4].users[u].org # None
    <3>1. pick[u].org # None
      BY <2>2, PickedMembership DEF RowsFit
    <3>2. p[4].users[u] = [org |-> pick[u].org, role |-> pick[u].role]
      BY <1>7, <2>2
    <3>3. QED
      BY <3>1, <3>2
  <2>3. QED
    BY <1>7, <2>1, <2>2 DEF Unplaced
<1>9. /\ Shape(p[5]) /\ p[5].creators = d.creators
      /\ Unplaced(p[4]) \cap d.creators = {}
      /\ DOMAIN p[5].users = DOMAIN d.users \ Unplaced(p[4])
      /\ \A u \in DOMAIN p[5].users : p[5].users[u] = p[4].users[u]
  BY <1>4, <1>5, <1>7, DeleteUnplacedOperation
<1>10. p[6] = p[5]
  BY <1>4, <1>5, <1>9, SetNotNullOperation
<1>11. /\ Shape(p[8]) /\ p[8].users = p[5].users /\ p[8].creators = d.creators
  <2>1. Shape(p[8]) /\ Rows(p[8]) = Rows(p[6])
    BY <1>2, <1>3, <1>9, <1>10, NeutralSteps
  <2>2. QED
    BY <1>9, <1>10, <2>1 DEF Rows
<1>12. /\ Shape(p[9]) /\ p[9].users = p[5].users /\ p[9].creators = d.creators
       /\ p[9].members = {}
  BY <1>4, <1>5, <1>11, DropTableOperation
<1>13. /\ Shape(x) /\ x.users = p[5].users /\ x.creators = d.creators /\ x.members = {}
  <2>1. Shape(p[n]) /\ Rows(p[n]) = Rows(p[9])
    BY <1>2, <1>3, <1>12, NeutralSteps
  <2>2. QED
    BY <1>3, <1>12, <2>1 DEF Rows
<1>14. DOMAIN x.users = {u \in DOMAIN d.users : MembersOf(d, u) # {}}
  BY <1>8, <1>9, <1>13
<1>15. \A u \in DOMAIN x.users : x.users[u] = [org |-> pick[u].org, role |-> pick[u].role]
  BY <1>7, <1>9, <1>13, <1>14
<1>16. Moved(d, x, pick)
  BY <1>13, <1>14, <1>15 DEF Moved
<1>17. RowsFit(x, 7)
  <2>1. ASSUME NEW u \in DOMAIN x.users PROVE x.users[u] \in [org : Orgs, role : Roles]
    <3>1. pick[u] \in Member
      BY <1>14, PickedMembership DEF RowsFit
    <3>2. pick[u].org \in Orgs /\ pick[u].role \in Roles
      BY <3>1 DEF Member
    <3>3. x.users[u] = [org |-> pick[u].org, role |-> pick[u].role]
      BY <1>15
    <3>4. QED
      BY <3>2, <3>3
  <2>2. d.creators \subseteq DOMAIN x.users
    BY <1>8, <1>9, <1>14 DEF RowsFit
  <2>3. DOMAIN x.users \subseteq Users
    BY <1>14 DEF RowsFit
  <2>4. QED
    BY <1>13, <2>1, <2>2, <2>3 DEF RowsFit, Tenancy
<1>18. QED
  BY <1>13, <1>16, <1>17

\* The memberships that the accounts of d amount to, one of each account.
Rebuilt(d) == {[user |-> u, org |-> d.users[u].org, at |-> 1,
                role |-> d.users[u].role] : u \in DOMAIN d.users}

\* The part of the downgrade of 0007 that touches rows.
Restoring7 ==
  << <<"create_enum", "organization_role">>, MembersTable, <<"rebuild_members">>,
     <<"drop_index", "users", "ix_users_organization_id">>, <<"drop_key", UsersKey>>,
     <<"drop_column", "users", "role">>, <<"drop_column", "users", "organization_id">>,
     <<"drop_enum", "user_role">> >>

LEMMA RestoringRows ==
  ASSUME NEW d, Shape(d), NEW pick, NEW x, x = Run(d, Restoring7, pick), x.ok
  PROVE  /\ Shape(x) /\ x.creators = d.creators /\ DOMAIN x.users = DOMAIN d.users
         /\ \A u \in DOMAIN d.users : x.users[u] = [org |-> None, role |-> None]
         /\ x.members = Rebuilt(d) /\ "user_id" \in Repaired
<1> DEFINE n == 8
<1>1. DOMAIN Restoring7 = 1..n /\ n \in Nat
  BY DEF Restoring7
<1>2. Neutral(MembersTable)
  <2>1. {Col("organization_members", "role", "organization_role")}
          \subseteq ColumnsOf({"organization_members"})
    BY DEF Col, ColumnsOf, ColumnNames, ColumnTypes, EnumTypes
  <2>2. QED
    BY <2>1, NeutralKinds DEF MembersTable
<1>3. /\ NeutralBetween(Restoring7, n, 0, 2) /\ NeutralBetween(Restoring7, n, 3, 5)
      /\ NeutralBetween(Restoring7, n, 7, n)
  <2>1. /\ Neutral(Restoring7[1]) /\ Neutral(Restoring7[2]) /\ Neutral(Restoring7[4])
        /\ Neutral(Restoring7[5]) /\ Neutral(Restoring7[8])
    BY <1>2, NeutralKinds DEF Restoring7
  <2>2. QED
    BY <2>1 DEF NeutralBetween
<1> HIDE DEF n
<1>4. PICK p : Trace(p, d, Restoring7, n, pick) /\ p[0] = d /\ p[n] = x
               /\ \A i \in 0..n : p[i].ok
  BY <1>1, RunStages
<1>5. p[2].ok /\ p[3].ok /\ p[5].ok /\ p[6].ok
  BY <1>4 DEF n
<1>6. /\ p[3] = Do(p[2], <<"rebuild_members">>, pick)
      /\ p[6] = Do(p[5], <<"drop_column", "users", "role">>, pick)
      /\ p[7] = Do(p[6], <<"drop_column", "users", "organization_id">>, pick)
  <2>1. /\ Restoring7[3] = <<"rebuild_members">>
        /\ Restoring7[6] = <<"drop_column", "users", "role">>
        /\ Restoring7[7] = <<"drop_column", "users", "organization_id">>
    BY DEF Restoring7
  <2>2. \A i \in 1..8 : p[i] = Do(p[i-1], Restoring7[i], pick)
    BY <1>4 DEF Trace, n
  <2>3. /\ p[3] = Do(p[2], Restoring7[3], pick) /\ p[6] = Do(p[5], Restoring7[6], pick)
        /\ p[7] = Do(p[6], Restoring7[7], pick)
    BY <2>2
  <2>4. QED
    BY <2>1, <2>3
<1>7. Shape(p[2]) /\ p[2].users = d.users /\ p[2].creators = d.creators
  <2>1. Shape(p[2]) /\ Rows(p[2]) = Rows(d)
    BY <1>3, <1>4, NeutralSteps
  <2>2. QED
    BY <2>1 DEF Rows
<1> DEFINE rebuilt == Rebuilt(d)
<1>8. /\ Shape(p[3]) /\ p[3].users = d.users /\ p[3].creators = d.creators
      /\ p[3].members = rebuilt /\ "user_id" \in Repaired
  BY <1>5, <1>6, <1>7, RebuildMembersOperation DEF Rebuilt
<1> HIDE DEF rebuilt
<1>9. /\ Shape(p[5]) /\ p[5].users = d.users /\ p[5].creators = d.creators
      /\ p[5].members = rebuilt
  <2>1. Shape(p[5]) /\ Rows(p[5]) = Rows(p[3])
    BY <1>3, <1>4, <1>8, NeutralSteps
  <2>2. QED
    BY <1>8, <2>1 DEF Rows
<1>10. /\ Shape(p[6]) /\ p[6].creators = d.creators /\ p[6].members = rebuilt
       /\ DOMAIN p[6].users = DOMAIN d.users
       /\ \A u \in DOMAIN d.users : p[6].users[u] = [org |-> d.users[u].org, role |-> None]
  BY <1>5, <1>6, <1>9, DropUserColumn
<1>11. /\ Shape(p[7]) /\ p[7].creators = d.creators /\ p[7].members = rebuilt
       /\ DOMAIN p[7].users = DOMAIN d.users
       /\ \A u \in DOMAIN d.users : p[7].users[u] = [org |-> None, role |-> None]
  <2>1. /\ Shape(p[7]) /\ p[7].creators = p[6].creators /\ p[7].members = p[6].members
        /\ DOMAIN p[7].users = DOMAIN p[6].users
        /\ \A u \in DOMAIN p[6].users :
             p[7].users[u] = [org |-> None, role |-> p[6].users[u].role]
    BY <1>5, <1>6, <1>10, DropUserColumn
  <2>2. \A u \in DOMAIN d.users : p[6].users[u].role = None
    <3>1. ASSUME NEW u \in DOMAIN d.users PROVE p[6].users[u].role = None
      <4>1. p[6].users[u] = [org |-> d.users[u].org, role |-> None]
        BY <1>10
      <4>2. QED
        BY <4>1
    <3>2. QED
      BY <3>1
  <2>3. QED
    BY <1>10, <2>1, <2>2
<1>12. Shape(p[n]) /\ Rows(p[n]) = Rows(p[7])
  BY <1>3, <1>4, <1>11, NeutralSteps
<1>13. QED
  BY <1>4, <1>8, <1>11, <1>12 DEF Rows, rebuilt

\* 0007, downgrade: every account is kept, and its tenancy becomes a membership.
LEMMA DowngradeOfTenancy ==
  ASSUME NEW d, Shape(d), RowsFit(d, 7), NEW pick, NEW x, x = Run(d, Downgrade7, pick), x.ok
  PROVE  /\ Shape(x) /\ RowsFit(x, 6) /\ DOMAIN x.users = DOMAIN d.users
         /\ x.members = Rebuilt(d) /\ "user_id" \in Repaired
<1> DEFINE columns == << <<"add_column", "audit_events", "request_id", "varchar(96)">>,
                         <<"add_column", "users", "is_verified", "boolean">> >>
           calm == columns \o Queue({"locked_at"})
           e == Run(d, calm, pick)
<1>1. Downgrade7 = calm \o Restoring7
  BY DEF Downgrade7, Restoring7
<1>2. Calm(calm)
  <2>1. Calm(columns)
    BY CalmTuples, NeutralKinds DEF ColumnNames, ColumnTypes
  <2>2. Calm(Queue({"locked_at"}))
    BY CalmQueue DEF ColumnNames
  <2> HIDE DEF columns
  <2>3. QED
    BY <2>1, <2>2, CalmParts
<1>3. \E S : Restoring7 \in Seq(S)
  <2>1. ASSUME NEW a, NEW b, NEW c, NEW f, NEW g, NEW h, NEW i, NEW j
        PROVE  <<a, b, c, f, g, h, i, j>> \in Seq({a, b, c, f, g, h, i, j})
    OBVIOUS
  <2>2. QED
    BY <2>1 DEF Restoring7
<1> HIDE DEF calm
<1>4. x = Run(e, Restoring7, pick)
  BY <1>1, <1>2, <1>3, RunOfParts DEF Calm
<1>5. Shape(e) /\ Rows(e) = Rows(d)
  BY <1>2, CalmRun
<1>6. e.users = d.users /\ e.creators = d.creators
  BY <1>5 DEF Rows
<1> HIDE DEF e
<1>7. /\ Shape(x) /\ x.creators = d.creators /\ DOMAIN x.users = DOMAIN d.users
      /\ \A u \in DOMAIN d.users : x.users[u] = [org |-> None, role |-> None]
      /\ x.members = Rebuilt(d) /\ "user_id" \in Repaired
  <2>1. /\ Shape(x) /\ x.creators = e.creators /\ DOMAIN x.users = DOMAIN e.users
        /\ \A u \in DOMAIN e.users : x.users[u] = [org |-> None, role |-> None]
        /\ x.members = Rebuilt(e) /\ "user_id" \in Repaired
    BY <1>4, <1>5, RestoringRows
  <2>2. Rebuilt(e) = Rebuilt(d)
    BY <1>6 DEF Rebuilt
  <2>3. QED
    BY <1>6, <2>1, <2>2
<1>8. \A u \in DOMAIN d.users : d.users[u] \in [org : Orgs, role : Roles]
  BY DEF RowsFit, Tenancy
<1>9. x.members \subseteq Member /\ \A m \in x.members : m.user \in DOMAIN d.users
  <2>1. ASSUME NEW u \in DOMAIN d.users
        PROVE  [user |-> u, org |-> d.users[u].org, at |-> 1,
                role |-> d.users[u].role] \in Member
    BY <1>8 DEF RowsFit, Member
  <2>2. QED
    BY <1>7, <2>1 DEF Rebuilt
<1>10. RowsFit(x, 6)
  BY <1>7, <1>9 DEF RowsFit, Tenancy
<1>11. QED
  BY <1>7, <1>10

-----------------------------------------------------------------------------
(* Walks along the chain.                                                    *)

LEMMA FailureStays ==
  ASSUME NEW d, NEW s, NEW n \in Nat, DOMAIN s = 1..n, NEW pick, Run(d, s, pick).ok
  PROVE  d.ok
<1>1. PICK p : p[0] = d /\ \A i \in 0..n : p[i].ok
  BY RunStages
<1>2. QED
  BY <1>1

LEMMA CalmFailure ==
  ASSUME NEW d, NEW s, Calm(s), NEW pick, Run(d, s, pick).ok
  PROVE  d.ok
<1>1. PICK S : s \in Seq(S)
  BY DEF Calm
<1>2. Len(s) \in Nat /\ DOMAIN s = 1..Len(s)
  BY <1>1
<1>3. QED
  BY <1>2, FailureStays

\* A step of the walk up other than 0007 touches no row.
LEMMA CalmUpAt ==
  ASSUME NEW d, Shape(d), NEW k \in 1..8, k # 7, NEW from, NEW to, NEW pick,
         NEW x, x = UpAt(k, d, from, to, pick)
  PROVE  /\ Shape(x) /\ x.users = d.users /\ x.members = d.members /\ x.creators = d.creators
<1>1. Calm(Ups[k])
  <2>1. /\ Ups[1] = Upgrade1 /\ Ups[2] = Upgrade2 /\ Ups[3] = Upgrade3 /\ Ups[4] = Upgrade4
        /\ Ups[5] = Upgrade5 /\ Ups[6] = Upgrade6 /\ Ups[8] = Upgrade8
    BY DEF Ups
  <2>2. k \in {1, 2, 3, 4, 5, 6, 8}
    OBVIOUS
  <2>3. QED
    BY <2>1, <2>2, CalmLiterals, CalmUpgrade2, CalmUpgrade4
<1>2. CASE from < k /\ k <= to
  <2>1. x = Run(d, Ups[k], pick)
    BY <1>2 DEF UpAt
  <2>2. Shape(x) /\ Rows(x) = Rows(d)
    BY <1>1, <2>1, CalmRun
  <2>3. QED
    BY <2>2 DEF Rows
<1>3. CASE ~(from < k /\ k <= to)
  BY <1>3 DEF UpAt
<1>4. QED
  BY <1>2, <1>3

\* What ends well after a step of the walk down was well before it.
LEMMA FailedDownAt ==
  ASSUME NEW d, NEW k \in 1..6, NEW from, NEW to, DownAt(k, d, from, to).ok
  PROVE  d.ok
<1>1. CASE to < k /\ k <= from
  <2>1. Run(d, Downs[k], << >>).ok
    BY <1>1 DEF DownAt
  <2>2. \E n \in Nat : DOMAIN Downs[k] = 1..n
    <3>1. /\ DOMAIN Downgrade1 = 1..5 /\ DOMAIN Downgrade2 = 1..9 /\ DOMAIN Downgrade3 = 1..2
          /\ DOMAIN Downgrade4 = 1..6 /\ DOMAIN Downgrade5 = 1..2 /\ DOMAIN Downgrade6 = 1..5
      BY DEF Downgrade1, Downgrade2, Downgrade3, Downgrade4, Downgrade5, Downgrade6
    <3>2. /\ Downs[1] = Downgrade1 /\ Downs[2] = Downgrade2 /\ Downs[3] = Downgrade3
          /\ Downs[4] = Downgrade4 /\ Downs[5] = Downgrade5 /\ Downs[6] = Downgrade6
      BY DEF Downs
    <3>3. k \in {1, 2, 3, 4, 5, 6} /\ 1 \in Nat
      OBVIOUS
    <3>4. QED
      BY <3>1, <3>2, <3>3
  <2>3. QED
    BY <2>1, <2>2, FailureStays
<1>2. CASE ~(to < k /\ k <= from)
  BY <1>2 DEF DownAt
<1>3. QED
  BY <1>1, <1>2

\* A step of the walk down from 8310a5722e11 or from 0006 to 0003 touches no row.
LEMMA CalmDownAt ==
  ASSUME NEW d, Shape(d), NEW k \in {3, 4, 5, 6, 8}, NEW from, NEW to,
         NEW x, x = DownAt(k, d, from, to)
  PROVE  /\ Shape(x) /\ x.users = d.users /\ x.members = d.members /\ x.creators = d.creators
<1>1. Calm(Downs[k])
  <2>1. /\ Downs[3] = Downgrade3 /\ Downs[4] = Downgrade4 /\ Downs[5] = Downgrade5
        /\ Downs[6] = Downgrade6 /\ Downs[8] = Downgrade8
    BY DEF Downs
  <2>2. QED
    BY <2>1, CalmLiterals
<1>2. CASE to < k /\ k <= from
  <2>1. x = Run(d, Downs[k], << >>)
    BY <1>2 DEF DownAt
  <2>2. Shape(x) /\ Rows(x) = Rows(d)
    BY <1>1, <2>1, CalmRun
  <2>3. QED
    BY <2>2 DEF Rows
<1>3. CASE ~(to < k /\ k <= from)
  BY <1>3 DEF DownAt
<1>4. QED
  BY <1>2, <1>3

\* A walk from from to to takes the script 0007.
Across(from, to) == from < Tenancy /\ Tenancy <= to

\* The walk up to 0006, the part before 0007.
Below7(d, from, to, pick) ==
  LET At(k, x) == UpAt(k, x, from, to, pick)
  IN  At(6, At(5, At(4, At(3, At(2, At(1, d))))))

\* It touches no row, and leaves the choices of DISTINCT ON what they were.
LEMMA RowsBelow7 ==
  ASSUME NEW d, Shape(d), NEW from, NEW to, NEW pick \in Picks(d),
         NEW x, x = Below7(d, from, to, pick)
  PROVE  /\ Shape(x) /\ x.users = d.users /\ x.members = d.members /\ x.creators = d.creators
         /\ pick \in Picks(x) /\ \A u : MembersOf(x, u) = MembersOf(d, u)
<1> DEFINE q1 == UpAt(1, d, from, to, pick)
           q2 == UpAt(2, q1, from, to, pick)
           q3 == UpAt(3, q2, from, to, pick)
           q4 == UpAt(4, q3, from, to, pick)
           q5 == UpAt(5, q4, from, to, pick)
           Same(q) == /\ Shape(q) /\ q.users = d.users /\ q.members = d.members
                      /\ q.creators = d.creators
<1>1. x = UpAt(6, q5, from, to, pick)
  BY DEF Below7
<1>2. q5 = UpAt(5, q4, from, to, pick)
  OBVIOUS
<1> HIDE DEF q5
<1>3. q4 = UpAt(4, q3, from, to, pick)
  OBVIOUS
<1> HIDE DEF q4
<1>4. q3 = UpAt(3, q2, from, to, pick)
  OBVIOUS
<1> HIDE DEF q3
<1>5. q2 = UpAt(2, q1, from, to, pick)
  OBVIOUS
<1> HIDE DEF q2
<1>6. q1 = UpAt(1, d, from, to, pick)
  OBVIOUS
<1> HIDE DEF q1
<1>7. Same(q1)
  BY <1>6, CalmUpAt
<1>8. Same(q2)
  BY <1>5, <1>7, CalmUpAt
<1>9. Same(q3)
  BY <1>4, <1>8, CalmUpAt
<1>10. Same(q4)
  BY <1>3, <1>9, CalmUpAt
<1>11. Same(q5)
  BY <1>2, <1>10, CalmUpAt
<1>12. Same(x)
  BY <1>1, <1>11, CalmUpAt
<1>13. \A u : MembersOf(x, u) = MembersOf(d, u)
  BY <1>12 DEF MembersOf
<1>14. Picks(x) = Picks(d)
  BY <1>12, <1>13 DEF Picks, Earliest
<1>15. QED
  BY <1>12, <1>13, <1>14

\* Whatever the tie-breaks, an upgrade leaves the rows alone except across 0007.
LEMMA UpgradeRows ==
  ASSUME NEW d, Shape(d), NEW from \in 0..8, NEW to \in 0..8, from < to, RowsFit(d, from),
         NEW pick \in Picks(d), NEW x, x = Up(d, from, to, pick), x.ok
  PROVE  /\ Shape(x) /\ RowsFit(x, to)
         /\ Across(from, to) => Moved(d, x, pick)
         /\ ~Across(from, to) => Rows(x) = Rows(d)
<1> DEFINE q6 == Below7(d, from, to, pick)
           q7 == UpAt(7, q6, from, to, pick)
<1>1. x = UpAt(8, q7, from, to, pick)
  BY DEF Up, Below7
<1>2. q7 = UpAt(7, q6, from, to, pick)
  OBVIOUS
<1> HIDE DEF q7
<1>3. /\ Shape(q6) /\ q6.users = d.users /\ q6.members = d.members
      /\ q6.creators = d.creators
      /\ pick \in Picks(q6) /\ \A u : MembersOf(q6, u) = MembersOf(d, u)
  BY RowsBelow7
<1> HIDE DEF q6
<1>4. Rows(q6) = Rows(d) /\ RowsFit(q6, from)
  BY <1>3 DEF Rows, RowsFit
<1>5. CASE Across(from, to)
  <2>1. q7 = Run(q6, Upgrade7, pick)
    BY <1>2, <1>5 DEF UpAt, Across, Tenancy, Ups
  <2>2. RowsFit(q6, 6)
    <3>1. ~(from >= Tenancy) /\ ~(6 >= Tenancy) /\ ~(6 < 2)
      BY <1>5 DEF Across, Tenancy
    <3>2. QED
      BY <1>4, <3>1 DEF RowsFit
  <2>3. q7.ok
    <3>1. CASE from < 8 /\ 8 <= to
      <4>1. x = Run(q7, Upgrade8, pick)
        BY <1>1, <3>1 DEF UpAt, Ups
      <4>2. QED
        BY <4>1, CalmLiterals, CalmFailure
    <3>2. CASE ~(from < 8 /\ 8 <= to)
      BY <1>1, <3>2 DEF UpAt
    <3>3. QED
      BY <3>1, <3>2
  <2>4. Shape(q7) /\ RowsFit(q7, 7) /\ Moved(q6, q7, pick)
    BY <1>3, <2>1, <2>2, <2>3, UpgradeOfTenancy
  <2>5. /\ Shape(x) /\ x.users = q7.users /\ x.members = q7.members
        /\ x.creators = q7.creators
    BY <1>1, <2>4, CalmUpAt
  <2>6. Moved(d, x, pick)
    BY <1>3, <1>4, <2>4, <2>5 DEF Moved
  <2>7. RowsFit(x, to)
    <3>1. to >= Tenancy /\ 7 >= Tenancy /\ ~(to < 2)
      BY <1>5 DEF Across, Tenancy
    <3>2. RowsFit(x, 7)
      BY <2>4, <2>5 DEF RowsFit
    <3>3. QED
      BY <3>1, <3>2 DEF RowsFit
  <2>8. QED
    BY <1>5, <2>5, <2>6, <2>7
<1>6. CASE ~Across(from, to)
  <2>1. q7 = q6
    BY <1>2, <1>6 DEF UpAt, Across, Tenancy
  <2>2. /\ Shape(x) /\ x.users = d.users /\ x.members = d.members
        /\ x.creators = d.creators
    BY <1>1, <1>3, <2>1, CalmUpAt
  <2>3. RowsFit(x, to)
    <3>1. (from >= Tenancy <=> to >= Tenancy) /\ (to < 2 => from < 2)
      BY <1>6 DEF Across, Tenancy
    <3>2. RowsFit(x, from)
      BY <2>2 DEF RowsFit
    <3>3. QED
      BY <3>1, <3>2 DEF RowsFit
  <2>4. QED
    BY <1>6, <2>2, <2>3 DEF Rows
<1>7. QED
  BY <1>5, <1>6

\* A downgrade keeps every account, except that one to 0 drops them all; across 0007 it
\* ends well only if the slip is repaired.
LEMMA DowngradeRows ==
  ASSUME NEW d, Shape(d), NEW from \in 0..8, NEW to \in 0..8, to < from, RowsFit(d, from),
         NEW x, x = Down(d, from, to), x.ok
  PROVE  /\ Shape(x) /\ RowsFit(x, to) /\ (to # 0 => DOMAIN x.users = DOMAIN d.users)
         /\ Across(to, from) /\ to # 0 => x.members = Rebuilt(d)
         /\ to >= Tenancy => x.users = d.users
         /\ Across(to, from) => "user_id" \in Repaired
<1> DEFINE q8 == DownAt(8, d, from, to)
           q7 == DownAt(7, q8, from, to)
           q6 == DownAt(6, q7, from, to)
           q5 == DownAt(5, q6, from, to)
           q4 == DownAt(4, q5, from, to)
           q3 == DownAt(3, q4, from, to)
           q2 == DownAt(2, q3, from, to)
<1>1. x = DownAt(1, q2, from, to)
  BY DEF Down
<1>2. q2 = DownAt(2, q3, from, to)
  OBVIOUS
<1> HIDE DEF q2
<1>3. q3 = DownAt(3, q4, from, to)
  OBVIOUS
<1> HIDE DEF q3
<1>4. q4 = DownAt(4, q5, from, to)
  OBVIOUS
<1> HIDE DEF q4
<1>5. q5 = DownAt(5, q6, from, to)
  OBVIOUS
<1> HIDE DEF q5
<1>6. q6 = DownAt(6, q7, from, to)
  OBVIOUS
<1> HIDE DEF q6
<1>7. q7 = DownAt(7, q8, from, to)
  OBVIOUS
<1> HIDE DEF q7
<1>8. q8 = DownAt(8, d, from, to)
  OBVIOUS
<1> HIDE DEF q8
<1>9. q2.ok /\ q3.ok /\ q4.ok /\ q5.ok /\ q6.ok /\ q7.ok
  <2>1. q2.ok
    BY <1>1, FailedDownAt
  <2>2. q3.ok
    BY <1>2, <2>1, FailedDownAt
  <2>3. q4.ok
    BY <1>3, <2>2, FailedDownAt
  <2>4. q5.ok
    BY <1>4, <2>3, FailedDownAt
  <2>5. q6.ok
    BY <1>5, <2>4, FailedDownAt
  <2>6. q7.ok
    BY <1>6, <2>5, FailedDownAt
  <2>7. QED
    BY <2>1, <2>2, <2>3, <2>4, <2>5, <2>6
<1> DEFINE k7 == IF to < 7 /\ 7 <= from THEN 6 ELSE from
<1>10. /\ Shape(q8) /\ q8.users = d.users /\ q8.members = d.members
       /\ q8.creators = d.creators
  BY <1>8, CalmDownAt
<1>11. RowsFit(q8, from)
  BY <1>10 DEF RowsFit
<1>12. /\ Shape(q7) /\ RowsFit(q7, k7) /\ DOMAIN q7.users = DOMAIN d.users
       /\ Across(to, from) => q7.members = Rebuilt(d)
       /\ to >= Tenancy => q7.users = d.users
       /\ Across(to, from) => "user_id" \in Repaired
  <2>1. CASE to < 7 /\ 7 <= from
    <3>1. q7 = Run(q8, Downgrade7, << >>)
      BY <1>7, <2>1 DEF DownAt, Downs
    <3>2. RowsFit(q8, 7)
      <4>1. from >= Tenancy /\ 7 >= Tenancy /\ ~(7 < 2)
        BY <2>1 DEF Tenancy
      <4>2. QED
        BY <1>11, <4>1 DEF RowsFit
    <3>3. /\ Shape(q7) /\ RowsFit(q7, 6) /\ DOMAIN q7.users = DOMAIN q8.users
          /\ q7.members = Rebuilt(q8) /\ "user_id" \in Repaired
      BY <1>9, <1>10, <3>1, <3>2, DowngradeOfTenancy
    <3>4. Rebuilt(q8) = Rebuilt(d)
      BY <1>10 DEF Rebuilt
    <3>5. ~(to >= Tenancy)
      BY <2>1 DEF Tenancy
    <3>6. QED
      BY <1>10, <2>1, <3>3, <3>4, <3>5
  <2>2. CASE ~(to < 7 /\ 7 <= from)
    <3>1. q7 = q8 /\ ~Across(to, from)
      BY <1>7, <2>2 DEF DownAt, Across, Tenancy
    <3>2. QED
      BY <1>10, <1>11, <2>2, <3>1
  <2>3. QED
    BY <2>1, <2>2
<1>13. /\ Shape(q3) /\ q3.users = q7.users /\ q3.members = q7.members
       /\ q3.creators = q7.creators
  <2> DEFINE Same(q) == /\ Shape(q) /\ q.users = q7.users /\ q.members = q7.members
                        /\ q.creators = q7.creators
  <2>1. Same(q6)
    BY <1>6, <1>12, CalmDownAt
  <2>2. Same(q5)
    BY <1>5, <2>1, CalmDownAt
  <2>3. Same(q4)
    BY <1>4, <2>2, CalmDownAt
  <2>4. Same(q3)
    BY <1>3, <2>3, CalmDownAt
  <2>5. QED
    BY <2>4
<1>14. /\ Shape(q2) /\ q2.users = q3.users /\ q2.members = q3.members
       /\ q2.creators = IF to < 2 /\ 2 <= from THEN {} ELSE q3.creators
  <2>1. CASE to < 2 /\ 2 <= from
    <3>1. q2 = Run(q3, Downgrade2, << >>)
      BY <1>2, <2>1 DEF DownAt, Downs
    <3>2. QED
      BY <1>9, <1>13, <2>1, <3>1, DowngradeOfJobs
  <2>2. CASE ~(to < 2 /\ 2 <= from)
    BY <1>2, <1>13, <2>2 DEF DownAt
  <2>3. QED
    BY <2>1, <2>2
<1>15. q2.creators \subseteq q7.creators /\ (to < 2 => q2.creators = {})
  <2>1. CASE to < 2 /\ 2 <= from
    BY <1>14, <2>1
  <2>2. CASE to < 2 /\ ~(2 <= from)
    <3>1. k7 < 2
      BY <2>2
    <3>2. q7.creators = {}
      BY <1>12, <3>1 DEF RowsFit
    <3>3. QED
      BY <1>13, <1>14, <2>2, <3>2
  <2>3. CASE ~(to < 2)
    BY <1>13, <1>14, <2>3
  <2>4. QED
    BY <2>1, <2>2, <2>3
<1>16. RowsFit(q2, to)
  <2>1. k7 >= Tenancy <=> to >= Tenancy
    BY DEF Tenancy
  <2> HIDE DEF k7
  <2>2. q2.users = q7.users /\ q2.members = q7.members
    BY <1>13, <1>14
  <2>3. QED
    BY <1>12, <1>15, <2>1, <2>2 DEF RowsFit
<1>17. CASE to # 0
  <2>1. x = q2
    BY <1>1, <1>17 DEF DownAt
  <2>2. QED
    BY <1>12, <1>13, <1>14, <1>16, <2>1
<1>18. CASE to = 0
  <2>1. x = Run(q2, Downgrade1, << >>)
    BY <1>1, <1>18 DEF DownAt, Downs
  <2>2. Shape(x) /\ x.users = << >> /\ x.members = {} /\ x.creators = {}
    BY <1>9, <1>14, <1>15, <1>18, <2>1, DowngradeOfAccounts
  <2>3. DOMAIN x.users = {}
    BY <2>2
  <2>4. RowsFit(x, to)
    BY <1>18, <2>2, <2>3 DEF RowsFit, Tenancy
  <2>5. QED
    BY <1>12, <1>18, <2>2, <2>4 DEF Tenancy
<1>19. QED
  BY <1>17, <1>18

-----------------------------------------------------------------------------
(* Schemas.  What an operation needs of a schema, and what it makes of it,   *)
(* told by names: the tables, the enums, the indexes, the columns that later *)
(* scripts add or drop, and whether users refer to organizations.            *)

\* The table whose columns an enum types, and the tables that refer to a table.
EnumTable ==
  [organization_role  |-> "organization_members", user_role |-> "users",
   job_status         |-> "jobs",                 resume_file_type |-> "resumes",
   resume_status      |-> "resumes",              application_status |-> "applications"]

Referrers(t) ==
  CASE t = "organizations" -> {"organization_members", "jobs", "candidates", "resumes",
                               "applications", "screening_results", "screening_jobs",
                               "audit_events", "users"}
    [] t = "users"         -> {"organization_members", "refresh_tokens", "jobs", "audit_events"}
    [] t = "jobs"          -> {"job_requirements", "applications"}
    [] t = "candidates"    -> {"resumes", "applications"}
    [] t = "resumes"       -> {"applications"}
    [] t = "applications"  -> {"screening_results", "screening_jobs"}
    [] OTHER               -> {}

\* The columns that scripts after the table's own add or drop.
Tracked ==
  {<<"users", "is_verified">>, <<"users", "organization_id">>, <<"users", "role">>,
   <<"audit_events", "request_id">>, <<"screening_results", "bias_flags">>,
   <<"screening_results", "bias_review_required">>,
   <<"screening_results", "semantic_backend">>, <<"screening_results", "pipeline_version">>}

KeysFit(s, T, K) ==
  /\ \A k \in s.keys : k.from \in T /\ k.from \in Referrers(k.to)
  /\ UsersKey \in s.keys <=> UsersKey \in K

TypesFit(c) ==
  c.type \in EnumTypes => c.table = EnumTable[c.type] /\ (c.type = "user_role" => c.name = "role")

ColumnsFit(s, C) ==
  /\ \A c \in s.columns : TypesFit(c)
  /\ \A x \in Tracked : HasColumn(s, x[1], x[2]) <=> x \in C

\* d is sound so far, has the tables T, the enums E, the indexes X (by table and name),
\* of the tracked columns those in C, and the foreign key of users if it is in K.
Fits(d, T, E, X, C, K) ==
  /\ Shape(d) /\ d.ok
  /\ d.schema.tables = T /\ d.schema.enums = E
  /\ d.schema.indexes = {Index(x[1], x[2]) : x \in X}
  /\ KeysFit(d.schema, T, K)
  /\ ColumnsFit(d.schema, C)

\* What of it the shape of a database is.
LEMMA FitsShape ==
  ASSUME NEW d, NEW T, NEW E, NEW X, NEW C, NEW K, Fits(d, T, E, X, C, K)
  PROVE  /\ Shape(d) /\ d.ok /\ SchemaShape(d.schema) /\ Typed(d, "boolean")
         /\ d.schema = [f \in SchemaFields |-> d.schema[f]]
         /\ d.schema.columns \subseteq ColumnsOf(T)
BY DEF Fits, Shape, SchemaShape, Typed, EnumTypes

\* Creating an enum adds its name, whether it was there or not.
LEMMA CreateEnumFits ==
  ASSUME NEW d, NEW T, NEW E, NEW X, NEW C, NEW K, Fits(d, T, E, X, C, K), NEW pick,
         NEW e, NEW x, x = Do(d, <<"create_enum", e>>, pick)
  PROVE  Fits(x, T, E \cup {e}, X, C, K)
<1> DEFINE s == [d.schema EXCEPT !.enums = @ \cup {e}]
           g == TRUE
<1>1. x = Step(d, g, s)
  BY FitsShape DEF Do, Apply, CreateEnum
<1>2. /\ s.tables = d.schema.tables /\ s.columns = d.schema.columns /\ s.keys = d.schema.keys
      /\ s.indexes = d.schema.indexes /\ s.enums = d.schema.enums \cup {e}
  BY FitsShape DEF SchemaFields
<1>3. g
  OBVIOUS
<1> HIDE DEF s, g
<1>4. x.ok /\ x.schema = s
  <2>1. d.ok /\ d = [f \in Fields |-> d[f]]
    BY FitsShape DEF Shape
  <2>2. QED
    BY <1>1, <1>3, <2>1 DEF Step, Fields
<1>5. Shape(x)
  BY FitsShape, NeutralOperation, NeutralKinds
<1>6. QED
  BY <1>2, <1>4, <1>5 DEF Fits, KeysFit, ColumnsFit, HasColumn

\* No column has an enum's type: its table is gone, or the column is.
LEMMA DropEnumFits ==
  ASSUME NEW d, NEW T, NEW E, NEW X, NEW C, NEW K, Fits(d, T, E, X, C, K), NEW pick,
         NEW e \in EnumTypes,
         EnumTable[e] \notin T \/ (e = "user_role" /\ <<"users", "role">> \notin C),
         NEW x, x = Do(d, <<"drop_enum", e>>, pick)
  PROVE  Fits(x, T, E \ {e}, X, C, K)
<1> DEFINE s == [d.schema EXCEPT !.enums = @ \ {e}]
           g == \A c \in d.schema.columns : c.type # e
<1>1. x = Step(d, g, s)
  BY FitsShape DEF Do, Apply, DropEnum
<1>2. /\ s.tables = d.schema.tables /\ s.columns = d.schema.columns /\ s.keys = d.schema.keys
      /\ s.indexes = d.schema.indexes /\ s.enums = d.schema.enums \ {e}
  BY FitsShape DEF SchemaFields
<1>3. g
  <2> SUFFICES ASSUME NEW c \in d.schema.columns, c.type = e PROVE FALSE
    OBVIOUS
  <2>1. c.table \in T
    <3>1. d.schema.columns \subseteq ColumnsOf(T)
      BY FitsShape
    <3>2. QED
      BY <3>1 DEF ColumnsOf
  <2>2. c.table = EnumTable[e] /\ (e = "user_role" => c.name = "role")
    BY DEF Fits, ColumnsFit, TypesFit
  <2>3. e = "user_role" /\ c.table = "users" /\ c.name = "role"
    BY <2>1, <2>2 DEF EnumTable
  <2>4. HasColumn(d.schema, "users", "role")
    BY <2>3 DEF HasColumn
  <2>5. <<"users", "role">> \in C
    <3>1. <<"users", "role">> \in Tracked /\ <<"users", "role">>[1] = "users"
          /\ <<"users", "role">>[2] = "role"
      BY DEF Tracked
    <3>2. QED
      BY <2>4, <3>1 DEF Fits, ColumnsFit
  <2>6. QED
    BY <2>1, <2>2, <2>3, <2>5
<1> HIDE DEF s, g
<1>4. x.ok /\ x.schema = s
  <2>1. d.ok /\ d = [f \in Fields |-> d[f]]
    BY FitsShape DEF Shape
  <2>2. QED
    BY <1>1, <1>3, <2>1 DEF Step, Fields
<1>5. Shape(x)
  BY FitsShape, NeutralOperation, NeutralKinds
<1>6. QED
  BY <1>2, <1>4, <1>5 DEF Fits, KeysFit, ColumnsFit, HasColumn

\* An index can be created on a table that exists, under a name that is free.
LEMMA CreateIndexFits ==
  ASSUME NEW d, NEW T, NEW E, NEW X, NEW C, NEW K, Fits(d, T, E, X, C, K), NEW pick,
         NEW t \in T, NEW i, \A y \in X : y[2] # i,
         NEW x, x = Do(d, <<"create_index", t, i>>, pick)
  PROVE  Fits(x, T, E, X \cup {<<t, i>>}, C, K)
<1> DEFINE s == [d.schema EXCEPT !.indexes = @ \cup {Index(t, i)}]
           g == t \in d.schema.tables /\ \A y \in d.schema.indexes : y.name # i
<1>1. x = Step(d, g, s)
  BY FitsShape DEF Do, Apply, CreateIndex
<1>2. /\ s.tables = d.schema.tables /\ s.columns = d.schema.columns /\ s.keys = d.schema.keys
      /\ s.enums = d.schema.enums /\ s.indexes = d.schema.indexes \cup {Index(t, i)}
  BY FitsShape DEF SchemaFields
<1>3. g
  BY DEF Fits, Index
<1> HIDE DEF s, g
<1>4. x.ok /\ x.schema = s
  <2>1. d.ok /\ d = [f \in Fields |-> d[f]]
    BY FitsShape DEF Shape
  <2>2. QED
    BY <1>1, <1>3, <2>1 DEF Step, Fields
<1>5. Shape(x)
  BY FitsShape, NeutralOperation, NeutralKinds
<1>6. s.indexes = {Index(y[1], y[2]) : y \in X \cup {<<t, i>>}}
  <2>1. d.schema.indexes = {Index(y[1], y[2]) : y \in X}
    BY DEF Fits
  <2>2. <<t, i>>[1] = t /\ <<t, i>>[2] = i
    OBVIOUS
  <2>3. QED
    BY <1>2, <2>1, <2>2
<1>7. QED
  BY <1>2, <1>4, <1>5, <1>6 DEF Fits, KeysFit, ColumnsFit, HasColumn

\* An index that exists can be dropped.
LEMMA DropIndexFits ==
  ASSUME NEW d, NEW T, NEW E, NEW X, NEW C, NEW K, Fits(d, T, E, X, C, K), NEW pick,
         NEW t, NEW i, <<t, i>> \in X, \A y \in X : y = <<y[1], y[2]>>,
         NEW x, x = Do(d, <<"drop_index", t, i>>, pick)
  PROVE  Fits(x, T, E, X \ {<<t, i>>}, C, K)
<1> DEFINE s == [d.schema EXCEPT !.indexes = @ \ {Index(t, i)}]
           g == Index(t, i) \in d.schema.indexes
<1>1. x = Step(d, g, s)
  BY FitsShape DEF Do, Apply, DropIndex
<1>2. /\ s.tables = d.schema.tables /\ s.columns = d.schema.columns /\ s.keys = d.schema.keys
      /\ s.enums = d.schema.enums /\ s.indexes = d.schema.indexes \ {Index(t, i)}
  BY FitsShape DEF SchemaFields
<1>3. g
  BY DEF Fits
<1> HIDE DEF s, g
<1>4. x.ok /\ x.schema = s
  <2>1. d.ok /\ d = [f \in Fields |-> d[f]]
    BY FitsShape DEF Shape
  <2>2. QED
    BY <1>1, <1>3, <2>1 DEF Step, Fields
<1>5. Shape(x)
  BY FitsShape, NeutralOperation, NeutralKinds
<1>6. s.indexes = {Index(y[1], y[2]) : y \in X \ {<<t, i>>}}
  <2>1. d.schema.indexes = {Index(y[1], y[2]) : y \in X}
    BY DEF Fits
  <2>2. \A y \in X : Index(y[1], y[2]) = Index(t, i) <=> y = <<t, i>>
    <3>1. ASSUME NEW y \in X, Index(y[1], y[2]) = Index(t, i) PROVE y = <<t, i>>
      <4>1. y[1] = t /\ y[2] = i
        BY <3>1 DEF Index
      <4>2. y = <<y[1], y[2]>>
        OBVIOUS
      <4>3. QED
        BY <4>1, <4>2
    <3>2. QED
      BY <3>1
  <2>3. QED
    BY <1>2, <2>1, <2>2
<1>7. QED
  BY <1>2, <1>4, <1>5, <1>6 DEF Fits, KeysFit, ColumnsFit, HasColumn

\* The foreign key of users can be created once.
LEMMA CreateKeyFits ==
  ASSUME NEW d, NEW T, NEW E, NEW X, NEW C, Fits(d, T, E, X, C, {}), NEW pick,
         "users" \in T, NEW x, x = Do(d, <<"create_key", UsersKey>>, pick)
  PROVE  Fits(x, T, E, X, C, {UsersKey})
<1> DEFINE s == [d.schema EXCEPT !.keys = @ \cup {UsersKey}]
           g == UsersKey \notin d.schema.keys
<1>1. x = Step(d, g, s)
  BY FitsShape DEF Do, Apply, CreateKey
<1>2. /\ s.tables = d.schema.tables /\ s.columns = d.schema.columns
      /\ s.enums = d.schema.enums /\ s.indexes = d.schema.indexes
      /\ s.keys = d.schema.keys \cup {UsersKey}
  BY FitsShape DEF SchemaFields
<1>3. g
  BY DEF Fits, KeysFit
<1> HIDE DEF s, g
<1>4. x.ok /\ x.schema = s
  <2>1. d.ok /\ d = [f \in Fields |-> d[f]]
    BY FitsShape DEF Shape
  <2>2. QED
    BY <1>1, <1>3, <2>1 DEF Step, Fields
<1>5. Shape(x)
  BY FitsShape, NeutralOperation, NeutralKinds
<1>6. UsersKey.from = "users" /\ UsersKey.from \in Referrers(UsersKey.to)
  BY DEF UsersKey, Key, Referrers
<1>7. QED
  BY <1>2, <1>4, <1>5, <1>6 DEF Fits, KeysFit, ColumnsFit, HasColumn

\* The foreign key of users can be dropped where it exists.
LEMMA DropKeyFits ==
  ASSUME NEW d, NEW T, NEW E, NEW X, NEW C, Fits(d, T, E, X, C, {UsersKey}), NEW pick,
         NEW x, x = Do(d, <<"drop_key", UsersKey>>, pick)
  PROVE  Fits(x, T, E, X, C, {})
<1> DEFINE s == [d.schema EXCEPT !.keys = @ \ {UsersKey}]
           g == UsersKey \in d.schema.keys
<1>1. x = Step(d, g, s)
  BY FitsShape DEF Do, Apply, DropKey
<1>2. /\ s.tables = d.schema.tables /\ s.columns = d.schema.columns
      /\ s.enums = d.schema.enums /\ s.indexes = d.schema.indexes
      /\ s.keys = d.schema.keys \ {UsersKey}
  BY FitsShape DEF SchemaFields
<1>3. g
  BY DEF Fits, KeysFit
<1> HIDE DEF s, g
<1>4. x.ok /\ x.schema = s
  <2>1. d.ok /\ d = [f \in Fields |-> d[f]]
    BY FitsShape DEF Shape
  <2>2. QED
    BY <1>1, <1>3, <2>1 DEF Step, Fields
<1>5. Shape(x)
  BY FitsShape, NeutralOperation, NeutralKinds
<1>6. QED
  BY <1>2, <1>4, <1>5 DEF Fits, KeysFit, ColumnsFit, HasColumn

\* Which of the tracked columns a table t with the columns cols has or had.
Tracks(C, D, t, cols) ==
  \A x \in Tracked : x \in D <=> x \in C \/ (x[1] = t /\ \E c \in cols : c.name = x[2])

\* A table t of the columns cols and the foreign keys keys can be created among the tables T
\* and the enums E; it turns the tracked columns C into D.
TableFits(t, cols, keys, T, E, C, D) ==
  /\ t \notin T /\ cols \subseteq ColumnsOf({t})
  /\ \A c \in cols : TypesFit(c) /\ (c.type \in EnumTypes => c.type \in E)
  /\ UsersKey \notin keys
  /\ \A k \in keys : k.from = t /\ k.to \in T /\ t \in Referrers(k.to)
  /\ Tracks(C, D, t, cols)

\* A table can be created after the tables it refers to and the enums of its columns.
LEMMA CreateTableFits ==
  ASSUME NEW d, NEW T, NEW E, NEW X, NEW C, NEW K, Fits(d, T, E, X, C, K), NEW pick,
         NEW t, NEW cols, NEW keys, NEW D, TableFits(t, cols, keys, T, E, C, D),
         NEW x, x = Do(d, <<"create_table", t, cols, keys>>, pick)
  PROVE  Fits(x, T \cup {t}, E, X, D, K)
<1>0. /\ t \notin T /\ cols \subseteq ColumnsOf({t})
      /\ \A c \in cols : TypesFit(c) /\ (c.type \in EnumTypes => c.type \in E)
      /\ UsersKey \notin keys
      /\ \A k \in keys : k.from = t /\ k.to \in T /\ t \in Referrers(k.to)
      /\ Tracks(C, D, t, cols)
  BY DEF TableFits
<1> DEFINE s == [d.schema EXCEPT !.tables = @ \cup {t}, !.columns = @ \cup cols,
                                 !.keys = @ \cup keys]
           g == /\ t \notin d.schema.tables
                /\ \A c \in cols : Typed(d, c.type)
                /\ \A k \in keys : k.to \in d.schema.tables
<1>1. x = Step(d, g, s)
  BY FitsShape DEF Do, Apply, CreateTable
<1>2. /\ s.tables = d.schema.tables \cup {t} /\ s.columns = d.schema.columns \cup cols
      /\ s.keys = d.schema.keys \cup keys
      /\ s.enums = d.schema.enums /\ s.indexes = d.schema.indexes
  BY FitsShape DEF SchemaFields
<1>3. g
  BY <1>0 DEF Fits, Typed
<1> HIDE DEF s, g
<1>4. x.ok /\ x.schema = s
  <2>1. d.ok /\ d = [f \in Fields |-> d[f]]
    BY FitsShape DEF Shape
  <2>2. QED
    BY <1>1, <1>3, <2>1 DEF Step, Fields
<1>5. Shape(x)
  BY <1>0, FitsShape, NeutralOperation, NeutralKinds
<1>6. KeysFit(s, T \cup {t}, K)
  <2>1. KeysFit(d.schema, T, K)
    BY DEF Fits
  <2>2. QED
    BY <1>0, <1>2, <2>1 DEF KeysFit
<1>7. ColumnsFit(s, D)
  <2>1. ColumnsFit(d.schema, C)
    BY DEF Fits
  <2>2. \A c \in cols : c.table = t
    BY <1>0 DEF ColumnsOf
  <2>3. \A y \in Tracked : HasColumn(s, y[1], y[2]) <=> y \in D
    <3>1. ASSUME NEW y \in Tracked PROVE HasColumn(s, y[1], y[2]) <=> y \in D
      <4>1. HasColumn(s, y[1], y[2]) <=>
              HasColumn(d.schema, y[1], y[2]) \/ (y[1] = t /\ \E c \in cols : c.name = y[2])
        BY <1>2, <2>2 DEF HasColumn
      <4>2. QED
        BY <1>0, <2>1, <4>1 DEF ColumnsFit, Tracks
    <3>2. QED
      BY <3>1
  <2>4. QED
    BY <1>0, <1>2, <2>1, <2>3 DEF ColumnsFit
<1>8. QED
  BY <1>2, <1>4, <1>5, <1>6, <1>7 DEF Fits

\* A table is dropped with its columns, keys and indexes, once nothing refers to it.
LEMMA DropTableFits ==
  ASSUME NEW d, NEW T, NEW E, NEW X, NEW C, NEW K, Fits(d, T, E, X, C, K), NEW pick,
         NEW t \in T, Referrers(t) \cap T \subseteq {t}, t = "users" => UsersKey \notin K,
         NEW x, x = Do(d, <<"drop_table", t>>, pick)
  PROVE  Fits(x, T \ {t}, E, {y \in X : y[1] # t}, {y \in C : y[1] # t}, K)
<1> DEFINE g == /\ t \in d.schema.tables
                /\ \A k \in d.schema.keys : k.to = t => k.from = t
           s == [d.schema EXCEPT !.tables = @ \ {t}, !.columns = OfTable(@, t),
                                 !.keys = {k \in @ : k.from # t}, !.indexes = OfTable(@, t)]
           e == [d EXCEPT !.users    = IF t = "users" THEN << >> ELSE @,
                          !.members  = IF t = "organization_members" THEN {} ELSE @,
                          !.creators = IF t = "jobs" THEN {} ELSE @]
<1>1. x = Step(e, g, s)
  BY FitsShape DEF Do, Apply, DropTable
<1>2. /\ s.tables = d.schema.tables \ {t} /\ s.columns = OfTable(d.schema.columns, t)
      /\ s.keys = {k \in d.schema.keys : k.from # t}
      /\ s.enums = d.schema.enums /\ s.indexes = OfTable(d.schema.indexes, t)
  BY FitsShape DEF SchemaFields
<1>3. g
  BY DEF Fits, KeysFit
<1>4. e.ok /\ e = [f \in Fields |-> e[f]]
  BY FitsShape DEF Shape, Fields
<1> HIDE DEF s, g, e
<1>5. x.ok /\ x.schema = s
  BY <1>1, <1>3, <1>4 DEF Step, Fields
<1>6. Shape(x)
  BY FitsShape, DropTableOperation
<1>7. KeysFit(s, T \ {t}, K)
  <2>1. KeysFit(d.schema, T, K)
    BY DEF Fits
  <2>2. UsersKey.from = "users"
    BY DEF UsersKey, Key
  <2>3. QED
    BY <1>2, <2>1, <2>2 DEF KeysFit
<1>8. ColumnsFit(s, {y \in C : y[1] # t})
  <2>1. ColumnsFit(d.schema, C)
    BY DEF Fits
  <2>2. \A y \in Tracked : HasColumn(s, y[1], y[2]) <=> y[1] # t /\ HasColumn(d.schema, y[1],
                                                                              y[2])
    BY <1>2 DEF HasColumn, OfTable
  <2>3. QED
    BY <1>2, <2>1, <2>2 DEF ColumnsFit, OfTable
<1>9. s.indexes = {Index(y[1], y[2]) : y \in {z \in X : z[1] # t}}
  <2>1. d.schema.indexes = {Index(y[1], y[2]) : y \in X}
    BY DEF Fits
  <2>2. \A y \in X : Index(y[1], y[2]).table = y[1]
    BY DEF Index
  <2>3. QED
    BY <1>2, <2>1, <2>2 DEF OfTable
<1>10. QED
  BY <1>2, <1>5, <1>6, <1>7, <1>8, <1>9 DEF Fits

\* A tracked column that is not there can be added, if its enum is there.
LEMMA AddColumnFits ==
  ASSUME NEW d, NEW T, NEW E, NEW X, NEW C, NEW K, Fits(d, T, E, X, C, K), NEW pick,
         NEW t \in T, NEW c \in ColumnNames, NEW type \in ColumnTypes,
         <<t, c>> \in Tracked \ C, TypesFit(Col(t, c, type)), type \in EnumTypes => type \in E,
         NEW x, x = Do(d, <<"add_column", t, c, type>>, pick)
  PROVE  Fits(x, T, E, X, C \cup {<<t, c>>}, K)
<1> DEFINE g == /\ t \in d.schema.tables /\ Typed(d, type) /\ ~HasColumn(d.schema, t, c)
           s == [d.schema EXCEPT !.columns = @ \cup {Col(t, c, type)}]
<1>1. x = Step(d, g, s)
  BY FitsShape DEF Do, Apply, AddColumn
<1>2. /\ s.tables = d.schema.tables /\ s.columns = d.schema.columns \cup {Col(t, c, type)}
      /\ s.keys = d.schema.keys /\ s.enums = d.schema.enums /\ s.indexes = d.schema.indexes
  BY FitsShape DEF SchemaFields
<1>3. <<t, c>>[1] = t /\ <<t, c>>[2] = c
  OBVIOUS
<1>4. g
  <2>1. ~HasColumn(d.schema, t, c)
    BY <1>3 DEF Fits, ColumnsFit
  <2>2. QED
    BY <2>1 DEF Fits, Typed
<1> HIDE DEF s, g
<1>5. x.ok /\ x.schema = s
  <2>1. d.ok /\ d = [f \in Fields |-> d[f]]
    BY FitsShape DEF Shape
  <2>2. QED
    BY <1>1, <1>4, <2>1 DEF Step, Fields
<1>6. Shape(x)
  BY FitsShape, NeutralOperation, NeutralKinds
<1>7. ColumnsFit(s, C \cup {<<t, c>>})
  <2>1. ColumnsFit(d.schema, C)
    BY DEF Fits
  <2>2. Col(t, c, type).table = t /\ Col(t, c, type).name = c
    BY DEF Col
  <2>3. \A y \in Tracked : HasColumn(s, y[1], y[2]) <=>
          HasColumn(d.schema, y[1], y[2]) \/ (y[1] = t /\ y[2] = c)
    BY <1>2, <2>2 DEF HasColumn
  <2>4. \A y \in Tracked : y[1] = t /\ y[2] = c <=> y = <<t, c>>
    BY <1>3 DEF Tracked
  <2>5. QED
    BY <1>2, <2>1, <2>3, <2>4 DEF ColumnsFit
<1>8. QED
  BY <1>2, <1>5, <1>6, <1>7 DEF Fits, KeysFit

\* A tracked column that is there can be dropped.
LEMMA DropColumnFits ==
  ASSUME NEW d, NEW T, NEW E, NEW X, NEW C, NEW K, Fits(d, T, E, X, C, K), NEW pick,
         NEW t, NEW c, <<t, c>> \in Tracked \cap C,
         NEW x, x = Do(d, <<"drop_column", t, c>>, pick)
  PROVE  Fits(x, T, E, X, C \ {<<t, c>>}, K)
<1> DEFINE g == HasColumn(d.schema, t, c)
           s == [d.schema EXCEPT !.columns = {y \in @ : y.table # t \/ y.name # c}]
           e == Forget(d, t, c)
<1>1. x = Step(e, g, s)
  <2>1. d.ok /\ Shape(d)
    BY FitsShape
  <2> HIDE DEF s
  <2>2. e.schema = d.schema
    BY <2>1, ForgetShape
  <2> USE DEF s
  <2>3. QED
    BY <2>1, <2>2 DEF Do, Apply, DropColumn
<1>2. /\ s.tables = d.schema.tables
      /\ s.columns = {y \in d.schema.columns : y.table # t \/ y.name # c}
      /\ s.keys = d.schema.keys /\ s.enums = d.schema.enums /\ s.indexes = d.schema.indexes
  BY FitsShape DEF SchemaFields
<1>3. <<t, c>>[1] = t /\ <<t, c>>[2] = c
  OBVIOUS
<1>4. g
  BY <1>3 DEF Fits, ColumnsFit
<1>5. Shape(e) /\ e.ok
  <2>1. d.ok /\ Shape(d)
    BY FitsShape
  <2>2. QED
    BY <2>1, ForgetShape
<1>6. SchemaShape(s)
  BY FitsShape DEF SchemaShape, ColumnsOf, SchemaFields
<1> HIDE DEF s, g, e
<1>7. x.ok /\ x.schema = s
  <2>1. e = [f \in Fields |-> e[f]]
    BY <1>5 DEF Shape
  <2>2. QED
    BY <1>1, <1>4, <1>5, <2>1 DEF Step, Fields
<1>8. Shape(x)
  BY <1>1, <1>5, <1>6, StepShape
<1>9. ColumnsFit(s, C \ {<<t, c>>})
  <2>1. ColumnsFit(d.schema, C)
    BY DEF Fits
  <2>2. \A y \in Tracked : HasColumn(s, y[1], y[2]) <=>
          HasColumn(d.schema, y[1], y[2]) /\ ~(y[1] = t /\ y[2] = c)
    BY <1>2 DEF HasColumn
  <2>3. \A y \in Tracked : y[1] = t /\ y[2] = c <=> y = <<t, c>>
    BY <1>3 DEF Tracked
  <2>4. QED
    BY <1>2, <2>1, <2>2, <2>3 DEF ColumnsFit
<1>10. QED
  BY <1>2, <1>7, <1>8, <1>9 DEF Fits, KeysFit

\* What is not about the schema keeps it.
LEMMA SameSchemaFits ==
  ASSUME NEW d, NEW T, NEW E, NEW X, NEW C, NEW K, Fits(d, T, E, X, C, K),
         NEW x, Shape(x), x.ok, x.schema = d.schema
  PROVE  Fits(x, T, E, X, C, K)
BY DEF Fits, KeysFit, ColumnsFit

-----------------------------------------------------------------------------
(* What each revision has.                                                   *)

Between(k, lo, hi, S) == IF lo <= k /\ k <= hi THEN S ELSE {}

AccountTables == {"organizations", "users", "refresh_tokens"}
HiringTables  == {"jobs", "job_requirements", "candidates", "resumes", "applications"}
HiringEnums   == {"job_status", "resume_file_type", "resume_status", "application_status"}
HiringIndexes ==
  {<<"jobs", "ix_jobs_organization_id">>, <<"jobs", "ix_jobs_status">>,
   <<"job_requirements", "ix_job_requirements_job_id">>,
   <<"candidates", "ix_candidates_organization_id">>, <<"candidates", "ix_candidates_email">>,
   <<"resumes", "ix_resumes_organization_id">>, <<"resumes", "ix_resumes_candidate_id">>,
   <<"resumes", "ix_resumes_sha256">>,
   <<"applications", "ix_applications_organization_id">>,
   <<"applications", "ix_applications_job_id">>,
   <<"applications", "ix_applications_candidate_id">>,
   <<"applications", "ix_applications_status">>}
QueueIndexes ==
  {<<"screening_jobs", "ix_screening_jobs_org_status">>,
   <<"screening_jobs", "ix_screening_jobs_available_at">>}
AuditIndexes ==
  {<<"audit_events", "ix_audit_events_org_created">>,
   <<"audit_events", "ix_audit_events_entity">>}
SortIndexes ==
  {<<"screening_results", "ix_screening_results_org_score">>,
   <<"applications", "ix_applications_org_submitted">>}
BiasColumns ==
  {<<"screening_results", "bias_flags">>, <<"screening_results", "bias_review_required">>,
   <<"screening_results", "semantic_backend">>, <<"screening_results", "pipeline_version">>}

TablesAt(k) ==
  Between(k, 1, 8, AccountTables) \cup Between(k, 1, 6, {"organization_members"})
  \cup Between(k, 2, 8, HiringTables) \cup Between(k, 3, 8, {"screening_results"})
  \cup Between(k, 4, 6, {"screening_jobs"}) \cup Between(k, 4, 8, {"audit_events"})

EnumsAt(k) ==
  Between(k, 1, 6, {"organization_role"}) \cup Between(k, 2, 8, HiringEnums)
  \cup Between(k, 7, 8, {"user_role"})

IndexesAt(k) ==
  Between(k, 2, 8, HiringIndexes)
  \cup Between(k, 3, 8, {<<"screening_results", "ix_screening_results_organization_id">>})
  \cup Between(k, 4, 6, QueueIndexes) \cup Between(k, 4, 8, AuditIndexes)
  \cup Between(k, 5, 8, SortIndexes)
  \cup Between(k, 6, 8, {<<"screening_results", "ix_screening_results_bias_review">>})
  \cup Between(k, 7, 8, {<<"users", "ix_users_organization_id">>})

ColumnsAt(k) ==
  Between(k, 1, 6, {<<"users", "is_verified">>}) \cup Between(k, 8, 8, {<<"users",
                                                                          "is_verified">>})
  \cup Between(k, 4, 6, {<<"audit_events", "request_id">>}) \cup Between(k, 6, 8, BiasColumns)
  \cup Between(k, 7, 8, {<<"users", "organization_id">>, <<"users", "role">>})

KeysAt(k) == Between(k, 7, 8, {UsersKey})

\* d is sound so far and has what its revision k has.
FitsAt(d, k) == Fits(d, TablesAt(k), EnumsAt(k), IndexesAt(k), ColumnsAt(k), KeysAt(k))

\* The names of each revision, as a change of those of the one before it.
LEMMA TableSets ==
  /\ TablesAt(0) = {} /\ TablesAt(1) = AccountTables \cup {"organization_members"}
  /\ TablesAt(2) = TablesAt(1) \cup HiringTables
  /\ TablesAt(3) = TablesAt(2) \cup {"screening_results"}
  /\ TablesAt(4) = TablesAt(3) \cup {"screening_jobs", "audit_events"}
  /\ TablesAt(5) = TablesAt(4) /\ TablesAt(6) = TablesAt(4)
  /\ TablesAt(7) = AccountTables \cup HiringTables \cup {"screening_results", "audit_events"}
  /\ TablesAt(8) = TablesAt(7)
BY DEF TablesAt, Between

LEMMA EnumSets ==
  /\ EnumsAt(0) = {} /\ EnumsAt(1) = {"organization_role"}
  /\ \A k \in 2..6 : EnumsAt(k) = {"organization_role"} \cup HiringEnums
  /\ \A k \in 7..8 : EnumsAt(k) = {"user_role"} \cup HiringEnums
BY DEF EnumsAt, Between

LEMMA IndexSets ==
  /\ IndexesAt(0) = {} /\ IndexesAt(1) = {}
  /\ IndexesAt(2) = HiringIndexes
  /\ IndexesAt(3) = HiringIndexes
                      \cup {<<"screening_results", "ix_screening_results_organization_id">>}
  /\ IndexesAt(4) = IndexesAt(3) \cup QueueIndexes \cup AuditIndexes
  /\ IndexesAt(5) = IndexesAt(4) \cup SortIndexes
  /\ IndexesAt(6) = IndexesAt(5)
                      \cup {<<"screening_results", "ix_screening_results_bias_review">>}
  /\ IndexesAt(7) = IndexesAt(3) \cup AuditIndexes \cup SortIndexes
                      \cup {<<"screening_results", "ix_screening_results_bias_review">>,
                            <<"users", "ix_users_organization_id">>}
  /\ IndexesAt(8) = IndexesAt(7)
BY DEF IndexesAt, Between

LEMMA ColumnSets ==
  /\ ColumnsAt(0) = {}
  /\ ColumnsAt(1) = {<<"users", "is_verified">>}
  /\ ColumnsAt(2) = ColumnsAt(1) /\ ColumnsAt(3) = ColumnsAt(1)
  /\ ColumnsAt(4) = {<<"users", "is_verified">>, <<"audit_events", "request_id">>}
  /\ ColumnsAt(5) = ColumnsAt(4)
  /\ ColumnsAt(6) = ColumnsAt(5) \cup BiasColumns
  /\ ColumnsAt(7) = BiasColumns \cup {<<"users", "organization_id">>, <<"users", "role">>}
  /\ ColumnsAt(8) = ColumnsAt(7) \cup {<<"users", "is_verified">>}
BY DEF ColumnsAt, Between

LEMMA KeySets ==
  (\A k \in 0..6 : KeysAt(k) = {}) /\ KeysAt(7) = {UsersKey} /\ KeysAt(8) = {UsersKey}
BY DEF KeysAt, Between

-----------------------------------------------------------------------------
(* The schema of each script's run.                                          *)

\* 0001 creates the accounts, the organizations and the memberships.
LEMMA Upgrade1Fits ==
  ASSUME NEW d, FitsAt(d, 0), NEW pick
  PROVE  FitsAt(Run(d, Upgrade1, pick), 1)
<1> DEFINE n == 5
           member == {Col("organization_members", "role", "organization_role")}
           memberKeys == {Key("organization_members", "organizations", "CASCADE"),
                          Key("organization_members", "users", "CASCADE")}
           tokenKeys == {Key("refresh_tokens", "users", "CASCADE")}
           T1 == {} \cup {"organizations"}
           T2 == T1 \cup {"users"}
           T3 == T2 \cup {"organization_members"}
           T4 == T3 \cup {"refresh_tokens"}
           E == {} \cup {"organization_role"}
           C == {<<"users", "is_verified">>}
<1>1. DOMAIN Upgrade1 = 1..n /\ n \in Nat
  BY DEF Upgrade1
<1> HIDE DEF n
<1>2. PICK p : Trace(p, d, Upgrade1, n, pick) /\ Run(d, Upgrade1, pick) = p[n]
  BY <1>1, RunSteps
<1>3. /\ p[0] = d /\ Run(d, Upgrade1, pick) = p[5]
      /\ p[1] = Do(p[0], <<"create_enum", "organization_role">>, pick)
      /\ p[2] = Do(p[1], <<"create_table", "organizations", {}, {}>>, pick)
      /\ p[3] = Do(p[2], <<"create_table", "users", UserColumns, {}>>, pick)
      /\ p[4] = Do(p[3], <<"create_table", "organization_members", member, memberKeys>>, pick)
      /\ p[5] = Do(p[4], <<"create_table", "refresh_tokens", {}, tokenKeys>>, pick)
  <2>1. \A i \in 1..5 : p[i] = Do(p[i-1], Upgrade1[i], pick)
    BY <1>2 DEF Trace, n
  <2>2. /\ Upgrade1[1] = <<"create_enum", "organization_role">>
        /\ Upgrade1[2] = <<"create_table", "organizations", {}, {}>>
        /\ Upgrade1[3] = <<"create_table", "users", UserColumns, {}>>
        /\ Upgrade1[4] = <<"create_table", "organization_members", member, memberKeys>>
        /\ Upgrade1[5] = <<"create_table", "refresh_tokens", {}, tokenKeys>>
    BY DEF Upgrade1, MembersTable
  <2>3. /\ p[1] = Do(p[0], Upgrade1[1], pick) /\ p[2] = Do(p[1], Upgrade1[2], pick)
        /\ p[3] = Do(p[2], Upgrade1[3], pick) /\ p[4] = Do(p[3], Upgrade1[4], pick)
        /\ p[5] = Do(p[4], Upgrade1[5], pick)
    BY <2>1
  <2> HIDE DEF member, memberKeys, tokenKeys
  <2>4. QED
    BY <1>2, <2>2, <2>3 DEF Trace, n
<1>4. Fits(p[0], {}, {}, {}, {}, {})
  <2>1. /\ TablesAt(0) = {} /\ EnumsAt(0) = {} /\ IndexesAt(0) = {} /\ ColumnsAt(0) = {}
        /\ KeysAt(0) = {}
    BY TableSets, EnumSets, IndexSets, ColumnSets, KeySets
  <2>2. QED
    BY <1>3, <2>1 DEF FitsAt
<1>5. /\ TableFits("organizations", {}, {}, {}, E, {}, {})
      /\ TableFits("users", UserColumns, {}, T1, E, {}, C)
      /\ TableFits("organization_members", member, memberKeys, T2, E, C, C)
      /\ TableFits("refresh_tokens", {}, tokenKeys, T3, E, C, C)
  <2>1. TableFits("organizations", {}, {}, {}, E, {}, {})
    BY DEF TableFits, Tracks
  <2>2. TableFits("users", UserColumns, {}, T1, E, {}, C)
    BY DEF TableFits, Tracks, Tracked, UserColumns, Col, ColumnsOf, TypesFit, ColumnNames,
           ColumnTypes, EnumTypes
  <2>3. TableFits("organization_members", member, memberKeys, T2, E, C, C)
    BY DEF TableFits, Tracks, Tracked, Col, ColumnsOf, TypesFit, ColumnNames,
           ColumnTypes, EnumTypes, EnumTable, Key, UsersKey, Referrers
  <2>4. TableFits("refresh_tokens", {}, tokenKeys, T3, E, C, C)
    BY DEF TableFits, Tracks, Tracked, Key, UsersKey, Referrers
  <2>5. QED
    BY <2>1, <2>2, <2>3, <2>4
<1> HIDE DEF member, memberKeys, tokenKeys
<1>6. Fits(p[1], {}, E, {}, {}, {})
  BY <1>3, <1>4, CreateEnumFits
<1> HIDE DEF E, C
<1>7. Fits(p[2], T1, E, {}, {}, {})
  BY <1>3, <1>5, <1>6, CreateTableFits
<1>8. Fits(p[3], T2, E, {}, C, {})
  BY <1>3, <1>5, <1>7, CreateTableFits
<1>9. Fits(p[4], T3, E, {}, C, {})
  BY <1>3, <1>5, <1>8, CreateTableFits
<1>10. Fits(p[5], T4, E, {}, C, {})
  BY <1>3, <1>5, <1>9, CreateTableFits
<1>11. T4 = TablesAt(1) /\ E = EnumsAt(1) /\ C = ColumnsAt(1) /\ {} = IndexesAt(1)
       /\ {} = KeysAt(1)
  BY TableSets, EnumSets, IndexSets, ColumnSets, KeySets DEF E, C, AccountTables
<1> HIDE DEF T4
<1>12. QED
  BY <1>3, <1>10, <1>11 DEF FitsAt

\* 0003 adds the results of screenings.
LEMMA Upgrade3Fits ==
  ASSUME NEW d, FitsAt(d, 2), NEW pick
  PROVE  FitsAt(Run(d, Upgrade3, pick), 3)
<1> DEFINE n == 2
           keys == {Key("screening_results", "organizations", "CASCADE"),
                    Key("screening_results", "applications", "CASCADE")}
           T1 == TablesAt(2) \cup {"screening_results"}
           X1 == IndexesAt(2) \cup {<<"screening_results",
                                      "ix_screening_results_organization_id">>}
<1>1. DOMAIN Upgrade3 = 1..n /\ n \in Nat
  BY DEF Upgrade3
<1> HIDE DEF n
<1>2. PICK p : Trace(p, d, Upgrade3, n, pick) /\ Run(d, Upgrade3, pick) = p[n]
  BY <1>1, RunSteps
<1>3. /\ p[0] = d /\ Run(d, Upgrade3, pick) = p[2]
      /\ p[1] = Do(p[0], <<"create_table", "screening_results", {}, keys>>, pick)
      /\ p[2] = Do(p[1], <<"create_index", "screening_results",
                           "ix_screening_results_organization_id">>, pick)
  <2>1. \A i \in 1..2 : p[i] = Do(p[i-1], Upgrade3[i], pick)
    BY <1>2 DEF Trace, n
  <2>2. /\ Upgrade3[1] = <<"create_table", "screening_results", {}, keys>>
        /\ Upgrade3[2] = <<"create_index", "screening_results",
                           "ix_screening_results_organization_id">>
    BY DEF Upgrade3
  <2>3. /\ p[1] = Do(p[0], Upgrade3[1], pick) /\ p[2] = Do(p[1], Upgrade3[2], pick)
    BY <2>1
  <2> HIDE DEF keys
  <2>4. QED
    BY <1>2, <2>2, <2>3 DEF Trace, n
<1>4. Fits(p[0], TablesAt(2), EnumsAt(2), IndexesAt(2), ColumnsAt(2), KeysAt(2))
  BY <1>3 DEF FitsAt
<1>5. TableFits("screening_results", {}, keys, TablesAt(2), EnumsAt(2), ColumnsAt(2),
                ColumnsAt(2))
  BY TableSets, EnumSets DEF TableFits, Tracks, Tracked, Col, ColumnsOf, TypesFit,
    ColumnNames, ColumnTypes, EnumTypes, EnumTable, Key, UsersKey, Referrers, AccountTables,
    HiringTables, HiringEnums
<1>6. /\ "screening_results" \in T1
      /\ \A y \in IndexesAt(2) : y[2] # "ix_screening_results_organization_id"
  BY TableSets, IndexSets DEF AccountTables, HiringTables, HiringIndexes, QueueIndexes,
    AuditIndexes, SortIndexes
<1>7. /\ T1 = TablesAt(3)
      /\ EnumsAt(2) = EnumsAt(3)
      /\ X1 = IndexesAt(3)
      /\ ColumnsAt(2) = ColumnsAt(3)
      /\ KeysAt(2) = KeysAt(3)
  <2>1. T1 = TablesAt(3)
    BY TableSets DEF AccountTables, HiringTables
  <2>2. EnumsAt(2) = EnumsAt(3)
    BY EnumSets DEF HiringEnums
  <2>3. X1 = IndexesAt(3)
    BY IndexSets DEF HiringIndexes, QueueIndexes, AuditIndexes, SortIndexes
  <2>4. ColumnsAt(2) = ColumnsAt(3)
    BY ColumnSets DEF BiasColumns
  <2>5. KeysAt(2) = KeysAt(3)
    BY KeySets
  <2>6. QED
    BY <2>1, <2>2, <2>3, <2>4, <2>5
<1> HIDE DEF keys
<1>8. Fits(p[1], T1, EnumsAt(2), IndexesAt(2), ColumnsAt(2), KeysAt(2))
  BY <1>3, <1>4, <1>5, CreateTableFits
<1>9. Fits(p[2], T1, EnumsAt(2), X1, ColumnsAt(2), KeysAt(2))
  BY <1>3, <1>8, <1>6, CreateIndexFits
<1>10. QED
  BY <1>3, <1>9, <1>7 DEF FitsAt

\* 0003, downgrade.
LEMMA Downgrade3Fits ==
  ASSUME NEW d, FitsAt(d, 3), NEW pick
  PROVE  FitsAt(Run(d, Downgrade3, pick), 2)
<1> DEFINE n == 2
           X1 == IndexesAt(3) \ {<<"screening_results", "ix_screening_results_organization_id">>}
           T1 == TablesAt(3) \ {"screening_results"}
           X2 == {y \in X1 : y[1] # "screening_results"}
           C1 == {y \in ColumnsAt(3) : y[1] # "screening_results"}
<1>1. DOMAIN Downgrade3 = 1..n /\ n \in Nat
  BY DEF Downgrade3
<1> HIDE DEF n
<1>2. PICK p : Trace(p, d, Downgrade3, n, pick) /\ Run(d, Downgrade3, pick) = p[n]
  BY <1>1, RunSteps
<1>3. /\ p[0] = d /\ Run(d, Downgrade3, pick) = p[2]
      /\ p[1] = Do(p[0], <<"drop_index", "screening_results",
                           "ix_screening_results_organization_id">>, pick)
      /\ p[2] = Do(p[1], <<"drop_table", "screening_results">>, pick)
  <2>1. \A i \in 1..2 : p[i] = Do(p[i-1], Downgrade3[i], pick)
    BY <1>2 DEF Trace, n
  <2>2. /\ Downgrade3[1] = <<"drop_index", "screening_results",
                             "ix_screening_results_organization_id">>
        /\ Downgrade3[2] = <<"drop_table", "screening_results">>
    BY DEF Downgrade3
  <2>3. /\ p[1] = Do(p[0], Downgrade3[1], pick) /\ p[2] = Do(p[1], Downgrade3[2], pick)
    BY <2>1
  <2>4. QED
    BY <1>2, <2>2, <2>3 DEF Trace, n
<1>4. Fits(p[0], TablesAt(3), EnumsAt(3), IndexesAt(3), ColumnsAt(3), KeysAt(3))
  BY <1>3 DEF FitsAt
<1>5. /\ <<"screening_results", "ix_screening_results_organization_id">> \in IndexesAt(3)
      /\ \A y \in IndexesAt(3) : y = <<y[1], y[2]>>
  BY TableSets, IndexSets DEF AccountTables, HiringTables, HiringIndexes, QueueIndexes,
    AuditIndexes, SortIndexes
<1>6. /\ "screening_results" \in TablesAt(3)
      /\ Referrers("screening_results") \cap TablesAt(3) \subseteq {"screening_results"}
  BY TableSets, KeySets DEF Referrers, AccountTables, HiringTables
<1>7. /\ T1 = TablesAt(2)
      /\ EnumsAt(3) = EnumsAt(2)
      /\ X2 = IndexesAt(2)
      /\ C1 = ColumnsAt(2)
      /\ KeysAt(3) = KeysAt(2)
  <2>1. T1 = TablesAt(2)
    BY TableSets DEF AccountTables, HiringTables
  <2>2. EnumsAt(3) = EnumsAt(2)
    BY EnumSets DEF HiringEnums
  <2>3. X2 = IndexesAt(2)
    BY IndexSets DEF HiringIndexes, QueueIndexes, AuditIndexes, SortIndexes
  <2>4. C1 = ColumnsAt(2)
    BY ColumnSets DEF BiasColumns
  <2>5. KeysAt(3) = KeysAt(2)
    BY KeySets
  <2>6. QED
    BY <2>1, <2>2, <2>3, <2>4, <2>5
<1>8. Fits(p[1], TablesAt(3), EnumsAt(3), X1, ColumnsAt(3), KeysAt(3))
  BY <1>3, <1>4, <1>5, DropIndexFits
<1>9. Fits(p[2], T1, EnumsAt(3), X2, C1, KeysAt(3))
  BY <1>3, <1>8, <1>6, DropTableFits
<1>10. QED
  BY <1>3, <1>9, <1>7 DEF FitsAt

\* 0004, downgrade: the trail goes before the queue.
LEMMA Downgrade4Fits ==
  ASSUME NEW d, FitsAt(d, 4), NEW pick
  PROVE  FitsAt(Run(d, Downgrade4, pick), 3)
<1> DEFINE n == 6
           X1 == IndexesAt(4) \ {<<"audit_events", "ix_audit_events_entity">>}
           X2 == X1 \ {<<"audit_events", "ix_audit_events_org_created">>}
           T1 == TablesAt(4) \ {"audit_events"}
           X3 == {y \in X2 : y[1] # "audit_events"}
           C1 == {y \in ColumnsAt(4) : y[1] # "audit_events"}
           X4 == X3 \ {<<"screening_jobs", "ix_screening_jobs_available_at">>}
           X5 == X4 \ {<<"screening_jobs", "ix_screening_jobs_org_status">>}
           T2 == T1 \ {"screening_jobs"}
           X6 == {y \in X5 : y[1] # "screening_jobs"}
           C2 == {y \in C1 : y[1] # "screening_jobs"}
<1>1. DOMAIN Downgrade4 = 1..n /\ n \in Nat
  BY DEF Downgrade4
<1> HIDE DEF n
<1>2. PICK p : Trace(p, d, Downgrade4, n, pick) /\ Run(d, Downgrade4, pick) = p[n]
  BY <1>1, RunSteps
<1>3. /\ p[0] = d /\ Run(d, Downgrade4, pick) = p[6]
      /\ p[1] = Do(p[0], <<"drop_index", "audit_events", "ix_audit_events_entity">>, pick)
      /\ p[2] = Do(p[1], <<"drop_index", "audit_events", "ix_audit_events_org_created">>, pick)
      /\ p[3] = Do(p[2], <<"drop_table", "audit_events">>, pick)
      /\ p[4] = Do(p[3], <<"drop_index", "screening_jobs", "ix_screening_jobs_available_at">>,
                   pick)
      /\ p[5] = Do(p[4], <<"drop_index", "screening_jobs", "ix_screening_jobs_org_status">>, pick)
      /\ p[6] = Do(p[5], <<"drop_table", "screening_jobs">>, pick)
  <2>1. \A i \in 1..6 : p[i] = Do(p[i-1], Downgrade4[i], pick)
    BY <1>2 DEF Trace, n
  <2>2. /\ Downgrade4[1] = <<"drop_index", "audit_events", "ix_audit_events_entity">>
        /\ Downgrade4[2] = <<"drop_index", "audit_events", "ix_audit_events_org_created">>
        /\ Downgrade4[3] = <<"drop_table", "audit_events">>
        /\ Downgrade4[4] = <<"drop_index", "screening_jobs", "ix_screening_jobs_available_at">>
        /\ Downgrade4[5] = <<"drop_index", "screening_jobs", "ix_screening_jobs_org_status">>
        /\ Downgrade4[6] = <<"drop_table", "screening_jobs">>
    BY DEF Downgrade4
  <2>3. /\ p[1] = Do(p[0], Downgrade4[1], pick) /\ p[2] = Do(p[1], Downgrade4[2], pick)
        /\ p[3] = Do(p[2], Downgrade4[3], pick) /\ p[4] = Do(p[3], Downgrade4[4], pick)
        /\ p[5] = Do(p[4], Downgrade4[5], pick) /\ p[6] = Do(p[5], Downgrade4[6], pick)
    BY <2>1
  <2>4. QED
    BY <1>2, <2>2, <2>3 DEF Trace, n
<1>4. Fits(p[0], TablesAt(4), EnumsAt(4), IndexesAt(4), ColumnsAt(4), KeysAt(4))
  BY <1>3 DEF FitsAt
<1>5. /\ <<"audit_events", "ix_audit_events_entity">> \in IndexesAt(4)
      /\ \A y \in IndexesAt(4) : y = <<y[1], y[2]>>
  BY TableSets, IndexSets DEF AccountTables, HiringTables, HiringIndexes, QueueIndexes,
    AuditIndexes, SortIndexes
<1>6. <<"audit_events", "ix_audit_events_org_created">> \in X1 /\ \A y \in X1 : y = <<y[1], y[2]>>
  BY TableSets, IndexSets DEF AccountTables, HiringTables, HiringIndexes, QueueIndexes,
    AuditIndexes, SortIndexes
<1>7. /\ "audit_events" \in TablesAt(4)
      /\ Referrers("audit_events") \cap TablesAt(4) \subseteq {"audit_events"}
  BY TableSets, KeySets DEF Referrers, AccountTables, HiringTables
<1>8. /\ <<"screening_jobs", "ix_screening_jobs_available_at">> \in X3
      /\ \A y \in X3 : y = <<y[1], y[2]>>
  BY TableSets, IndexSets DEF AccountTables, HiringTables, HiringIndexes, QueueIndexes,
    AuditIndexes, SortIndexes
<1>9. /\ <<"screening_jobs", "ix_screening_jobs_org_status">> \in X4
      /\ \A y \in X4 : y = <<y[1], y[2]>>
  BY TableSets, IndexSets DEF AccountTables, HiringTables, HiringIndexes, QueueIndexes,
    AuditIndexes, SortIndexes
<1>10. "screening_jobs" \in T1 /\ Referrers("screening_jobs") \cap T1 \subseteq {"screening_jobs"}
  BY TableSets, KeySets DEF Referrers, AccountTables, HiringTables
<1>11. /\ T2 = TablesAt(3)
       /\ EnumsAt(4) = EnumsAt(3)
       /\ X6 = IndexesAt(3)
       /\ C2 = ColumnsAt(3)
       /\ KeysAt(4) = KeysAt(3)
  <2>1. T2 = TablesAt(3)
    BY TableSets DEF AccountTables, HiringTables
  <2>2. EnumsAt(4) = EnumsAt(3)
    BY EnumSets DEF HiringEnums
  <2>3. X6 = IndexesAt(3)
    BY IndexSets DEF HiringIndexes, QueueIndexes, AuditIndexes, SortIndexes
  <2>4. C2 = ColumnsAt(3)
    BY ColumnSets DEF BiasColumns
  <2>5. KeysAt(4) = KeysAt(3)
    BY KeySets
  <2>6. QED
    BY <2>1, <2>2, <2>3, <2>4, <2>5
<1>12. Fits(p[1], TablesAt(4), EnumsAt(4), X1, ColumnsAt(4), KeysAt(4))
  BY <1>3, <1>4, <1>5, DropIndexFits
<1>13. Fits(p[2], TablesAt(4), EnumsAt(4), X2, ColumnsAt(4), KeysAt(4))
  BY <1>3, <1>12, <1>6, DropIndexFits
<1>14. Fits(p[3], T1, EnumsAt(4), X3, C1, KeysAt(4))
  BY <1>3, <1>13, <1>7, DropTableFits
<1>15. Fits(p[4], T1, EnumsAt(4), X4, C1, KeysAt(4))
  BY <1>3, <1>14, <1>8, DropIndexFits
<1>16. Fits(p[5], T1, EnumsAt(4), X5, C1, KeysAt(4))
  BY <1>3, <1>15, <1>9, DropIndexFits
<1>17. Fits(p[6], T2, EnumsAt(4), X6, C2, KeysAt(4))
  BY <1>3, <1>16, <1>10, DropTableFits
<1>18. QED
  BY <1>3, <1>17, <1>11 DEF FitsAt

\* 0005 adds the indexes that lists are sorted by.
LEMMA Upgrade5Fits ==
  ASSUME NEW d, FitsAt(d, 4), NEW pick
  PROVE  FitsAt(Run(d, Upgrade5, pick), 5)
<1> DEFINE n == 2
           X1 == IndexesAt(4) \cup {<<"screening_results", "ix_screening_results_org_score">>}
           X2 == X1 \cup {<<"applications", "ix_applications_org_submitted">>}
<1>1. DOMAIN Upgrade5 = 1..n /\ n \in Nat
  BY DEF Upgrade5
<1> HIDE DEF n
<1>2. PICK p : Trace(p, d, Upgrade5, n, pick) /\ Run(d, Upgrade5, pick) = p[n]
  BY <1>1, RunSteps
<1>3. /\ p[0] = d /\ Run(d, Upgrade5, pick) = p[2]
      /\ p[1] = Do(p[0], <<"create_index", "screening_results",
                           "ix_screening_results_org_score">>, pick)
      /\ p[2] = Do(p[1], <<"create_index", "applications", "ix_applications_org_submitted">>,
                   pick)
  <2>1. \A i \in 1..2 : p[i] = Do(p[i-1], Upgrade5[i], pick)
    BY <1>2 DEF Trace, n
  <2>2. /\ Upgrade5[1] = <<"create_index", "screening_results", "ix_screening_results_org_score">>
        /\ Upgrade5[2] = <<"create_index", "applications", "ix_applications_org_submitted">>
    BY DEF Upgrade5
  <2>3. /\ p[1] = Do(p[0], Upgrade5[1], pick) /\ p[2] = Do(p[1], Upgrade5[2], pick)
    BY <2>1
  <2>4. QED
    BY <1>2, <2>2, <2>3 DEF Trace, n
<1>4. Fits(p[0], TablesAt(4), EnumsAt(4), IndexesAt(4), ColumnsAt(4), KeysAt(4))
  BY <1>3 DEF FitsAt
<1>5. /\ "screening_results" \in TablesAt(4)
      /\ \A y \in IndexesAt(4) : y[2] # "ix_screening_results_org_score"
  BY TableSets, IndexSets DEF AccountTables, HiringTables, HiringIndexes, QueueIndexes,
    AuditIndexes, SortIndexes
<1>6. "applications" \in TablesAt(4) /\ \A y \in X1 : y[2] # "ix_applications_org_submitted"
  BY TableSets, IndexSets DEF AccountTables, HiringTables, HiringIndexes, QueueIndexes,
    AuditIndexes, SortIndexes
<1>7. /\ TablesAt(4) = TablesAt(5)
      /\ EnumsAt(4) = EnumsAt(5)
      /\ X2 = IndexesAt(5)
      /\ ColumnsAt(4) = ColumnsAt(5)
      /\ KeysAt(4) = KeysAt(5)
  <2>1. TablesAt(4) = TablesAt(5)
    BY TableSets DEF AccountTables, HiringTables
  <2>2. EnumsAt(4) = EnumsAt(5)
    BY EnumSets DEF HiringEnums
  <2>3. X2 = IndexesAt(5)
    BY IndexSets DEF HiringIndexes, QueueIndexes, AuditIndexes, SortIndexes
  <2>4. ColumnsAt(4) = ColumnsAt(5)
    BY ColumnSets DEF BiasColumns
  <2>5. KeysAt(4) = KeysAt(5)
    BY KeySets
  <2>6. QED
    BY <2>1, <2>2, <2>3, <2>4, <2>5
<1>8. Fits(p[1], TablesAt(4), EnumsAt(4), X1, ColumnsAt(4), KeysAt(4))
  BY <1>3, <1>4, <1>5, CreateIndexFits
<1>9. Fits(p[2], TablesAt(4), EnumsAt(4), X2, ColumnsAt(4), KeysAt(4))
  BY <1>3, <1>8, <1>6, CreateIndexFits
<1>10. QED
  BY <1>3, <1>9, <1>7 DEF FitsAt

\* 0005, downgrade.
LEMMA Downgrade5Fits ==
  ASSUME NEW d, FitsAt(d, 5), NEW pick
  PROVE  FitsAt(Run(d, Downgrade5, pick), 4)
<1> DEFINE n == 2
           X1 == IndexesAt(5) \ {<<"applications", "ix_applications_org_submitted">>}
           X2 == X1 \ {<<"screening_results", "ix_screening_results_org_score">>}
<1>1. DOMAIN Downgrade5 = 1..n /\ n \in Nat
  BY DEF Downgrade5
<1> HIDE DEF n
<1>2. PICK p : Trace(p, d, Downgrade5, n, pick) /\ Run(d, Downgrade5, pick) = p[n]
  BY <1>1, RunSteps
<1>3. /\ p[0] = d /\ Run(d, Downgrade5, pick) = p[2]
      /\ p[1] = Do(p[0], <<"drop_index", "applications", "ix_applications_org_submitted">>, pick)
      /\ p[2] = Do(p[1], <<"drop_index", "screening_results", "ix_screening_results_org_score">>,
                   pick)
  <2>1. \A i \in 1..2 : p[i] = Do(p[i-1], Downgrade5[i], pick)
    BY <1>2 DEF Trace, n
  <2>2. /\ Downgrade5[1] = <<"drop_index", "applications", "ix_applications_org_submitted">>
        /\ Downgrade5[2] = <<"drop_index", "screening_results", "ix_screening_results_org_score">>
    BY DEF Downgrade5
  <2>3. /\ p[1] = Do(p[0], Downgrade5[1], pick) /\ p[2] = Do(p[1], Downgrade5[2], pick)
    BY <2>1
  <2>4. QED
    BY <1>2, <2>2, <2>3 DEF Trace, n
<1>4. Fits(p[0], TablesAt(5), EnumsAt(5), IndexesAt(5), ColumnsAt(5), KeysAt(5))
  BY <1>3 DEF FitsAt
<1>5. /\ <<"applications", "ix_applications_org_submitted">> \in IndexesAt(5)
      /\ \A y \in IndexesAt(5) : y = <<y[1], y[2]>>
  BY TableSets, IndexSets DEF AccountTables, HiringTables, HiringIndexes, QueueIndexes,
    AuditIndexes, SortIndexes
<1>6. /\ <<"screening_results", "ix_screening_results_org_score">> \in X1
      /\ \A y \in X1 : y = <<y[1], y[2]>>
  BY TableSets, IndexSets DEF AccountTables, HiringTables, HiringIndexes, QueueIndexes,
    AuditIndexes, SortIndexes
<1>7. /\ TablesAt(5) = TablesAt(4)
      /\ EnumsAt(5) = EnumsAt(4)
      /\ X2 = IndexesAt(4)
      /\ ColumnsAt(5) = ColumnsAt(4)
      /\ KeysAt(5) = KeysAt(4)
  <2>1. TablesAt(5) = TablesAt(4)
    BY TableSets DEF AccountTables, HiringTables
  <2>2. EnumsAt(5) = EnumsAt(4)
    BY EnumSets DEF HiringEnums
  <2>3. X2 = IndexesAt(4)
    BY IndexSets DEF HiringIndexes, QueueIndexes, AuditIndexes, SortIndexes
  <2>4. ColumnsAt(5) = ColumnsAt(4)
    BY ColumnSets DEF BiasColumns
  <2>5. KeysAt(5) = KeysAt(4)
    BY KeySets
  <2>6. QED
    BY <2>1, <2>2, <2>3, <2>4, <2>5
<1>8. Fits(p[1], TablesAt(5), EnumsAt(5), X1, ColumnsAt(5), KeysAt(5))
  BY <1>3, <1>4, <1>5, DropIndexFits
<1>9. Fits(p[2], TablesAt(5), EnumsAt(5), X2, ColumnsAt(5), KeysAt(5))
  BY <1>3, <1>8, <1>6, DropIndexFits
<1>10. QED
  BY <1>3, <1>9, <1>7 DEF FitsAt

\* 0006 adds what the fairness check writes.
LEMMA Upgrade6Fits ==
  ASSUME NEW d, FitsAt(d, 5), NEW pick
  PROVE  FitsAt(Run(d, Upgrade6, pick), 6)
<1> DEFINE n == 5
           C1 == ColumnsAt(5) \cup {<<"screening_results", "bias_flags">>}
           C2 == C1 \cup {<<"screening_results", "bias_review_required">>}
           C3 == C2 \cup {<<"screening_results", "semantic_backend">>}
           C4 == C3 \cup {<<"screening_results", "pipeline_version">>}
           X1 == IndexesAt(5) \cup {<<"screening_results", "ix_screening_results_bias_review">>}
<1>1. DOMAIN Upgrade6 = 1..n /\ n \in Nat
  BY DEF Upgrade6
<1> HIDE DEF n
<1>2. PICK p : Trace(p, d, Upgrade6, n, pick) /\ Run(d, Upgrade6, pick) = p[n]
  BY <1>1, RunSteps
<1>3. /\ p[0] = d /\ Run(d, Upgrade6, pick) = p[5]
      /\ p[1] = Do(p[0], <<"add_column", "screening_results", "bias_flags", "jsonb">>, pick)
      /\ p[2] = Do(p[1], <<"add_column", "screening_results", "bias_review_required", "boolean">>,
                   pick)
      /\ p[3] = Do(p[2], <<"add_column", "screening_results", "semantic_backend", "varchar(40)">>,
                   pick)
      /\ p[4] = Do(p[3], <<"add_column", "screening_results", "pipeline_version", "varchar(20)">>,
                   pick)
      /\ p[5] = Do(p[4], <<"create_index", "screening_results",
                           "ix_screening_results_bias_review">>, pick)
  <2>1. \A i \in 1..5 : p[i] = Do(p[i-1], Upgrade6[i], pick)
    BY <1>2 DEF Trace, n
  <2>2. /\ Upgrade6[1] = <<"add_column", "screening_results", "bias_flags", "jsonb">>
        /\ Upgrade6[2] = <<"add_column", "screening_results", "bias_review_required", "boolean">>
        /\ Upgrade6[3] = <<"add_column", "screening_results", "semantic_backend", "varchar(40)">>
        /\ Upgrade6[4] = <<"add_column", "screening_results", "pipeline_version", "varchar(20)">>
        /\ Upgrade6[5] = <<"create_index", "screening_results",
                           "ix_screening_results_bias_review">>
    BY DEF Upgrade6
  <2>3. /\ p[1] = Do(p[0], Upgrade6[1], pick) /\ p[2] = Do(p[1], Upgrade6[2], pick)
        /\ p[3] = Do(p[2], Upgrade6[3], pick) /\ p[4] = Do(p[3], Upgrade6[4], pick)
        /\ p[5] = Do(p[4], Upgrade6[5], pick)
    BY <2>1
  <2>4. QED
    BY <1>2, <2>2, <2>3 DEF Trace, n
<1>4. Fits(p[0], TablesAt(5), EnumsAt(5), IndexesAt(5), ColumnsAt(5), KeysAt(5))
  BY <1>3 DEF FitsAt
<1>5. /\ "screening_results" \in TablesAt(5)
      /\ "bias_flags" \in ColumnNames
      /\ "jsonb" \in ColumnTypes
      /\ <<"screening_results", "bias_flags">> \in Tracked \ ColumnsAt(5)
      /\ TypesFit(Col("screening_results", "bias_flags", "jsonb"))
      /\ ("jsonb" \in EnumTypes => "jsonb" \in EnumsAt(5))
  BY TableSets, EnumSets, ColumnSets DEF Tracked, TypesFit, Col, ColumnNames, ColumnTypes,
    EnumTypes, EnumTable, AccountTables, HiringTables, HiringEnums, BiasColumns
<1>6. /\ "screening_results" \in TablesAt(5)
      /\ "bias_review_required" \in ColumnNames
      /\ "boolean" \in ColumnTypes
      /\ <<"screening_results", "bias_review_required">> \in Tracked \ C1
      /\ TypesFit(Col("screening_results", "bias_review_required", "boolean"))
      /\ ("boolean" \in EnumTypes => "boolean" \in EnumsAt(5))
  BY TableSets, EnumSets, ColumnSets DEF Tracked, TypesFit, Col, ColumnNames, ColumnTypes,
    EnumTypes, EnumTable, AccountTables, HiringTables, HiringEnums, BiasColumns
<1>7. /\ "screening_results" \in TablesAt(5)
      /\ "semantic_backend" \in ColumnNames
      /\ "varchar(40)" \in ColumnTypes
      /\ <<"screening_results", "semantic_backend">> \in Tracked \ C2
      /\ TypesFit(Col("screening_results", "semantic_backend", "varchar(40)"))
      /\ ("varchar(40)" \in EnumTypes => "varchar(40)" \in EnumsAt(5))
  BY TableSets, EnumSets, ColumnSets DEF Tracked, TypesFit, Col, ColumnNames, ColumnTypes,
    EnumTypes, EnumTable, AccountTables, HiringTables, HiringEnums, BiasColumns
<1>8. /\ "screening_results" \in TablesAt(5)
      /\ "pipeline_version" \in ColumnNames
      /\ "varchar(20)" \in ColumnTypes
      /\ <<"screening_results", "pipeline_version">> \in Tracked \ C3
      /\ TypesFit(Col("screening_results", "pipeline_version", "varchar(20)"))
      /\ ("varchar(20)" \in EnumTypes => "varchar(20)" \in EnumsAt(5))
  BY TableSets, EnumSets, ColumnSets DEF Tracked, TypesFit, Col, ColumnNames, ColumnTypes,
    EnumTypes, EnumTable, AccountTables, HiringTables, HiringEnums, BiasColumns
<1>9. /\ "screening_results" \in TablesAt(5)
      /\ \A y \in IndexesAt(5) : y[2] # "ix_screening_results_bias_review"
  BY TableSets, IndexSets DEF AccountTables, HiringTables, HiringIndexes, QueueIndexes,
    AuditIndexes, SortIndexes
<1>10. /\ TablesAt(5) = TablesAt(6)
       /\ EnumsAt(5) = EnumsAt(6)
       /\ X1 = IndexesAt(6)
       /\ C4 = ColumnsAt(6)
       /\ KeysAt(5) = KeysAt(6)
  <2>1. TablesAt(5) = TablesAt(6)
    BY TableSets DEF AccountTables, HiringTables
  <2>2. EnumsAt(5) = EnumsAt(6)
    BY EnumSets DEF HiringEnums
  <2>3. X1 = IndexesAt(6)
    BY IndexSets DEF HiringIndexes, QueueIndexes, AuditIndexes, SortIndexes
  <2>4. C4 = ColumnsAt(6)
    BY ColumnSets DEF BiasColumns
  <2>5. KeysAt(5) = KeysAt(6)
    BY KeySets
  <2>6. QED
    BY <2>1, <2>2, <2>3, <2>4, <2>5
<1>11. Fits(p[1], TablesAt(5), EnumsAt(5), IndexesAt(5), C1, KeysAt(5))
  BY <1>3, <1>4, <1>5, AddColumnFits
<1>12. Fits(p[2], TablesAt(5), EnumsAt(5), IndexesAt(5), C2, KeysAt(5))
  BY <1>3, <1>11, <1>6, AddColumnFits
<1>13. Fits(p[3], TablesAt(5), EnumsAt(5), IndexesAt(5), C3, KeysAt(5))
  BY <1>3, <1>12, <1>7, AddColumnFits
<1>14. Fits(p[4], TablesAt(5), EnumsAt(5), IndexesAt(5), C4, KeysAt(5))
  BY <1>3, <1>13, <1>8, AddColumnFits
<1>15. Fits(p[5], TablesAt(5), EnumsAt(5), X1, C4, KeysAt(5))
  BY <1>3, <1>14, <1>9, CreateIndexFits
<1>16. QED
  BY <1>3, <1>15, <1>10 DEF FitsAt

\* 0006, downgrade.
LEMMA Downgrade6Fits ==
  ASSUME NEW d, FitsAt(d, 6), NEW pick
  PROVE  FitsAt(Run(d, Downgrade6, pick), 5)
<1> DEFINE n == 5
           X1 == IndexesAt(6) \ {<<"screening_results", "ix_screening_results_bias_review">>}
           C1 == ColumnsAt(6) \ {<<"screening_results", "pipeline_version">>}
           C2 == C1 \ {<<"screening_results", "semantic_backend">>}
           C3 == C2 \ {<<"screening_results", "bias_review_required">>}
           C4 == C3 \ {<<"screening_results", "bias_flags">>}
<1>1. DOMAIN Downgrade6 = 1..n /\ n \in Nat
  BY DEF Downgrade6
<1> HIDE DEF n
<1>2. PICK p : Trace(p, d, Downgrade6, n, pick) /\ Run(d, Downgrade6, pick) = p[n]
  BY <1>1, RunSteps
<1>3. /\ p[0] = d /\ Run(d, Downgrade6, pick) = p[5]
      /\ p[1] = Do(p[0], <<"drop_index", "screening_results",
                           "ix_screening_results_bias_review">>, pick)
      /\ p[2] = Do(p[1], <<"drop_column", "screening_results", "pipeline_version">>, pick)
      /\ p[3] = Do(p[2], <<"drop_column", "screening_results", "semantic_backend">>, pick)
      /\ p[4] = Do(p[3], <<"drop_column", "screening_results", "bias_review_required">>, pick)
      /\ p[5] = Do(p[4], <<"drop_column", "screening_results", "bias_flags">>, pick)
  <2>1. \A i \in 1..5 : p[i] = Do(p[i-1], Downgrade6[i], pick)
    BY <1>2 DEF Trace, n
  <2>2. /\ Downgrade6[1] = <<"drop_index", "screening_results",
                             "ix_screening_results_bias_review">>
        /\ Downgrade6[2] = <<"drop_column", "screening_results", "pipeline_version">>
        /\ Downgrade6[3] = <<"drop_column", "screening_results", "semantic_backend">>
        /\ Downgrade6[4] = <<"drop_column", "screening_results", "bias_review_required">>
        /\ Downgrade6[5] = <<"drop_column", "screening_results", "bias_flags">>
    BY DEF Downgrade6
  <2>3. /\ p[1] = Do(p[0], Downgrade6[1], pick) /\ p[2] = Do(p[1], Downgrade6[2], pick)
        /\ p[3] = Do(p[2], Downgrade6[3], pick) /\ p[4] = Do(p[3], Downgrade6[4], pick)
        /\ p[5] = Do(p[4], Downgrade6[5], pick)
    BY <2>1
  <2>4. QED
    BY <1>2, <2>2, <2>3 DEF Trace, n
<1>4. Fits(p[0], TablesAt(6), EnumsAt(6), IndexesAt(6), ColumnsAt(6), KeysAt(6))
  BY <1>3 DEF FitsAt
<1>5. /\ <<"screening_results", "ix_screening_results_bias_review">> \in IndexesAt(6)
      /\ \A y \in IndexesAt(6) : y = <<y[1], y[2]>>
  BY TableSets, IndexSets DEF AccountTables, HiringTables, HiringIndexes, QueueIndexes,
    AuditIndexes, SortIndexes
<1>6. <<"screening_results", "pipeline_version">> \in Tracked \cap ColumnsAt(6)
  BY ColumnSets DEF Tracked, BiasColumns
<1>7. <<"screening_results", "semantic_backend">> \in Tracked \cap C1
  BY ColumnSets DEF Tracked, BiasColumns
<1>8. <<"screening_results", "bias_review_required">> \in Tracked \cap C2
  BY ColumnSets DEF Tracked, BiasColumns
<1>9. <<"screening_results", "bias_flags">> \in Tracked \cap C3
  BY ColumnSets DEF Tracked, BiasColumns
<1>10. /\ TablesAt(6) = TablesAt(5)
       /\ EnumsAt(6) = EnumsAt(5)
       /\ X1 = IndexesAt(5)
       /\ C4 = ColumnsAt(5)
       /\ KeysAt(6) = KeysAt(5)
  <2>1. TablesAt(6) = TablesAt(5)
    BY TableSets DEF AccountTables, HiringTables
  <2>2. EnumsAt(6) = EnumsAt(5)
    BY EnumSets DEF HiringEnums
  <2>3. X1 = IndexesAt(5)
    BY IndexSets DEF HiringIndexes, QueueIndexes, AuditIndexes, SortIndexes
  <2>4. C4 = ColumnsAt(5)
    BY ColumnSets DEF BiasColumns
  <2>5. KeysAt(6) = KeysAt(5)
    BY KeySets
  <2>6. QED
    BY <2>1, <2>2, <2>3, <2>4, <2>5
<1>11. Fits(p[1], TablesAt(6), EnumsAt(6), X1, ColumnsAt(6), KeysAt(6))
  BY <1>3, <1>4, <1>5, DropIndexFits
<1>12. Fits(p[2], TablesAt(6), EnumsAt(6), X1, C1, KeysAt(6))
  BY <1>3, <1>11, <1>6, DropColumnFits
<1>13. Fits(p[3], TablesAt(6), EnumsAt(6), X1, C2, KeysAt(6))
  BY <1>3, <1>12, <1>7, DropColumnFits
<1>14. Fits(p[4], TablesAt(6), EnumsAt(6), X1, C3, KeysAt(6))
  BY <1>3, <1>13, <1>8, DropColumnFits
<1>15. Fits(p[5], TablesAt(6), EnumsAt(6), X1, C4, KeysAt(6))
  BY <1>3, <1>14, <1>9, DropColumnFits
<1>16. QED
  BY <1>3, <1>15, <1>10 DEF FitsAt

\* 8310a5722e11 adds a column that 0007 dropped.
LEMMA Upgrade8Fits ==
  ASSUME NEW d, FitsAt(d, 7), NEW pick
  PROVE  FitsAt(Run(d, Upgrade8, pick), 8)
<1> DEFINE n == 1
           C1 == ColumnsAt(7) \cup {<<"users", "is_verified">>}
<1>1. DOMAIN Upgrade8 = 1..n /\ n \in Nat
  BY DEF Upgrade8
<1> HIDE DEF n
<1>2. PICK p : Trace(p, d, Upgrade8, n, pick) /\ Run(d, Upgrade8, pick) = p[n]
  BY <1>1, RunSteps
<1>3. /\ p[0] = d /\ Run(d, Upgrade8, pick) = p[1]
      /\ p[1] = Do(p[0], <<"add_column", "users", "is_verified", "boolean">>, pick)
  <2>1. \A i \in 1..1 : p[i] = Do(p[i-1], Upgrade8[i], pick)
    BY <1>2 DEF Trace, n
  <2>2. /\ Upgrade8[1] = <<"add_column", "users", "is_verified", "boolean">>
    BY DEF Upgrade8
  <2>3. /\ p[1] = Do(p[0], Upgrade8[1], pick)
    BY <2>1
  <2>4. QED
    BY <1>2, <2>2, <2>3 DEF Trace, n
<1>4. Fits(p[0], TablesAt(7), EnumsAt(7), IndexesAt(7), ColumnsAt(7), KeysAt(7))
  BY <1>3 DEF FitsAt
<1>5. /\ "users" \in TablesAt(7) /\ "is_verified" \in ColumnNames /\ "boolean" \in ColumnTypes
      /\ <<"users", "is_verified">> \in Tracked \ ColumnsAt(7)
      /\ TypesFit(Col("users", "is_verified", "boolean"))
      /\ ("boolean" \in EnumTypes => "boolean" \in EnumsAt(7))
  BY TableSets, EnumSets, ColumnSets DEF Tracked, TypesFit, Col, ColumnNames, ColumnTypes,
    EnumTypes, EnumTable, AccountTables, HiringTables, HiringEnums, BiasColumns
<1>6. /\ TablesAt(7) = TablesAt(8)
      /\ EnumsAt(7) = EnumsAt(8)
      /\ IndexesAt(7) = IndexesAt(8)
      /\ C1 = ColumnsAt(8)
      /\ KeysAt(7) = KeysAt(8)
  <2>1. TablesAt(7) = TablesAt(8)
    BY TableSets DEF AccountTables, HiringTables
  <2>2. EnumsAt(7) = EnumsAt(8)
    BY EnumSets DEF HiringEnums
  <2>3. IndexesAt(7) = IndexesAt(8)
    BY IndexSets DEF HiringIndexes, QueueIndexes, AuditIndexes, SortIndexes
  <2>4. C1 = ColumnsAt(8)
    BY ColumnSets DEF BiasColumns
  <2>5. KeysAt(7) = KeysAt(8)
    BY KeySets
  <2>6. QED
    BY <2>1, <2>2, <2>3, <2>4, <2>5
<1>7. Fits(p[1], TablesAt(7), EnumsAt(7), IndexesAt(7), C1, KeysAt(7))
  BY <1>3, <1>4, <1>5, AddColumnFits
<1>8. QED
  BY <1>3, <1>7, <1>6 DEF FitsAt

\* 8310a5722e11, downgrade.
LEMMA Downgrade8Fits ==
  ASSUME NEW d, FitsAt(d, 8), NEW pick
  PROVE  FitsAt(Run(d, Downgrade8, pick), 7)
<1> DEFINE n == 1
           C1 == ColumnsAt(8) \ {<<"users", "is_verified">>}
<1>1. DOMAIN Downgrade8 = 1..n /\ n \in Nat
  BY DEF Downgrade8
<1> HIDE DEF n
<1>2. PICK p : Trace(p, d, Downgrade8, n, pick) /\ Run(d, Downgrade8, pick) = p[n]
  BY <1>1, RunSteps
<1>3. /\ p[0] = d /\ Run(d, Downgrade8, pick) = p[1]
      /\ p[1] = Do(p[0], <<"drop_column", "users", "is_verified">>, pick)
  <2>1. \A i \in 1..1 : p[i] = Do(p[i-1], Downgrade8[i], pick)
    BY <1>2 DEF Trace, n
  <2>2. /\ Downgrade8[1] = <<"drop_column", "users", "is_verified">>
    BY DEF Downgrade8
  <2>3. /\ p[1] = Do(p[0], Downgrade8[1], pick)
    BY <2>1
  <2>4. QED
    BY <1>2, <2>2, <2>3 DEF Trace, n
<1>4. Fits(p[0], TablesAt(8), EnumsAt(8), IndexesAt(8), ColumnsAt(8), KeysAt(8))
  BY <1>3 DEF FitsAt
<1>5. <<"users", "is_verified">> \in Tracked \cap ColumnsAt(8)
  BY ColumnSets DEF Tracked, BiasColumns
<1>6. /\ TablesAt(8) = TablesAt(7)
      /\ EnumsAt(8) = EnumsAt(7)
      /\ IndexesAt(8) = IndexesAt(7)
      /\ C1 = ColumnsAt(7)
      /\ KeysAt(8) = KeysAt(7)
  <2>1. TablesAt(8) = TablesAt(7)
    BY TableSets DEF AccountTables, HiringTables
  <2>2. EnumsAt(8) = EnumsAt(7)
    BY EnumSets DEF HiringEnums
  <2>3. IndexesAt(8) = IndexesAt(7)
    BY IndexSets DEF HiringIndexes, QueueIndexes, AuditIndexes, SortIndexes
  <2>4. C1 = ColumnsAt(7)
    BY ColumnSets DEF BiasColumns
  <2>5. KeysAt(8) = KeysAt(7)
    BY KeySets
  <2>6. QED
    BY <2>1, <2>2, <2>3, <2>4, <2>5
<1>7. Fits(p[1], TablesAt(8), EnumsAt(8), IndexesAt(8), C1, KeysAt(8))
  BY <1>3, <1>4, <1>5, DropColumnFits
<1>8. QED
  BY <1>3, <1>7, <1>6 DEF FitsAt

\* 0002, downgrade: each table goes once nothing refers to it, then its enums.
LEMMA Downgrade2Fits ==
  ASSUME NEW d, FitsAt(d, 2), NEW pick
  PROVE  FitsAt(Run(d, Downgrade2, pick), 1)
<1> DEFINE n == 9
           T1 == TablesAt(2) \ {"applications"}
           X1 == {y \in IndexesAt(2) : y[1] # "applications"}
           C1 == {y \in ColumnsAt(2) : y[1] # "applications"}
           T2 == T1 \ {"resumes"}
           X2 == {y \in X1 : y[1] # "resumes"}
           C2 == {y \in C1 : y[1] # "resumes"}
           T3 == T2 \ {"candidates"}
           X3 == {y \in X2 : y[1] # "candidates"}
           C3 == {y \in C2 : y[1] # "candidates"}
           T4 == T3 \ {"job_requirements"}
           X4 == {y \in X3 : y[1] # "job_requirements"}
           C4 == {y \in C3 : y[1] # "job_requirements"}
           T5 == T4 \ {"jobs"}
           X5 == {y \in X4 : y[1] # "jobs"}
           C5 == {y \in C4 : y[1] # "jobs"}
           E1 == EnumsAt(2) \ {"application_status"}
           E2 == E1 \ {"resume_status"}
           E3 == E2 \ {"resume_file_type"}
           E4 == E3 \ {"job_status"}
<1>1. DOMAIN Downgrade2 = 1..n /\ n \in Nat
  BY DEF Downgrade2
<1> HIDE DEF n
<1>2. PICK p : Trace(p, d, Downgrade2, n, pick) /\ Run(d, Downgrade2, pick) = p[n]
  BY <1>1, RunSteps
<1>3. /\ p[0] = d /\ Run(d, Downgrade2, pick) = p[9]
      /\ p[1] = Do(p[0], <<"drop_table", "applications">>, pick)
      /\ p[2] = Do(p[1], <<"drop_table", "resumes">>, pick)
      /\ p[3] = Do(p[2], <<"drop_table", "candidates">>, pick)
      /\ p[4] = Do(p[3], <<"drop_table", "job_requirements">>, pick)
      /\ p[5] = Do(p[4], <<"drop_table", "jobs">>, pick)
      /\ p[6] = Do(p[5], <<"drop_enum", "application_status">>, pick)
      /\ p[7] = Do(p[6], <<"drop_enum", "resume_status">>, pick)
      /\ p[8] = Do(p[7], <<"drop_enum", "resume_file_type">>, pick)
      /\ p[9] = Do(p[8], <<"drop_enum", "job_status">>, pick)
  <2>1. \A i \in 1..9 : p[i] = Do(p[i-1], Downgrade2[i], pick)
    BY <1>2 DEF Trace, n
  <2>2. /\ Downgrade2[1] = <<"drop_table", "applications">>
        /\ Downgrade2[2] = <<"drop_table", "resumes">>
        /\ Downgrade2[3] = <<"drop_table", "candidates">>
        /\ Downgrade2[4] = <<"drop_table", "job_requirements">>
        /\ Downgrade2[5] = <<"drop_table", "jobs">>
        /\ Downgrade2[6] = <<"drop_enum", "application_status">>
        /\ Downgrade2[7] = <<"drop_enum", "resume_status">>
        /\ Downgrade2[8] = <<"drop_enum", "resume_file_type">>
        /\ Downgrade2[9] = <<"drop_enum", "job_status">>
    BY DEF Downgrade2
  <2>3. /\ p[1] = Do(p[0], Downgrade2[1], pick) /\ p[2] = Do(p[1], Downgrade2[2], pick)
        /\ p[3] = Do(p[2], Downgrade2[3], pick) /\ p[4] = Do(p[3], Downgrade2[4], pick)
        /\ p[5] = Do(p[4], Downgrade2[5], pick) /\ p[6] = Do(p[5], Downgrade2[6], pick)
        /\ p[7] = Do(p[6], Downgrade2[7], pick) /\ p[8] = Do(p[7], Downgrade2[8], pick)
        /\ p[9] = Do(p[8], Downgrade2[9], pick)
    BY <2>1
  <2>4. QED
    BY <1>2, <2>2, <2>3 DEF Trace, n
<1>4. Fits(p[0], TablesAt(2), EnumsAt(2), IndexesAt(2), ColumnsAt(2), KeysAt(2))
  BY <1>3 DEF FitsAt
<1>5. /\ "applications" \in TablesAt(2)
      /\ Referrers("applications") \cap TablesAt(2) \subseteq {"applications"}
  BY TableSets, KeySets DEF Referrers, AccountTables, HiringTables
<1>6. "resumes" \in T1 /\ Referrers("resumes") \cap T1 \subseteq {"resumes"}
  BY TableSets, KeySets DEF Referrers, AccountTables, HiringTables
<1>7. "candidates" \in T2 /\ Referrers("candidates") \cap T2 \subseteq {"candidates"}
  BY TableSets, KeySets DEF Referrers, AccountTables, HiringTables
<1>8. /\ "job_requirements" \in T3
      /\ Referrers("job_requirements") \cap T3 \subseteq {"job_requirements"}
  BY TableSets, KeySets DEF Referrers, AccountTables, HiringTables
<1>9. "jobs" \in T4 /\ Referrers("jobs") \cap T4 \subseteq {"jobs"}
  BY TableSets, KeySets DEF Referrers, AccountTables, HiringTables
<1>10. "application_status" \in EnumTypes /\ EnumTable["application_status"] \notin T5
  BY TableSets, ColumnSets DEF EnumTypes, EnumTable, AccountTables, HiringTables, BiasColumns
<1>11. "resume_status" \in EnumTypes /\ EnumTable["resume_status"] \notin T5
  BY TableSets, ColumnSets DEF EnumTypes, EnumTable, AccountTables, HiringTables, BiasColumns
<1>12. "resume_file_type" \in EnumTypes /\ EnumTable["resume_file_type"] \notin T5
  BY TableSets, ColumnSets DEF EnumTypes, EnumTable, AccountTables, HiringTables, BiasColumns
<1>13. "job_status" \in EnumTypes /\ EnumTable["job_status"] \notin T5
  BY TableSets, ColumnSets DEF EnumTypes, EnumTable, AccountTables, HiringTables, BiasColumns
<1>14. /\ T5 = TablesAt(1)
       /\ E4 = EnumsAt(1)
       /\ X5 = IndexesAt(1)
       /\ C5 = ColumnsAt(1)
       /\ KeysAt(2) = KeysAt(1)
  <2>1. T5 = TablesAt(1)
    BY TableSets DEF AccountTables, HiringTables
  <2>2. E4 = EnumsAt(1)
    BY EnumSets DEF HiringEnums
  <2>3. X5 = IndexesAt(1)
    BY IndexSets DEF HiringIndexes, QueueIndexes, AuditIndexes, SortIndexes
  <2>4. C5 = ColumnsAt(1)
    BY ColumnSets DEF BiasColumns
  <2>5. KeysAt(2) = KeysAt(1)
    BY KeySets
  <2>6. QED
    BY <2>1, <2>2, <2>3, <2>4, <2>5
<1>15. Fits(p[1], T1, EnumsAt(2), X1, C1, KeysAt(2))
  BY <1>3, <1>4, <1>5, DropTableFits
<1>16. Fits(p[2], T2, EnumsAt(2), X2, C2, KeysAt(2))
  BY <1>3, <1>15, <1>6, DropTableFits
<1>17. Fits(p[3], T3, EnumsAt(2), X3, C3, KeysAt(2))
  BY <1>3, <1>16, <1>7, DropTableFits
<1>18. Fits(p[4], T4, EnumsAt(2), X4, C4, KeysAt(2))
  BY <1>3, <1>17, <1>8, DropTableFits
<1>19. Fits(p[5], T5, EnumsAt(2), X5, C5, KeysAt(2))
  BY <1>3, <1>18, <1>9, DropTableFits
<1>20. Fits(p[6], T5, E1, X5, C5, KeysAt(2))
  BY <1>3, <1>19, <1>10, DropEnumFits
<1>21. Fits(p[7], T5, E2, X5, C5, KeysAt(2))
  BY <1>3, <1>20, <1>11, DropEnumFits
<1>22. Fits(p[8], T5, E3, X5, C5, KeysAt(2))
  BY <1>3, <1>21, <1>12, DropEnumFits
<1>23. Fits(p[9], T5, E4, X5, C5, KeysAt(2))
  BY <1>3, <1>22, <1>13, DropEnumFits
<1>24. QED
  BY <1>3, <1>23, <1>14 DEF FitsAt

\* 0001, downgrade: the database is empty again.
LEMMA Downgrade1Fits ==
  ASSUME NEW d, FitsAt(d, 1), NEW pick
  PROVE  FitsAt(Run(d, Downgrade1, pick), 0)
<1> DEFINE n == 5
           T1 == TablesAt(1) \ {"refresh_tokens"}
           X1 == {y \in IndexesAt(1) : y[1] # "refresh_tokens"}
           C1 == {y \in ColumnsAt(1) : y[1] # "refresh_tokens"}
           T2 == T1 \ {"organization_members"}
           X2 == {y \in X1 : y[1] # "organization_members"}
           C2 == {y \in C1 : y[1] # "organization_members"}
           T3 == T2 \ {"users"}
           X3 == {y \in X2 : y[1] # "users"}
           C3 == {y \in C2 : y[1] # "users"}
           T4 == T3 \ {"organizations"}
           X4 == {y \in X3 : y[1] # "organizations"}
           C4 == {y \in C3 : y[1] # "organizations"}
           E1 == EnumsAt(1) \ {"organization_role"}
<1>1. DOMAIN Downgrade1 = 1..n /\ n \in Nat
  BY DEF Downgrade1
<1> HIDE DEF n
<1>2. PICK p : Trace(p, d, Downgrade1, n, pick) /\ Run(d, Downgrade1, pick) = p[n]
  BY <1>1, RunSteps
<1>3. /\ p[0] = d /\ Run(d, Downgrade1, pick) = p[5]
      /\ p[1] = Do(p[0], <<"drop_table", "refresh_tokens">>, pick)
      /\ p[2] = Do(p[1], <<"drop_table", "organization_members">>, pick)
      /\ p[3] = Do(p[2], <<"drop_table", "users">>, pick)
      /\ p[4] = Do(p[3], <<"drop_table", "organizations">>, pick)
      /\ p[5] = Do(p[4], <<"drop_enum", "organization_role">>, pick)
  <2>1. \A i \in 1..5 : p[i] = Do(p[i-1], Downgrade1[i], pick)
    BY <1>2 DEF Trace, n
  <2>2. /\ Downgrade1[1] = <<"drop_table", "refresh_tokens">>
        /\ Downgrade1[2] = <<"drop_table", "organization_members">>
        /\ Downgrade1[3] = <<"drop_table", "users">>
        /\ Downgrade1[4] = <<"drop_table", "organizations">>
        /\ Downgrade1[5] = <<"drop_enum", "organization_role">>
    BY DEF Downgrade1
  <2>3. /\ p[1] = Do(p[0], Downgrade1[1], pick) /\ p[2] = Do(p[1], Downgrade1[2], pick)
        /\ p[3] = Do(p[2], Downgrade1[3], pick) /\ p[4] = Do(p[3], Downgrade1[4], pick)
        /\ p[5] = Do(p[4], Downgrade1[5], pick)
    BY <2>1
  <2>4. QED
    BY <1>2, <2>2, <2>3 DEF Trace, n
<1>4. Fits(p[0], TablesAt(1), EnumsAt(1), IndexesAt(1), ColumnsAt(1), KeysAt(1))
  BY <1>3 DEF FitsAt
<1>5. /\ "refresh_tokens" \in TablesAt(1)
      /\ Referrers("refresh_tokens") \cap TablesAt(1) \subseteq {"refresh_tokens"}
  BY TableSets, KeySets DEF Referrers, AccountTables, HiringTables
<1>6. /\ "organization_members" \in T1
      /\ Referrers("organization_members") \cap T1 \subseteq {"organization_members"}
  BY TableSets, KeySets DEF Referrers, AccountTables, HiringTables
<1>7. /\ "users" \in T2
      /\ Referrers("users") \cap T2 \subseteq {"users"}
      /\ UsersKey \notin KeysAt(1)
  BY TableSets, KeySets DEF Referrers, AccountTables, HiringTables
<1>8. "organizations" \in T3 /\ Referrers("organizations") \cap T3 \subseteq {"organizations"}
  BY TableSets, KeySets DEF Referrers, AccountTables, HiringTables
<1>9. "organization_role" \in EnumTypes /\ EnumTable["organization_role"] \notin T4
  BY TableSets, ColumnSets DEF EnumTypes, EnumTable, AccountTables, HiringTables, BiasColumns
<1>10. /\ T4 = TablesAt(0)
       /\ E1 = EnumsAt(0)
       /\ X4 = IndexesAt(0)
       /\ C4 = ColumnsAt(0)
       /\ KeysAt(1) = KeysAt(0)
  <2>1. T4 = TablesAt(0)
    BY TableSets DEF AccountTables, HiringTables
  <2>2. E1 = EnumsAt(0)
    BY EnumSets DEF HiringEnums
  <2>3. X4 = IndexesAt(0)
    BY IndexSets DEF HiringIndexes, QueueIndexes, AuditIndexes, SortIndexes
  <2>4. C4 = ColumnsAt(0)
    BY ColumnSets DEF BiasColumns
  <2>5. KeysAt(1) = KeysAt(0)
    BY KeySets
  <2>6. QED
    BY <2>1, <2>2, <2>3, <2>4, <2>5
<1>11. Fits(p[1], T1, EnumsAt(1), X1, C1, KeysAt(1))
  BY <1>3, <1>4, <1>5, DropTableFits
<1>12. Fits(p[2], T2, EnumsAt(1), X2, C2, KeysAt(1))
  BY <1>3, <1>11, <1>6, DropTableFits
<1>13. Fits(p[3], T3, EnumsAt(1), X3, C3, KeysAt(1))
  BY <1>3, <1>12, <1>7, DropTableFits
<1>14. Fits(p[4], T4, EnumsAt(1), X4, C4, KeysAt(1))
  BY <1>3, <1>13, <1>8, DropTableFits
<1>15. Fits(p[5], T4, E1, X4, C4, KeysAt(1))
  BY <1>3, <1>14, <1>9, DropEnumFits
<1>16. QED
  BY <1>3, <1>15, <1>10 DEF FitsAt

\* What the parts of 0002 have made when they end.
JobsTables        == TablesAt(1) \cup {"jobs", "job_requirements"}
CandidatesTables  == JobsTables \cup {"candidates"}
ResumesTables     == CandidatesTables \cup {"resumes"}
JobsIndexes       == {<<"jobs", "ix_jobs_organization_id">>, <<"jobs", "ix_jobs_status">>,
                      <<"job_requirements", "ix_job_requirements_job_id">>}
CandidatesIndexes == JobsIndexes \cup {<<"candidates", "ix_candidates_organization_id">>,
                                       <<"candidates", "ix_candidates_email">>}
ResumesIndexes    == CandidatesIndexes \cup {<<"resumes", "ix_resumes_organization_id">>,
                                             <<"resumes", "ix_resumes_candidate_id">>,
                                             <<"resumes", "ix_resumes_sha256">>}

\* What the downgrade of 0007 has made before it turns to the accounts.
QueuedTables  == TablesAt(7) \cup {"screening_jobs"}
QueuedIndexes == IndexesAt(7) \cup QueueIndexes
QueuedColumns == ColumnsAt(7) \cup {<<"audit_events", "request_id">>, <<"users", "is_verified">>}

\* The operations on rows keep the schema.
LEMMA BackfillFits ==
  ASSUME NEW d, NEW T, NEW E, NEW X, NEW C, NEW K, Fits(d, T, E, X, C, K), NEW pick,
         NEW x, x = Do(d, <<"backfill">>, pick)
  PROVE  Fits(x, T, E, X, C, K)
<1>1. Shape(d) /\ d.ok
  BY FitsShape
<1>2. x = Backfill(d, pick)
  BY <1>1 DEF Do, Apply
<1>3. x.ok = d.ok /\ x.schema = d.schema
  BY <1>1, <1>2 DEF Backfill, Shape, Fields
<1>4. Shape(x)
  BY <1>1, BackfillOperation
<1>5. QED
  BY <1>1, <1>3, <1>4, SameSchemaFits

LEMMA DeleteUnplacedFits ==
  ASSUME NEW d, NEW T, NEW E, NEW X, NEW C, NEW K, Fits(d, T, E, X, C, K), NEW pick,
         Unplaced(d) \cap d.creators = {},
         NEW x, x = Do(d, <<"delete_unplaced">>, pick)
  PROVE  Fits(x, T, E, X, C, K)
<1>1. Shape(d) /\ d.ok
  BY FitsShape
<1>2. x = DeleteUnplaced(d)
  BY <1>1 DEF Do, Apply
<1>3. x = [d EXCEPT !.users = [u \in DOMAIN d.users \ Unplaced(d) |-> d.users[u]],
                    !.members = {m \in d.members : m.user \notin Unplaced(d)}]
  BY <1>2 DEF DeleteUnplaced, Unplaced
<1>4. x.ok = d.ok /\ x.schema = d.schema
  BY <1>1, <1>3 DEF Shape, Fields
<1>5. Shape(x)
  BY <1>1, <1>4, DeleteUnplacedOperation
<1>6. QED
  BY <1>1, <1>4, <1>5, SameSchemaFits

LEMMA SetNotNullFits ==
  ASSUME NEW d, NEW T, NEW E, NEW X, NEW C, NEW K, Fits(d, T, E, X, C, K), NEW pick,
         \A u \in DOMAIN d.users : d.users[u].org # None /\ d.users[u].role # None,
         NEW x, x = Do(d, <<"set_not_null">>, pick)
  PROVE  Fits(x, T, E, X, C, K)
<1>1. d.ok
  BY FitsShape
<1>2. x = d
  BY <1>1 DEF Do, Apply, SetNotNull
<1>3. QED
  BY <1>2

LEMMA RebuildMembersFits ==
  ASSUME NEW d, NEW T, NEW E, NEW X, NEW C, NEW K, Fits(d, T, E, X, C, K), NEW pick,
         "user_id" \in Repaired, NEW x, x = Do(d, <<"rebuild_members">>, pick)
  PROVE  Fits(x, T, E, X, C, K)
<1>1. Shape(d) /\ d.ok
  BY FitsShape
<1>2. x = RebuildMembers(d)
  BY <1>1 DEF Do, Apply
<1>3. x.ok = d.ok /\ x.schema = d.schema
  BY <1>1, <1>2 DEF RebuildMembers, Shape, Fields
<1>4. Shape(x)
  BY <1>1, <1>3, RebuildMembersOperation
<1>5. QED
  BY <1>1, <1>3, <1>4, SameSchemaFits

\* After the backfill only accounts without a membership are without an organization,
\* and no job refers to one when every creator of jobs has a membership.
LEMMA PlacedRows ==
  ASSUME NEW d, RowsFit(d, 6), NEW pick \in Picks(d), \A u \in d.creators : MembersOf(d, u) # {},
         NEW e, Shape(e), e.ok, Rows(e) = Rows(d), NEW x, x = Do(e, <<"backfill">>, pick)
  PROVE  /\ Unplaced(x) \cap x.creators = {}
         /\ \A u \in DOMAIN x.users \ Unplaced(x) :
              x.users[u].org # None /\ x.users[u].role # None
<1>1. e.users = d.users /\ e.members = d.members /\ e.creators = d.creators
  BY DEF Rows
<1>2. \A u : MembersOf(e, u) = MembersOf(d, u)
  BY <1>1 DEF MembersOf
<1>3. /\ x.creators = d.creators /\ DOMAIN x.users = DOMAIN d.users
      /\ \A u \in DOMAIN d.users : x.users[u] =
           IF MembersOf(d, u) = {} THEN d.users[u] ELSE [org |-> pick[u].org,
                                                         role |-> pick[u].role]
  BY <1>1, <1>2, BackfillOperation
<1>4. ASSUME NEW u \in DOMAIN d.users, MembersOf(d, u) # {}
      PROVE  x.users[u].org # None /\ x.users[u].role # None
  <2>1. pick[u] \in Member
    BY <1>4, PickedMembership DEF RowsFit
  <2>2. pick[u].org \in Orgs /\ pick[u].role \in Roles
    BY <2>1 DEF Member
  <2>3. x.users[u] = [org |-> pick[u].org, role |-> pick[u].role]
    BY <1>3, <1>4
  <2>4. QED
    BY <2>2, <2>3, NoneAssumption
<1>5. ASSUME NEW u \in DOMAIN d.users, MembersOf(d, u) = {} PROVE x.users[u].org = None
  <2>1. x.users[u] = d.users[u]
    BY <1>3, <1>5
  <2>2. d.users[u] \in [org : {None}, role : {None}]
    BY DEF RowsFit, Tenancy
  <2>3. QED
    BY <2>1, <2>2
<1>6. d.creators \subseteq DOMAIN d.users
  BY DEF RowsFit
<1>7. QED
  BY <1>3, <1>4, <1>5, <1>6 DEF Unplaced

\* 0002 creates the enums, then the tables in the order in which they refer to each other.
LEMMA Enums2Fits ==
  ASSUME NEW d, Fits(d, TablesAt(1), EnumsAt(1), IndexesAt(1), ColumnsAt(1), KeysAt(1)), NEW pick
  PROVE  Fits(Run(d, Enums2, pick), TablesAt(1), EnumsAt(2), IndexesAt(1), ColumnsAt(1),
              KeysAt(1))
<1> DEFINE n == 4
           E1 == EnumsAt(1) \cup {"job_status"}
           E2 == E1 \cup {"resume_file_type"}
           E3 == E2 \cup {"resume_status"}
           E4 == E3 \cup {"application_status"}
<1>1. DOMAIN Enums2 = 1..n /\ n \in Nat
  BY DEF Enums2
<1> HIDE DEF n
<1>2. PICK p : Trace(p, d, Enums2, n, pick) /\ Run(d, Enums2, pick) = p[n]
  BY <1>1, RunSteps
<1>3. /\ p[0] = d /\ Run(d, Enums2, pick) = p[4]
      /\ p[1] = Do(p[0], <<"create_enum", "job_status">>, pick)
      /\ p[2] = Do(p[1], <<"create_enum", "resume_file_type">>, pick)
      /\ p[3] = Do(p[2], <<"create_enum", "resume_status">>, pick)
      /\ p[4] = Do(p[3], <<"create_enum", "application_status">>, pick)
  <2>1. \A i \in 1..4 : p[i] = Do(p[i-1], Enums2[i], pick)
    BY <1>2 DEF Trace, n
  <2>2. /\ Enums2[1] = <<"create_enum", "job_status">>
        /\ Enums2[2] = <<"create_enum", "resume_file_type">>
        /\ Enums2[3] = <<"create_enum", "resume_status">>
        /\ Enums2[4] = <<"create_enum", "application_status">>
    BY DEF Enums2
  <2>3. /\ p[1] = Do(p[0], Enums2[1], pick) /\ p[2] = Do(p[1], Enums2[2], pick)
        /\ p[3] = Do(p[2], Enums2[3], pick) /\ p[4] = Do(p[3], Enums2[4], pick)
    BY <2>1
  <2>4. QED
    BY <1>2, <2>2, <2>3 DEF Trace, n
<1>4. Fits(p[0], TablesAt(1), EnumsAt(1), IndexesAt(1), ColumnsAt(1), KeysAt(1))
  BY <1>3
<1>5. /\ TablesAt(1) = TablesAt(1)
      /\ E4 = EnumsAt(2)
      /\ IndexesAt(1) = IndexesAt(1)
      /\ ColumnsAt(1) = ColumnsAt(1)
      /\ KeysAt(1) = KeysAt(1)
  <2>1. TablesAt(1) = TablesAt(1)
    BY TableSets DEF AccountTables, HiringTables,
      JobsTables, CandidatesTables, ResumesTables, JobsIndexes, CandidatesIndexes,
      ResumesIndexes
  <2>2. E4 = EnumsAt(2)
    BY EnumSets DEF HiringEnums
  <2>3. IndexesAt(1) = IndexesAt(1)
    BY IndexSets DEF HiringIndexes, QueueIndexes, AuditIndexes, SortIndexes,
      JobsTables, CandidatesTables, ResumesTables, JobsIndexes, CandidatesIndexes,
      ResumesIndexes
  <2>4. ColumnsAt(1) = ColumnsAt(1)
    BY ColumnSets DEF BiasColumns
  <2>5. KeysAt(1) = KeysAt(1)
    BY KeySets
  <2>6. QED
    BY <2>1, <2>2, <2>3, <2>4, <2>5
<1>6. Fits(p[1], TablesAt(1), E1, IndexesAt(1), ColumnsAt(1), KeysAt(1))
  BY <1>3, <1>4, CreateEnumFits
<1>7. Fits(p[2], TablesAt(1), E2, IndexesAt(1), ColumnsAt(1), KeysAt(1))
  BY <1>3, <1>6, CreateEnumFits
<1>8. Fits(p[3], TablesAt(1), E3, IndexesAt(1), ColumnsAt(1), KeysAt(1))
  BY <1>3, <1>7, CreateEnumFits
<1>9. Fits(p[4], TablesAt(1), E4, IndexesAt(1), ColumnsAt(1), KeysAt(1))
  BY <1>3, <1>8, CreateEnumFits
<1>10. QED
  BY <1>3, <1>9, <1>5

\* The jobs.
LEMMA Jobs2Fits ==
  ASSUME NEW d, Fits(d, TablesAt(1), EnumsAt(2), IndexesAt(1), ColumnsAt(1), KeysAt(1)), NEW pick
  PROVE  Fits(Run(d, Jobs2, pick), JobsTables, EnumsAt(2), JobsIndexes, ColumnsAt(1), KeysAt(1))
<1> DEFINE n == 5
           cols == {Col("jobs", "status", "job_status")}
           keys == {Key("jobs", "organizations", "CASCADE"),
                    Key("jobs", "users", "RESTRICT")}
           lines == {Key("job_requirements", "jobs", "CASCADE")}
           T1 == TablesAt(1) \cup {"jobs"}
           X1 == IndexesAt(1) \cup {<<"jobs", "ix_jobs_organization_id">>}
           X2 == X1 \cup {<<"jobs", "ix_jobs_status">>}
           T2 == T1 \cup {"job_requirements"}
           X3 == X2 \cup {<<"job_requirements", "ix_job_requirements_job_id">>}
<1>1. DOMAIN Jobs2 = 1..n /\ n \in Nat
  BY DEF Jobs2
<1> HIDE DEF n
<1>2. PICK p : Trace(p, d, Jobs2, n, pick) /\ Run(d, Jobs2, pick) = p[n]
  BY <1>1, RunSteps
<1>3. /\ p[0] = d /\ Run(d, Jobs2, pick) = p[5]
      /\ p[1] = Do(p[0], <<"create_table", "jobs", cols, keys>>, pick)
      /\ p[2] = Do(p[1], <<"create_index", "jobs", "ix_jobs_organization_id">>, pick)
      /\ p[3] = Do(p[2], <<"create_index", "jobs", "ix_jobs_status">>, pick)
      /\ p[4] = Do(p[3], <<"create_table", "job_requirements", {}, lines>>, pick)
      /\ p[5] = Do(p[4], <<"create_index", "job_requirements", "ix_job_requirements_job_id">>,
                   pick)
  <2>1. \A i \in 1..5 : p[i] = Do(p[i-1], Jobs2[i], pick)
    BY <1>2 DEF Trace, n
  <2>2. /\ Jobs2[1] = <<"create_table", "jobs", cols, keys>>
        /\ Jobs2[2] = <<"create_index", "jobs", "ix_jobs_organization_id">>
        /\ Jobs2[3] = <<"create_index", "jobs", "ix_jobs_status">>
        /\ Jobs2[4] = <<"create_table", "job_requirements", {}, lines>>
        /\ Jobs2[5] = <<"create_index", "job_requirements", "ix_job_requirements_job_id">>
    BY DEF Jobs2
  <2>3. /\ p[1] = Do(p[0], Jobs2[1], pick) /\ p[2] = Do(p[1], Jobs2[2], pick)
        /\ p[3] = Do(p[2], Jobs2[3], pick) /\ p[4] = Do(p[3], Jobs2[4], pick)
        /\ p[5] = Do(p[4], Jobs2[5], pick)
    BY <2>1
  <2> HIDE DEF cols, keys, lines
  <2>4. QED
    BY <1>2, <2>2, <2>3 DEF Trace, n
<1>4. Fits(p[0], TablesAt(1), EnumsAt(2), IndexesAt(1), ColumnsAt(1), KeysAt(1))
  BY <1>3
<1>5. TableFits("jobs", cols, keys, TablesAt(1), EnumsAt(2), ColumnsAt(1), ColumnsAt(1))
  BY TableSets, EnumSets DEF TableFits, Tracks, Tracked, Col, ColumnsOf, TypesFit,
    ColumnNames, ColumnTypes, EnumTypes, EnumTable, Key, UsersKey, Referrers, AccountTables,
    HiringTables, HiringEnums,
    JobsTables, CandidatesTables, ResumesTables, JobsIndexes, CandidatesIndexes,
    ResumesIndexes
<1>6. "jobs" \in T1 /\ \A y \in IndexesAt(1) : y[2] # "ix_jobs_organization_id"
  BY TableSets, IndexSets DEF AccountTables, HiringTables, HiringIndexes, QueueIndexes,
    AuditIndexes, SortIndexes,
    JobsTables, CandidatesTables, ResumesTables, JobsIndexes, CandidatesIndexes,
    ResumesIndexes
<1>7. "jobs" \in T1 /\ \A y \in X1 : y[2] # "ix_jobs_status"
  BY TableSets, IndexSets DEF AccountTables, HiringTables, HiringIndexes, QueueIndexes,
    AuditIndexes, SortIndexes,
    JobsTables, CandidatesTables, ResumesTables, JobsIndexes, CandidatesIndexes,
    ResumesIndexes
<1>8. TableFits("job_requirements", {}, lines, T1, EnumsAt(2), ColumnsAt(1), ColumnsAt(1))
  BY TableSets, EnumSets DEF TableFits, Tracks, Tracked, Col, ColumnsOf, TypesFit,
    ColumnNames, ColumnTypes, EnumTypes, EnumTable, Key, UsersKey, Referrers, AccountTables,
    HiringTables, HiringEnums,
    JobsTables, CandidatesTables, ResumesTables, JobsIndexes, CandidatesIndexes,
    ResumesIndexes
<1>9. "job_requirements" \in T2 /\ \A y \in X2 : y[2] # "ix_job_requirements_job_id"
  BY TableSets, IndexSets DEF AccountTables, HiringTables, HiringIndexes, QueueIndexes,
    AuditIndexes, SortIndexes,
    JobsTables, CandidatesTables, ResumesTables, JobsIndexes, CandidatesIndexes,
    ResumesIndexes
<1>10. /\ T2 = JobsTables
       /\ EnumsAt(2) = EnumsAt(2)
       /\ X3 = JobsIndexes
       /\ ColumnsAt(1) = ColumnsAt(1)
       /\ KeysAt(1) = KeysAt(1)
  <2>1. T2 = JobsTables
    BY TableSets DEF AccountTables, HiringTables,
      JobsTables, CandidatesTables, ResumesTables, JobsIndexes, CandidatesIndexes,
      ResumesIndexes
  <2>2. EnumsAt(2) = EnumsAt(2)
    BY EnumSets DEF HiringEnums
  <2>3. X3 = JobsIndexes
    BY IndexSets DEF HiringIndexes, QueueIndexes, AuditIndexes, SortIndexes,
      JobsTables, CandidatesTables, ResumesTables, JobsIndexes, CandidatesIndexes,
      ResumesIndexes
  <2>4. ColumnsAt(1) = ColumnsAt(1)
    BY ColumnSets DEF BiasColumns
  <2>5. KeysAt(1) = KeysAt(1)
    BY KeySets
  <2>6. QED
    BY <2>1, <2>2, <2>3, <2>4, <2>5
<1> HIDE DEF cols, keys, lines
<1>11. Fits(p[1], T1, EnumsAt(2), IndexesAt(1), ColumnsAt(1), KeysAt(1))
  BY <1>3, <1>4, <1>5, CreateTableFits
<1>12. Fits(p[2], T1, EnumsAt(2), X1, ColumnsAt(1), KeysAt(1))
  BY <1>3, <1>11, <1>6, CreateIndexFits
<1>13. Fits(p[3], T1, EnumsAt(2), X2, ColumnsAt(1), KeysAt(1))
  BY <1>3, <1>12, <1>7, CreateIndexFits
<1>14. Fits(p[4], T2, EnumsAt(2), X2, ColumnsAt(1), KeysAt(1))
  BY <1>3, <1>13, <1>8, CreateTableFits
<1>15. Fits(p[5], T2, EnumsAt(2), X3, ColumnsAt(1), KeysAt(1))
  BY <1>3, <1>14, <1>9, CreateIndexFits
<1>16. QED
  BY <1>3, <1>15, <1>10

\* The candidates.
LEMMA Candidates2Fits ==
  ASSUME NEW d, Fits(d, JobsTables, EnumsAt(2), JobsIndexes, ColumnsAt(1), KeysAt(1)), NEW pick
  PROVE  Fits(Run(d, Candidates2, pick), CandidatesTables, EnumsAt(2), CandidatesIndexes,
              ColumnsAt(1), KeysAt(1))
<1> DEFINE n == 3
           keys == {Key("candidates", "organizations", "CASCADE")}
           T1 == JobsTables \cup {"candidates"}
           X1 == JobsIndexes \cup {<<"candidates", "ix_candidates_organization_id">>}
           X2 == X1 \cup {<<"candidates", "ix_candidates_email">>}
<1>1. DOMAIN Candidates2 = 1..n /\ n \in Nat
  BY DEF Candidates2
<1> HIDE DEF n
<1>2. PICK p : Trace(p, d, Candidates2, n, pick) /\ Run(d, Candidates2, pick) = p[n]
  BY <1>1, RunSteps
<1>3. /\ p[0] = d /\ Run(d, Candidates2, pick) = p[3]
      /\ p[1] = Do(p[0], <<"create_table", "candidates", {}, keys>>, pick)
      /\ p[2] = Do(p[1], <<"create_index", "candidates", "ix_candidates_organization_id">>, pick)
      /\ p[3] = Do(p[2], <<"create_index", "candidates", "ix_candidates_email">>, pick)
  <2>1. \A i \in 1..3 : p[i] = Do(p[i-1], Candidates2[i], pick)
    BY <1>2 DEF Trace, n
  <2>2. /\ Candidates2[1] = <<"create_table", "candidates", {}, keys>>
        /\ Candidates2[2] = <<"create_index", "candidates", "ix_candidates_organization_id">>
        /\ Candidates2[3] = <<"create_index", "candidates", "ix_candidates_email">>
    BY DEF Candidates2
  <2>3. /\ p[1] = Do(p[0], Candidates2[1], pick) /\ p[2] = Do(p[1], Candidates2[2], pick)
        /\ p[3] = Do(p[2], Candidates2[3], pick)
    BY <2>1
  <2> HIDE DEF keys
  <2>4. QED
    BY <1>2, <2>2, <2>3 DEF Trace, n
<1>4. Fits(p[0], JobsTables, EnumsAt(2), JobsIndexes, ColumnsAt(1), KeysAt(1))
  BY <1>3
<1>5. TableFits("candidates", {}, keys, JobsTables, EnumsAt(2), ColumnsAt(1), ColumnsAt(1))
  BY TableSets, EnumSets DEF TableFits, Tracks, Tracked, Col, ColumnsOf, TypesFit,
    ColumnNames, ColumnTypes, EnumTypes, EnumTable, Key, UsersKey, Referrers, AccountTables,
    HiringTables, HiringEnums,
    JobsTables, CandidatesTables, ResumesTables, JobsIndexes, CandidatesIndexes,
    ResumesIndexes
<1>6. "candidates" \in T1 /\ \A y \in JobsIndexes : y[2] # "ix_candidates_organization_id"
  BY TableSets, IndexSets DEF AccountTables, HiringTables, HiringIndexes, QueueIndexes,
    AuditIndexes, SortIndexes,
    JobsTables, CandidatesTables, ResumesTables, JobsIndexes, CandidatesIndexes,
    ResumesIndexes
<1>7. "candidates" \in T1 /\ \A y \in X1 : y[2] # "ix_candidates_email"
  BY TableSets, IndexSets DEF AccountTables, HiringTables, HiringIndexes, QueueIndexes,
    AuditIndexes, SortIndexes,
    JobsTables, CandidatesTables, ResumesTables, JobsIndexes, CandidatesIndexes,
    ResumesIndexes
<1>8. /\ T1 = CandidatesTables
      /\ EnumsAt(2) = EnumsAt(2)
      /\ X2 = CandidatesIndexes
      /\ ColumnsAt(1) = ColumnsAt(1)
      /\ KeysAt(1) = KeysAt(1)
  <2>1. T1 = CandidatesTables
    BY TableSets DEF AccountTables, HiringTables,
      JobsTables, CandidatesTables, ResumesTables, JobsIndexes, CandidatesIndexes,
      ResumesIndexes
  <2>2. EnumsAt(2) = EnumsAt(2)
    BY EnumSets DEF HiringEnums
  <2>3. X2 = CandidatesIndexes
    BY IndexSets DEF HiringIndexes, QueueIndexes, AuditIndexes, SortIndexes,
      JobsTables, CandidatesTables, ResumesTables, JobsIndexes, CandidatesIndexes,
      ResumesIndexes
  <2>4. ColumnsAt(1) = ColumnsAt(1)
    BY ColumnSets DEF BiasColumns
  <2>5. KeysAt(1) = KeysAt(1)
    BY KeySets
  <2>6. QED
    BY <2>1, <2>2, <2>3, <2>4, <2>5
<1> HIDE DEF keys
<1>9. Fits(p[1], T1, EnumsAt(2), JobsIndexes, ColumnsAt(1), KeysAt(1))
  BY <1>3, <1>4, <1>5, CreateTableFits
<1>10. Fits(p[2], T1, EnumsAt(2), X1, ColumnsAt(1), KeysAt(1))
  BY <1>3, <1>9, <1>6, CreateIndexFits
<1>11. Fits(p[3], T1, EnumsAt(2), X2, ColumnsAt(1), KeysAt(1))
  BY <1>3, <1>10, <1>7, CreateIndexFits
<1>12. QED
  BY <1>3, <1>11, <1>8

\* The resumes.
LEMMA Resumes2Fits ==
  ASSUME NEW d, Fits(d, CandidatesTables, EnumsAt(2), CandidatesIndexes, ColumnsAt(1), KeysAt(1)),
         NEW pick
  PROVE  Fits(Run(d, Resumes2, pick), ResumesTables, EnumsAt(2), ResumesIndexes, ColumnsAt(1),
              KeysAt(1))
<1> DEFINE n == 4
           cols == {Col("resumes", "file_type", "resume_file_type"),
                    Col("resumes", "status", "resume_status")}
           keys == {Key("resumes", "organizations", "CASCADE"),
                    Key("resumes", "candidates", "CASCADE")}
           T1 == CandidatesTables \cup {"resumes"}
           X1 == CandidatesIndexes \cup {<<"resumes", "ix_resumes_organization_id">>}
           X2 == X1 \cup {<<"resumes", "ix_resumes_candidate_id">>}
           X3 == X2 \cup {<<"resumes", "ix_resumes_sha256">>}
<1>1. DOMAIN Resumes2 = 1..n /\ n \in Nat
  BY DEF Resumes2
<1> HIDE DEF n
<1>2. PICK p : Trace(p, d, Resumes2, n, pick) /\ Run(d, Resumes2, pick) = p[n]
  BY <1>1, RunSteps
<1>3. /\ p[0] = d /\ Run(d, Resumes2, pick) = p[4]
      /\ p[1] = Do(p[0], <<"create_table", "resumes", cols, keys>>, pick)
      /\ p[2] = Do(p[1], <<"create_index", "resumes", "ix_resumes_organization_id">>, pick)
      /\ p[3] = Do(p[2], <<"create_index", "resumes", "ix_resumes_candidate_id">>, pick)
      /\ p[4] = Do(p[3], <<"create_index", "resumes", "ix_resumes_sha256">>, pick)
  <2>1. \A i \in 1..4 : p[i] = Do(p[i-1], Resumes2[i], pick)
    BY <1>2 DEF Trace, n
  <2>2. /\ Resumes2[1] = <<"create_table", "resumes", cols, keys>>
        /\ Resumes2[2] = <<"create_index", "resumes", "ix_resumes_organization_id">>
        /\ Resumes2[3] = <<"create_index", "resumes", "ix_resumes_candidate_id">>
        /\ Resumes2[4] = <<"create_index", "resumes", "ix_resumes_sha256">>
    BY DEF Resumes2
  <2>3. /\ p[1] = Do(p[0], Resumes2[1], pick) /\ p[2] = Do(p[1], Resumes2[2], pick)
        /\ p[3] = Do(p[2], Resumes2[3], pick) /\ p[4] = Do(p[3], Resumes2[4], pick)
    BY <2>1
  <2> HIDE DEF cols, keys
  <2>4. QED
    BY <1>2, <2>2, <2>3 DEF Trace, n
<1>4. Fits(p[0], CandidatesTables, EnumsAt(2), CandidatesIndexes, ColumnsAt(1), KeysAt(1))
  BY <1>3
<1>5. TableFits("resumes", cols, keys, CandidatesTables, EnumsAt(2), ColumnsAt(1), ColumnsAt(1))
  BY TableSets, EnumSets DEF TableFits, Tracks, Tracked, Col, ColumnsOf, TypesFit,
    ColumnNames, ColumnTypes, EnumTypes, EnumTable, Key, UsersKey, Referrers, AccountTables,
    HiringTables, HiringEnums,
    JobsTables, CandidatesTables, ResumesTables, JobsIndexes, CandidatesIndexes,
    ResumesIndexes
<1>6. "resumes" \in T1 /\ \A y \in CandidatesIndexes : y[2] # "ix_resumes_organization_id"
  BY TableSets, IndexSets DEF AccountTables, HiringTables, HiringIndexes, QueueIndexes,
    AuditIndexes, SortIndexes,
    JobsTables, CandidatesTables, ResumesTables, JobsIndexes, CandidatesIndexes,
    ResumesIndexes
<1>7. "resumes" \in T1 /\ \A y \in X1 : y[2] # "ix_resumes_candidate_id"
  BY TableSets, IndexSets DEF AccountTables, HiringTables, HiringIndexes, QueueIndexes,
    AuditIndexes, SortIndexes,
    JobsTables, CandidatesTables, ResumesTables, JobsIndexes, CandidatesIndexes,
    ResumesIndexes
<1>8. "resumes" \in T1 /\ \A y \in X2 : y[2] # "ix_resumes_sha256"
  BY TableSets, IndexSets DEF AccountTables, HiringTables, HiringIndexes, QueueIndexes,
    AuditIndexes, SortIndexes,
    JobsTables, CandidatesTables, ResumesTables, JobsIndexes, CandidatesIndexes,
    ResumesIndexes
<1>9. /\ T1 = ResumesTables
      /\ EnumsAt(2) = EnumsAt(2)
      /\ X3 = ResumesIndexes
      /\ ColumnsAt(1) = ColumnsAt(1)
      /\ KeysAt(1) = KeysAt(1)
  <2>1. T1 = ResumesTables
    BY TableSets DEF AccountTables, HiringTables,
      JobsTables, CandidatesTables, ResumesTables, JobsIndexes, CandidatesIndexes,
      ResumesIndexes
  <2>2. EnumsAt(2) = EnumsAt(2)
    BY EnumSets DEF HiringEnums
  <2>3. X3 = ResumesIndexes
    BY IndexSets DEF HiringIndexes, QueueIndexes, AuditIndexes, SortIndexes,
      JobsTables, CandidatesTables, ResumesTables, JobsIndexes, CandidatesIndexes,
      ResumesIndexes
  <2>4. ColumnsAt(1) = ColumnsAt(1)
    BY ColumnSets DEF BiasColumns
  <2>5. KeysAt(1) = KeysAt(1)
    BY KeySets
  <2>6. QED
    BY <2>1, <2>2, <2>3, <2>4, <2>5
<1> HIDE DEF cols, keys
<1>10. Fits(p[1], T1, EnumsAt(2), CandidatesIndexes, ColumnsAt(1), KeysAt(1))
  BY <1>3, <1>4, <1>5, CreateTableFits
<1>11. Fits(p[2], T1, EnumsAt(2), X1, ColumnsAt(1), KeysAt(1))
  BY <1>3, <1>10, <1>6, CreateIndexFits
<1>12. Fits(p[3], T1, EnumsAt(2), X2, ColumnsAt(1), KeysAt(1))
  BY <1>3, <1>11, <1>7, CreateIndexFits
<1>13. Fits(p[4], T1, EnumsAt(2), X3, ColumnsAt(1), KeysAt(1))
  BY <1>3, <1>12, <1>8, CreateIndexFits
<1>14. QED
  BY <1>3, <1>13, <1>9

\* The applications.
LEMMA Applications2Fits ==
  ASSUME NEW d, Fits(d, ResumesTables, EnumsAt(2), ResumesIndexes, ColumnsAt(1), KeysAt(1)),
         NEW pick
  PROVE  Fits(Run(d, Applications2, pick), TablesAt(2), EnumsAt(2), IndexesAt(2), ColumnsAt(2),
              KeysAt(2))
<1> DEFINE n == 5
           cols == {Col("applications", "status", "application_status")}
           keys == {Key("applications", "organizations", "CASCADE"),
                    Key("applications", "jobs", "CASCADE"),
                    Key("applications", "candidates", "CASCADE"),
                    Key("applications", "resumes", "RESTRICT")}
           T1 == ResumesTables \cup {"applications"}
           X1 == ResumesIndexes \cup {<<"applications", "ix_applications_organization_id">>}
           X2 == X1 \cup {<<"applications", "ix_applications_job_id">>}
           X3 == X2 \cup {<<"applications", "ix_applications_candidate_id">>}
           X4 == X3 \cup {<<"applications", "ix_applications_status">>}
<1>1. DOMAIN Applications2 = 1..n /\ n \in Nat
  BY DEF Applications2
<1> HIDE DEF n
<1>2. PICK p : Trace(p, d, Applications2, n, pick) /\ Run(d, Applications2, pick) = p[n]
  BY <1>1, RunSteps
<1>3. /\ p[0] = d /\ Run(d, Applications2, pick) = p[5]
      /\ p[1] = Do(p[0], <<"create_table", "applications", cols, keys>>, pick)
      /\ p[2] = Do(p[1], <<"create_index", "applications", "ix_applications_organization_id">>,
                   pick)
      /\ p[3] = Do(p[2], <<"create_index", "applications", "ix_applications_job_id">>, pick)
      /\ p[4] = Do(p[3], <<"create_index", "applications", "ix_applications_candidate_id">>, pick)
      /\ p[5] = Do(p[4], <<"create_index", "applications", "ix_applications_status">>, pick)
  <2>1. \A i \in 1..5 : p[i] = Do(p[i-1], Applications2[i], pick)
    BY <1>2 DEF Trace, n
  <2>2. /\ Applications2[1] = <<"create_table", "applications", cols, keys>>
        /\ Applications2[2] = <<"create_index", "applications",
                                "ix_applications_organization_id">>
        /\ Applications2[3] = <<"create_index", "applications", "ix_applications_job_id">>
        /\ Applications2[4] = <<"create_index", "applications", "ix_applications_candidate_id">>
        /\ Applications2[5] = <<"create_index", "applications", "ix_applications_status">>
    BY DEF Applications2
  <2>3. /\ p[1] = Do(p[0], Applications2[1], pick) /\ p[2] = Do(p[1], Applications2[2], pick)
        /\ p[3] = Do(p[2], Applications2[3], pick) /\ p[4] = Do(p[3], Applications2[4], pick)
        /\ p[5] = Do(p[4], Applications2[5], pick)
    BY <2>1
  <2> HIDE DEF cols, keys
  <2>4. QED
    BY <1>2, <2>2, <2>3 DEF Trace, n
<1>4. Fits(p[0], ResumesTables, EnumsAt(2), ResumesIndexes, ColumnsAt(1), KeysAt(1))
  BY <1>3
<1>5. TableFits("applications", cols, keys, ResumesTables, EnumsAt(2), ColumnsAt(1), ColumnsAt(1))
  BY TableSets, EnumSets DEF TableFits, Tracks, Tracked, Col, ColumnsOf, TypesFit,
    ColumnNames, ColumnTypes, EnumTypes, EnumTable, Key, UsersKey, Referrers, AccountTables,
    HiringTables, HiringEnums,
    JobsTables, CandidatesTables, ResumesTables, JobsIndexes, CandidatesIndexes,
    ResumesIndexes
<1>6. "applications" \in T1 /\ \A y \in ResumesIndexes : y[2] # "ix_applications_organization_id"
  BY TableSets, IndexSets DEF AccountTables, HiringTables, HiringIndexes, QueueIndexes,
    AuditIndexes, SortIndexes,
    JobsTables, CandidatesTables, ResumesTables, JobsIndexes, CandidatesIndexes,
    ResumesIndexes
<1>7. "applications" \in T1 /\ \A y \in X1 : y[2] # "ix_applications_job_id"
  BY TableSets, IndexSets DEF AccountTables, HiringTables, HiringIndexes, QueueIndexes,
    AuditIndexes, SortIndexes,
    JobsTables, CandidatesTables, ResumesTables, JobsIndexes, CandidatesIndexes,
    ResumesIndexes
<1>8. "applications" \in T1 /\ \A y \in X2 : y[2] # "ix_applications_candidate_id"
  BY TableSets, IndexSets DEF AccountTables, HiringTables, HiringIndexes, QueueIndexes,
    AuditIndexes, SortIndexes,
    JobsTables, CandidatesTables, ResumesTables, JobsIndexes, CandidatesIndexes,
    ResumesIndexes
<1>9. "applications" \in T1 /\ \A y \in X3 : y[2] # "ix_applications_status"
  BY TableSets, IndexSets DEF AccountTables, HiringTables, HiringIndexes, QueueIndexes,
    AuditIndexes, SortIndexes,
    JobsTables, CandidatesTables, ResumesTables, JobsIndexes, CandidatesIndexes,
    ResumesIndexes
<1>10. /\ T1 = TablesAt(2)
       /\ EnumsAt(2) = EnumsAt(2)
       /\ X4 = IndexesAt(2)
       /\ ColumnsAt(1) = ColumnsAt(2)
       /\ KeysAt(1) = KeysAt(2)
  <2>1. T1 = TablesAt(2)
    BY TableSets DEF AccountTables, HiringTables,
      JobsTables, CandidatesTables, ResumesTables, JobsIndexes, CandidatesIndexes,
      ResumesIndexes
  <2>2. EnumsAt(2) = EnumsAt(2)
    BY EnumSets DEF HiringEnums
  <2>3. X4 = IndexesAt(2)
    BY IndexSets DEF HiringIndexes, QueueIndexes, AuditIndexes, SortIndexes,
      JobsTables, CandidatesTables, ResumesTables, JobsIndexes, CandidatesIndexes,
      ResumesIndexes
  <2>4. ColumnsAt(1) = ColumnsAt(2)
    BY ColumnSets DEF BiasColumns
  <2>5. KeysAt(1) = KeysAt(2)
    BY KeySets
  <2>6. QED
    BY <2>1, <2>2, <2>3, <2>4, <2>5
<1> HIDE DEF cols, keys
<1>11. Fits(p[1], T1, EnumsAt(2), ResumesIndexes, ColumnsAt(1), KeysAt(1))
  BY <1>3, <1>4, <1>5, CreateTableFits
<1>12. Fits(p[2], T1, EnumsAt(2), X1, ColumnsAt(1), KeysAt(1))
  BY <1>3, <1>11, <1>6, CreateIndexFits
<1>13. Fits(p[3], T1, EnumsAt(2), X2, ColumnsAt(1), KeysAt(1))
  BY <1>3, <1>12, <1>7, CreateIndexFits
<1>14. Fits(p[4], T1, EnumsAt(2), X3, ColumnsAt(1), KeysAt(1))
  BY <1>3, <1>13, <1>8, CreateIndexFits
<1>15. Fits(p[5], T1, EnumsAt(2), X4, ColumnsAt(1), KeysAt(1))
  BY <1>3, <1>14, <1>9, CreateIndexFits
<1>16. QED
  BY <1>3, <1>15, <1>10

\* 0007, downgrade: tenancy goes back to the memberships, if the slip is repaired.
LEMMA Restoring7Fits ==
  ASSUME NEW d, Fits(d, QueuedTables, EnumsAt(7), QueuedIndexes, QueuedColumns, KeysAt(7)),
         NEW pick,
         "user_id" \in Repaired
  PROVE  FitsAt(Run(d, Restoring7, pick), 6)
<1> DEFINE n == 8
           member == {Col("organization_members", "role", "organization_role")}
           memberKeys == {Key("organization_members", "organizations", "CASCADE"),
                          Key("organization_members", "users", "CASCADE")}
           E1 == EnumsAt(7) \cup {"organization_role"}
           T1 == QueuedTables \cup {"organization_members"}
           X1 == QueuedIndexes \ {<<"users", "ix_users_organization_id">>}
           K1 == {}
           C1 == QueuedColumns \ {<<"users", "role">>}
           C2 == C1 \ {<<"users", "organization_id">>}
           E2 == E1 \ {"user_role"}
<1>1. DOMAIN Restoring7 = 1..n /\ n \in Nat
  BY DEF Restoring7, MembersTable
<1> HIDE DEF n
<1>2. PICK p : Trace(p, d, Restoring7, n, pick) /\ Run(d, Restoring7, pick) = p[n]
  BY <1>1, RunSteps
<1>3. /\ p[0] = d /\ Run(d, Restoring7, pick) = p[8]
      /\ p[1] = Do(p[0], <<"create_enum", "organization_role">>, pick)
      /\ p[2] = Do(p[1], <<"create_table", "organization_members", member, memberKeys>>, pick)
      /\ p[3] = Do(p[2], <<"rebuild_members">>, pick)
      /\ p[4] = Do(p[3], <<"drop_index", "users", "ix_users_organization_id">>, pick)
      /\ p[5] = Do(p[4], <<"drop_key", UsersKey>>, pick)
      /\ p[6] = Do(p[5], <<"drop_column", "users", "role">>, pick)
      /\ p[7] = Do(p[6], <<"drop_column", "users", "organization_id">>, pick)
      /\ p[8] = Do(p[7], <<"drop_enum", "user_role">>, pick)
  <2>1. \A i \in 1..8 : p[i] = Do(p[i-1], Restoring7[i], pick)
    BY <1>2 DEF Trace, n
  <2>2. /\ Restoring7[1] = <<"create_enum", "organization_role">>
        /\ Restoring7[2] = <<"create_table", "organization_members", member, memberKeys>>
        /\ Restoring7[3] = <<"rebuild_members">>
        /\ Restoring7[4] = <<"drop_index", "users", "ix_users_organization_id">>
        /\ Restoring7[5] = <<"drop_key", UsersKey>>
        /\ Restoring7[6] = <<"drop_column", "users", "role">>
        /\ Restoring7[7] = <<"drop_column", "users", "organization_id">>
        /\ Restoring7[8] = <<"drop_enum", "user_role">>
    BY DEF Restoring7, MembersTable
  <2>3. /\ p[1] = Do(p[0], Restoring7[1], pick) /\ p[2] = Do(p[1], Restoring7[2], pick)
        /\ p[3] = Do(p[2], Restoring7[3], pick) /\ p[4] = Do(p[3], Restoring7[4], pick)
        /\ p[5] = Do(p[4], Restoring7[5], pick) /\ p[6] = Do(p[5], Restoring7[6], pick)
        /\ p[7] = Do(p[6], Restoring7[7], pick) /\ p[8] = Do(p[7], Restoring7[8], pick)
    BY <2>1
  <2> HIDE DEF member, memberKeys
  <2>4. QED
    BY <1>2, <2>2, <2>3 DEF Trace, n
<1>4. Fits(p[0], QueuedTables, EnumsAt(7), QueuedIndexes, QueuedColumns, KeysAt(7))
  BY <1>3
<1>5. TableFits("organization_members", member, memberKeys, QueuedTables, E1, QueuedColumns,
                QueuedColumns)
  BY TableSets, EnumSets DEF TableFits, Tracks, Tracked, Col, ColumnsOf, TypesFit,
    ColumnNames, ColumnTypes, EnumTypes, EnumTable, Key, UsersKey, Referrers, AccountTables,
    HiringTables, HiringEnums,
    QueuedTables, QueuedIndexes, QueuedColumns
<1>6. /\ <<"users", "ix_users_organization_id">> \in QueuedIndexes
      /\ \A y \in QueuedIndexes : y = <<y[1], y[2]>>
  BY TableSets, IndexSets DEF AccountTables, HiringTables, HiringIndexes, QueueIndexes,
    AuditIndexes, SortIndexes,
    QueuedTables, QueuedIndexes, QueuedColumns
<1>7. KeysAt(7) = {UsersKey}
  BY TableSets, KeySets DEF AccountTables, HiringTables
<1>8. <<"users", "role">> \in Tracked \cap QueuedColumns
  BY ColumnSets DEF Tracked, BiasColumns,
    QueuedTables, QueuedIndexes, QueuedColumns
<1>9. <<"users", "organization_id">> \in Tracked \cap C1
  BY ColumnSets DEF Tracked, BiasColumns,
    QueuedTables, QueuedIndexes, QueuedColumns
<1>10. "user_role" \in EnumTypes /\ <<"users", "role">> \notin C2
  BY TableSets, ColumnSets DEF EnumTypes, EnumTable, AccountTables, HiringTables, BiasColumns,
    QueuedTables, QueuedIndexes, QueuedColumns
<1>11. /\ T1 = TablesAt(6)
       /\ E2 = EnumsAt(6)
       /\ X1 = IndexesAt(6)
       /\ C2 = ColumnsAt(6)
       /\ K1 = KeysAt(6)
  <2>1. T1 = TablesAt(6)
    BY TableSets DEF AccountTables, HiringTables,
      QueuedTables, QueuedIndexes, QueuedColumns
  <2>2. E2 = EnumsAt(6)
    BY EnumSets DEF HiringEnums
  <2>3. X1 = IndexesAt(6)
    BY IndexSets DEF HiringIndexes, QueueIndexes, AuditIndexes, SortIndexes,
      QueuedTables, QueuedIndexes, QueuedColumns
  <2>4. C2 = ColumnsAt(6)
    BY ColumnSets DEF BiasColumns,
      QueuedTables, QueuedIndexes, QueuedColumns
  <2>5. K1 = KeysAt(6)
    BY KeySets
  <2>6. QED
    BY <2>1, <2>2, <2>3, <2>4, <2>5
<1> HIDE DEF member, memberKeys
<1>12. Fits(p[1], QueuedTables, E1, QueuedIndexes, QueuedColumns, KeysAt(7))
  BY <1>3, <1>4, CreateEnumFits
<1>13. Fits(p[2], T1, E1, QueuedIndexes, QueuedColumns, KeysAt(7))
  BY <1>3, <1>12, <1>5, CreateTableFits
<1>14. Fits(p[3], T1, E1, QueuedIndexes, QueuedColumns, KeysAt(7))
  BY <1>3, <1>13, RebuildMembersFits
<1>15. Fits(p[4], T1, E1, X1, QueuedColumns, KeysAt(7))
  BY <1>3, <1>14, <1>6, DropIndexFits
<1>16. Fits(p[5], T1, E1, X1, QueuedColumns, K1)
  BY <1>3, <1>15, <1>7, DropKeyFits
<1>17. Fits(p[6], T1, E1, X1, C1, K1)
  BY <1>3, <1>16, <1>8, DropColumnFits
<1>18. Fits(p[7], T1, E1, X1, C2, K1)
  BY <1>3, <1>17, <1>9, DropColumnFits
<1>19. Fits(p[8], T1, E2, X1, C2, K1)
  BY <1>3, <1>18, <1>10, DropEnumFits
<1>20. QED
  BY <1>3, <1>19, <1>11 DEF FitsAt

\* 0007: tenancy moves to the accounts, unless jobs hold an account without a membership.
LEMMA Upgrade7Fits ==
  ASSUME NEW d, FitsAt(d, 6), NEW pick \in Picks(d),
         RowsFit(d, 6),
         \A u \in d.creators : MembersOf(d, u) # {}
  PROVE  FitsAt(Run(d, Upgrade7, pick), 7)
<1> DEFINE n == 13
           E1 == EnumsAt(6) \cup {"user_role"}
           C1 == ColumnsAt(6) \cup {<<"users", "organization_id">>}
           C2 == C1 \cup {<<"users", "role">>}
           K1 == {UsersKey}
           X1 == IndexesAt(6) \cup {<<"users", "ix_users_organization_id">>}
           T1 == TablesAt(6) \ {"organization_members"}
           X2 == {y \in X1 : y[1] # "organization_members"}
           C3 == {y \in C2 : y[1] # "organization_members"}
           E2 == E1 \ {"organization_role"}
           T2 == T1 \ {"screening_jobs"}
           X3 == {y \in X2 : y[1] # "screening_jobs"}
           C4 == {y \in C3 : y[1] # "screening_jobs"}
           C5 == C4 \ {<<"users", "is_verified">>}
           C6 == C5 \ {<<"audit_events", "request_id">>}
<1>1. DOMAIN Upgrade7 = 1..n /\ n \in Nat
  BY DEF Upgrade7
<1> HIDE DEF n
<1>2. PICK p : Trace(p, d, Upgrade7, n, pick) /\ Run(d, Upgrade7, pick) = p[n]
  BY <1>1, RunSteps
<1>3. /\ p[0] = d /\ Run(d, Upgrade7, pick) = p[13]
      /\ p[1] = Do(p[0], <<"create_enum", "user_role">>, pick)
      /\ p[2] = Do(p[1], <<"add_column", "users", "organization_id", "uuid">>, pick)
      /\ p[3] = Do(p[2], <<"add_column", "users", "role", "user_role">>, pick)
      /\ p[4] = Do(p[3], <<"backfill">>, pick)
      /\ p[5] = Do(p[4], <<"delete_unplaced">>, pick)
      /\ p[6] = Do(p[5], <<"set_not_null">>, pick)
      /\ p[7] = Do(p[6], <<"create_key", UsersKey>>, pick)
      /\ p[8] = Do(p[7], <<"create_index", "users", "ix_users_organization_id">>, pick)
      /\ p[9] = Do(p[8], <<"drop_table", "organization_members">>, pick)
      /\ p[10] = Do(p[9], <<"drop_enum", "organization_role">>, pick)
      /\ p[11] = Do(p[10], <<"drop_table", "screening_jobs">>, pick)
      /\ p[12] = Do(p[11], <<"drop_column", "users", "is_verified">>, pick)
      /\ p[13] = Do(p[12], <<"drop_column", "audit_events", "request_id">>, pick)
  <2>1. \A i \in 1..13 : p[i] = Do(p[i-1], Upgrade7[i], pick)
    BY <1>2 DEF Trace, n
  <2>2. /\ Upgrade7[1] = <<"create_enum", "user_role">>
        /\ Upgrade7[2] = <<"add_column", "users", "organization_id", "uuid">>
        /\ Upgrade7[3] = <<"add_column", "users", "role", "user_role">>
        /\ Upgrade7[4] = <<"backfill">>
        /\ Upgrade7[5] = <<"delete_unplaced">>
        /\ Upgrade7[6] = <<"set_not_null">>
        /\ Upgrade7[7] = <<"create_key", UsersKey>>
        /\ Upgrade7[8] = <<"create_index", "users", "ix_users_organization_id">>
        /\ Upgrade7[9] = <<"drop_table", "organization_members">>
        /\ Upgrade7[10] = <<"drop_enum", "organization_role">>
        /\ Upgrade7[11] = <<"drop_table", "screening_jobs">>
        /\ Upgrade7[12] = <<"drop_column", "users", "is_verified">>
        /\ Upgrade7[13] = <<"drop_column", "audit_events", "request_id">>
    BY DEF Upgrade7
  <2>3. /\ p[1] = Do(p[0], Upgrade7[1], pick) /\ p[2] = Do(p[1], Upgrade7[2], pick)
        /\ p[3] = Do(p[2], Upgrade7[3], pick) /\ p[4] = Do(p[3], Upgrade7[4], pick)
        /\ p[5] = Do(p[4], Upgrade7[5], pick) /\ p[6] = Do(p[5], Upgrade7[6], pick)
        /\ p[7] = Do(p[6], Upgrade7[7], pick) /\ p[8] = Do(p[7], Upgrade7[8], pick)
        /\ p[9] = Do(p[8], Upgrade7[9], pick) /\ p[10] = Do(p[9], Upgrade7[10], pick)
        /\ p[11] = Do(p[10], Upgrade7[11], pick) /\ p[12] = Do(p[11], Upgrade7[12], pick)
        /\ p[13] = Do(p[12], Upgrade7[13], pick)
    BY <2>1
  <2>4. QED
    BY <1>2, <2>2, <2>3 DEF Trace, n
<1>4. Fits(p[0], TablesAt(6), EnumsAt(6), IndexesAt(6), ColumnsAt(6), KeysAt(6))
  BY <1>3 DEF FitsAt
<1>5. /\ "users" \in TablesAt(6) /\ "organization_id" \in ColumnNames /\ "uuid" \in ColumnTypes
      /\ <<"users", "organization_id">> \in Tracked \ ColumnsAt(6)
      /\ TypesFit(Col("users", "organization_id", "uuid"))
      /\ ("uuid" \in EnumTypes => "uuid" \in E1)
  BY TableSets, EnumSets, ColumnSets DEF Tracked, TypesFit, Col, ColumnNames, ColumnTypes,
    EnumTypes, EnumTable, AccountTables, HiringTables, HiringEnums, BiasColumns
<1>6. /\ "users" \in TablesAt(6) /\ "role" \in ColumnNames /\ "user_role" \in ColumnTypes
      /\ <<"users", "role">> \in Tracked \ C1 /\ TypesFit(Col("users", "role", "user_role"))
      /\ ("user_role" \in EnumTypes => "user_role" \in E1)
  BY TableSets, EnumSets, ColumnSets DEF Tracked, TypesFit, Col, ColumnNames, ColumnTypes,
    EnumTypes, EnumTable, AccountTables, HiringTables, HiringEnums, BiasColumns
<1>7. "users" \in TablesAt(6) /\ KeysAt(6) = {}
  BY TableSets, KeySets DEF AccountTables, HiringTables
<1>8. "users" \in TablesAt(6) /\ \A y \in IndexesAt(6) : y[2] # "ix_users_organization_id"
  BY TableSets, IndexSets DEF AccountTables, HiringTables, HiringIndexes, QueueIndexes,
    AuditIndexes, SortIndexes
<1>9. /\ "organization_members" \in TablesAt(6)
      /\ Referrers("organization_members") \cap TablesAt(6) \subseteq {"organization_members"}
  BY TableSets, KeySets DEF Referrers, AccountTables, HiringTables
<1>10. "organization_role" \in EnumTypes /\ EnumTable["organization_role"] \notin T1
  BY TableSets, ColumnSets DEF EnumTypes, EnumTable, AccountTables, HiringTables, BiasColumns
<1>11. "screening_jobs" \in T1 /\ Referrers("screening_jobs") \cap T1 \subseteq {"screening_jobs"}
  BY TableSets, KeySets DEF Referrers, AccountTables, HiringTables
<1>12. <<"users", "is_verified">> \in Tracked \cap C4
  BY ColumnSets DEF Tracked, BiasColumns
<1>13. <<"audit_events", "request_id">> \in Tracked \cap C5
  BY ColumnSets DEF Tracked, BiasColumns
<1>14. /\ T2 = TablesAt(7)
       /\ E2 = EnumsAt(7)
       /\ X3 = IndexesAt(7)
       /\ C6 = ColumnsAt(7)
       /\ K1 = KeysAt(7)
  <2>1. T2 = TablesAt(7)
    BY TableSets DEF AccountTables, HiringTables
  <2>2. E2 = EnumsAt(7)
    BY EnumSets DEF HiringEnums
  <2>3. X3 = IndexesAt(7)
    BY IndexSets DEF HiringIndexes, QueueIndexes, AuditIndexes, SortIndexes
  <2>4. C6 = ColumnsAt(7)
    BY ColumnSets DEF BiasColumns
  <2>5. K1 = KeysAt(7)
    BY KeySets
  <2>6. QED
    BY <2>1, <2>2, <2>3, <2>4, <2>5
<1>15. Fits(p[1], TablesAt(6), E1, IndexesAt(6), ColumnsAt(6), KeysAt(6))
  BY <1>3, <1>4, CreateEnumFits
<1>16. Fits(p[2], TablesAt(6), E1, IndexesAt(6), C1, KeysAt(6))
  BY <1>3, <1>15, <1>5, AddColumnFits
<1>17. Fits(p[3], TablesAt(6), E1, IndexesAt(6), C2, KeysAt(6))
  BY <1>3, <1>16, <1>6, AddColumnFits
<1>18. Fits(p[4], TablesAt(6), E1, IndexesAt(6), C2, KeysAt(6))
  BY <1>3, <1>17, BackfillFits
<1>19. Shape(p[3]) /\ p[3].ok /\ Rows(p[3]) = Rows(d)
  <2>1. Shape(d) /\ p[3].ok
    BY <1>4, <1>17, <1>3, FitsShape
  <2>2. NeutralBetween(Upgrade7, n, 0, 3)
    BY NeutralOps7 DEF n
  <2>3. QED
    BY <1>2, <1>3, <2>1, <2>2, NeutralSteps
<1>20. /\ Unplaced(p[4]) \cap p[4].creators = {}
       /\ \A u \in DOMAIN p[4].users \ Unplaced(p[4]) :
            p[4].users[u].org # None /\ p[4].users[u].role # None
  BY <1>3, <1>19, PlacedRows
<1>21. Fits(p[5], TablesAt(6), E1, IndexesAt(6), C2, KeysAt(6))
  BY <1>3, <1>18, <1>20, DeleteUnplacedFits
<1>22. \A u \in DOMAIN p[5].users : p[5].users[u].org # None /\ p[5].users[u].role # None
  <2>1. /\ DOMAIN p[5].users = DOMAIN p[4].users \ Unplaced(p[4])
        /\ \A u \in DOMAIN p[5].users : p[5].users[u] = p[4].users[u]
    <3>1. Shape(p[4]) /\ p[4].ok /\ p[5].ok
      BY <1>18, <1>21, FitsShape
    <3>2. QED
      BY <1>3, <3>1, DeleteUnplacedOperation
  <2>2. QED
    BY <1>20, <2>1
<1>23. Fits(p[6], TablesAt(6), E1, IndexesAt(6), C2, KeysAt(6))
  BY <1>3, <1>21, <1>22, SetNotNullFits
<1>24. Fits(p[7], TablesAt(6), E1, IndexesAt(6), C2, K1)
  BY <1>3, <1>23, <1>7, CreateKeyFits
<1>25. Fits(p[8], TablesAt(6), E1, X1, C2, K1)
  BY <1>3, <1>24, <1>8, CreateIndexFits
<1>26. Fits(p[9], T1, E1, X2, C3, K1)
  BY <1>3, <1>25, <1>9, DropTableFits
<1>27. Fits(p[10], T1, E2, X2, C3, K1)
  BY <1>3, <1>26, <1>10, DropEnumFits
<1>28. Fits(p[11], T2, E2, X3, C4, K1)
  BY <1>3, <1>27, <1>11, DropTableFits
<1>29. Fits(p[12], T2, E2, X3, C5, K1)
  BY <1>3, <1>28, <1>12, DropColumnFits
<1>30. Fits(p[13], T2, E2, X3, C6, K1)
  BY <1>3, <1>29, <1>13, DropColumnFits
<1>31. QED
  BY <1>3, <1>30, <1>14 DEF FitsAt

\* Two scripts of neutral operations, one after the other.
LEMMA RunOfCalmParts ==
  ASSUME NEW d, NEW s, Calm(s), NEW t, Calm(t), NEW pick
  PROVE  Run(d, s \o t, pick) = Run(Run(d, s, pick), t, pick)
BY RunOfParts DEF Calm

\* 0002: the five parts, one after the other.
LEMMA Upgrade2Fits ==
  ASSUME NEW d, FitsAt(d, 1), NEW pick
  PROVE  FitsAt(Run(d, Upgrade2, pick), 2)
<1> DEFINE s1 == Enums2 \o Jobs2
           s2 == s1 \o Candidates2
           s3 == s2 \o Resumes2
           q1 == Run(d, Enums2, pick)
           q2 == Run(d, s1, pick)
           q3 == Run(d, s2, pick)
           q4 == Run(d, s3, pick)
<1>1. Calm(s1) /\ Calm(s2) /\ Calm(s3)
  BY CalmHiring, CalmParts
<1>2. Upgrade2 = s3 \o Applications2
  BY DEF Upgrade2
<1>3. q2 = Run(q1, Jobs2, pick)
  BY CalmHiring, RunOfCalmParts
<1> HIDE DEF s1
<1>4. q3 = Run(q2, Candidates2, pick)
  BY <1>1, CalmHiring, RunOfCalmParts
<1> HIDE DEF s2
<1>5. q4 = Run(q3, Resumes2, pick)
  BY <1>1, CalmHiring, RunOfCalmParts
<1> HIDE DEF s3
<1>6. Run(d, Upgrade2, pick) = Run(q4, Applications2, pick)
  BY <1>1, <1>2, CalmHiring, RunOfCalmParts
<1>7. Fits(q1, TablesAt(1), EnumsAt(2), IndexesAt(1), ColumnsAt(1), KeysAt(1))
  BY Enums2Fits DEF FitsAt
<1> HIDE DEF q1, q2, q3, q4
<1>8. Fits(q2, JobsTables, EnumsAt(2), JobsIndexes, ColumnsAt(1), KeysAt(1))
  BY <1>3, <1>7, Jobs2Fits
<1>9. Fits(q3, CandidatesTables, EnumsAt(2), CandidatesIndexes, ColumnsAt(1), KeysAt(1))
  BY <1>4, <1>8, Candidates2Fits
<1>10. Fits(q4, ResumesTables, EnumsAt(2), ResumesIndexes, ColumnsAt(1), KeysAt(1))
  BY <1>5, <1>9, Resumes2Fits
<1>11. QED
  BY <1>6, <1>10, Applications2Fits DEF FitsAt

\* The queue, with whichever columns.
LEMMA QueueFits ==
  ASSUME NEW times, times \subseteq ColumnNames,
         NEW d, NEW T, NEW E, NEW X, NEW C, NEW K, Fits(d, T, E, X, C, K), NEW pick,
         {"organizations", "applications"} \subseteq T, "screening_jobs" \notin T,
         \A y \in X : y[2] # "ix_screening_jobs_org_status"
                      /\ y[2] # "ix_screening_jobs_available_at"
  PROVE  Fits(Run(d, Queue(times), pick), T \cup {"screening_jobs"}, E, X \cup QueueIndexes, C, K)
<1> DEFINE n == 3
           cols == {Col("screening_jobs", c, "timestamp") : c \in times}
           keys == {Key("screening_jobs", "organizations", "CASCADE"),
                    Key("screening_jobs", "applications", "CASCADE")}
           T1 == T \cup {"screening_jobs"}
           X1 == X \cup {<<"screening_jobs", "ix_screening_jobs_org_status">>}
           X2 == X1 \cup {<<"screening_jobs", "ix_screening_jobs_available_at">>}
           s == Queue(times)
<1>1. DOMAIN s = 1..n /\ n \in Nat
  BY DEF Queue
<1> HIDE DEF n
<1>2. PICK p : Trace(p, d, s, n, pick) /\ Run(d, s, pick) = p[n]
  BY <1>1, RunSteps
<1>3. /\ p[0] = d /\ Run(d, s, pick) = p[3]
      /\ p[1] = Do(p[0], <<"create_table", "screening_jobs", cols, keys>>, pick)
      /\ p[2] = Do(p[1], <<"create_index", "screening_jobs", "ix_screening_jobs_org_status">>,
                   pick)
      /\ p[3] = Do(p[2], <<"create_index", "screening_jobs", "ix_screening_jobs_available_at">>,
                   pick)
  <2>1. \A i \in 1..3 : p[i] = Do(p[i-1], s[i], pick)
    BY <1>2 DEF Trace, n
  <2>2. /\ s[1] = <<"create_table", "screening_jobs", cols, keys>>
        /\ s[2] = <<"create_index", "screening_jobs", "ix_screening_jobs_org_status">>
        /\ s[3] = <<"create_index", "screening_jobs", "ix_screening_jobs_available_at">>
    BY DEF Queue
  <2>3. p[1] = Do(p[0], s[1], pick) /\ p[2] = Do(p[1], s[2], pick) /\ p[3] = Do(p[2], s[3], pick)
    BY <2>1
  <2> HIDE DEF cols, keys, s
  <2>4. QED
    BY <1>2, <2>2, <2>3 DEF Trace, n
<1>4. TableFits("screening_jobs", cols, keys, T, E, C, C)
  BY DEF TableFits, Tracks, Tracked, Col, ColumnsOf, TypesFit, ColumnTypes, EnumTypes, Key,
         UsersKey, Referrers
<1>5. X2 = X \cup QueueIndexes
  BY DEF QueueIndexes
<1>6. /\ \A y \in X : y[2] # "ix_screening_jobs_org_status"
      /\ \A y \in X1 : y[2] # "ix_screening_jobs_available_at"
      /\ "screening_jobs" \in T1
  OBVIOUS
<1> HIDE DEF cols, keys, s
<1>7. Fits(p[1], T1, E, X, C, K)
  BY <1>3, <1>4, CreateTableFits
<1>8. Fits(p[2], T1, E, X1, C, K)
  BY <1>3, <1>6, <1>7, CreateIndexFits
<1>9. Fits(p[3], T1, E, X2, C, K)
  BY <1>3, <1>6, <1>8, CreateIndexFits
<1>10. QED
  BY <1>3, <1>5, <1>9 DEF s

\* 0004, the audit trail, after the queue.
Audit4 == <<
  <<"create_table", "audit_events", {Col("audit_events", "request_id", "varchar(80)")},
    {Key("audit_events", "organizations", "SET NULL"), Key("audit_events", "users",
                                                           "SET NULL")}>>,
  <<"create_index", "audit_events", "ix_audit_events_org_created">>,
  <<"create_index", "audit_events", "ix_audit_events_entity">> >>

QueuedTables3  == TablesAt(3) \cup {"screening_jobs"}
QueuedIndexes3 == IndexesAt(3) \cup QueueIndexes

\* The trail refers to organizations and users.
LEMMA Audit4Fits ==
  ASSUME NEW d, Fits(d, QueuedTables3, EnumsAt(3), QueuedIndexes3, ColumnsAt(3), KeysAt(3)),
         NEW pick
  PROVE  FitsAt(Run(d, Audit4, pick), 4)
<1> DEFINE n == 3
           cols == {Col("audit_events", "request_id", "varchar(80)")}
           keys == {Key("audit_events", "organizations", "SET NULL"),
                    Key("audit_events", "users", "SET NULL")}
           C1 == ColumnsAt(3) \cup {<<"audit_events", "request_id">>}
           T1 == QueuedTables3 \cup {"audit_events"}
           X1 == QueuedIndexes3 \cup {<<"audit_events", "ix_audit_events_org_created">>}
           X2 == X1 \cup {<<"audit_events", "ix_audit_events_entity">>}
<1>1. DOMAIN Audit4 = 1..n /\ n \in Nat
  BY DEF Audit4
<1> HIDE DEF n
<1>2. PICK p : Trace(p, d, Audit4, n, pick) /\ Run(d, Audit4, pick) = p[n]
  BY <1>1, RunSteps
<1>3. /\ p[0] = d /\ Run(d, Audit4, pick) = p[3]
      /\ p[1] = Do(p[0], <<"create_table", "audit_events", cols, keys>>, pick)
      /\ p[2] = Do(p[1], <<"create_index", "audit_events", "ix_audit_events_org_created">>, pick)
      /\ p[3] = Do(p[2], <<"create_index", "audit_events", "ix_audit_events_entity">>, pick)
  <2>1. \A i \in 1..3 : p[i] = Do(p[i-1], Audit4[i], pick)
    BY <1>2 DEF Trace, n
  <2>2. /\ Audit4[1] = <<"create_table", "audit_events", cols, keys>>
        /\ Audit4[2] = <<"create_index", "audit_events", "ix_audit_events_org_created">>
        /\ Audit4[3] = <<"create_index", "audit_events", "ix_audit_events_entity">>
    BY DEF Audit4
  <2>3. /\ p[1] = Do(p[0], Audit4[1], pick) /\ p[2] = Do(p[1], Audit4[2], pick)
        /\ p[3] = Do(p[2], Audit4[3], pick)
    BY <2>1
  <2> HIDE DEF cols, keys
  <2>4. QED
    BY <1>2, <2>2, <2>3 DEF Trace, n
<1>4. Fits(p[0], QueuedTables3, EnumsAt(3), QueuedIndexes3, ColumnsAt(3), KeysAt(3))
  BY <1>3
<1>5. TableFits("audit_events", cols, keys, QueuedTables3, EnumsAt(3), ColumnsAt(3), C1)
  <2>1. "audit_events" \notin QueuedTables3 /\ {"organizations", "users"} \subseteq QueuedTables3
    BY TableSets DEF QueuedTables3, AccountTables, HiringTables
  <2>2. cols \subseteq ColumnsOf({"audit_events"})
    BY DEF Col, ColumnsOf, ColumnNames, ColumnTypes
  <2>3. \A c \in cols : c.type \notin EnumTypes
    <3>1. \A c \in cols : c.type = "varchar(80)"
      BY DEF Col
    <3>2. QED
      BY <3>1 DEF EnumTypes
  <2>4. /\ UsersKey \notin keys
        /\ \A k \in keys : k.from = "audit_events" /\ k.to \in {"organizations", "users"}
    <3>1. Key("audit_events", "organizations", "SET NULL").from = "audit_events"
          /\ Key("audit_events", "users", "SET NULL").from = "audit_events"
          /\ UsersKey.from = "users"
      BY DEF Key, UsersKey
    <3>2. Key("audit_events", "organizations", "SET NULL").to = "organizations"
          /\ Key("audit_events", "users", "SET NULL").to = "users"
      BY DEF Key
    <3>3. QED
      BY <3>1, <3>2
  <2>5. "audit_events" \in Referrers("organizations") /\ "audit_events" \in Referrers("users")
    BY DEF Referrers
  <2>6. Tracks(ColumnsAt(3), C1, "audit_events", cols)
    BY DEF Tracks, Tracked, Col
  <2> HIDE DEF cols, keys, C1
  <2>7. QED
    BY <2>1, <2>2, <2>3, <2>4, <2>5, <2>6 DEF TableFits, TypesFit
<1>6. "audit_events" \in T1 /\ \A y \in QueuedIndexes3 : y[2] # "ix_audit_events_org_created"
  BY TableSets, IndexSets DEF AccountTables, HiringTables, HiringIndexes, QueueIndexes,
    AuditIndexes, SortIndexes, QueuedIndexes3, QueuedTables3
<1>7. "audit_events" \in T1 /\ \A y \in X1 : y[2] # "ix_audit_events_entity"
  BY TableSets, IndexSets DEF AccountTables, HiringTables, HiringIndexes, QueueIndexes,
    AuditIndexes, SortIndexes, QueuedIndexes3, QueuedTables3
<1>8. /\ T1 = TablesAt(4)
      /\ EnumsAt(3) = EnumsAt(4)
      /\ X2 = IndexesAt(4)
      /\ C1 = ColumnsAt(4)
      /\ KeysAt(3) = KeysAt(4)
  <2>1. T1 = TablesAt(4)
    BY TableSets DEF AccountTables, HiringTables, QueuedTables3
  <2>2. EnumsAt(3) = EnumsAt(4)
    BY EnumSets DEF HiringEnums
  <2>3. X2 = IndexesAt(4)
    BY IndexSets DEF HiringIndexes, QueueIndexes, AuditIndexes, SortIndexes, QueuedIndexes3,
      QueuedTables3
  <2>4. C1 = ColumnsAt(4)
    BY ColumnSets DEF BiasColumns
  <2>5. KeysAt(3) = KeysAt(4)
    BY KeySets
  <2>6. QED
    BY <2>1, <2>2, <2>3, <2>4, <2>5
<1> HIDE DEF cols, keys
<1>9. Fits(p[1], T1, EnumsAt(3), QueuedIndexes3, C1, KeysAt(3))
  BY <1>3, <1>4, <1>5, CreateTableFits
<1>10. Fits(p[2], T1, EnumsAt(3), X1, C1, KeysAt(3))
  BY <1>3, <1>9, <1>6, CreateIndexFits
<1>11. Fits(p[3], T1, EnumsAt(3), X2, C1, KeysAt(3))
  BY <1>3, <1>10, <1>7, CreateIndexFits
<1>12. QED
  BY <1>3, <1>11, <1>8 DEF FitsAt

\* 0004: the queue and the audit trail.
LEMMA Upgrade4Fits ==
  ASSUME NEW d, FitsAt(d, 3), NEW pick
  PROVE  FitsAt(Run(d, Upgrade4, pick), 4)
<1> DEFINE queue == Queue({"started_at", "created_at"})
           q == Run(d, queue, pick)
<1>1. {"started_at", "created_at"} \subseteq ColumnNames
  BY DEF ColumnNames
<1>2. Calm(queue)
  BY <1>1, CalmQueue
<1>3. Calm(Audit4)
  <2> DEFINE cols == {Col("audit_events", "request_id", "varchar(80)")}
             keys == {Key("audit_events", "organizations", "SET NULL"),
                      Key("audit_events", "users", "SET NULL")}
  <2>1. cols \subseteq ColumnsOf({"audit_events"})
    BY DEF Col, ColumnsOf, ColumnNames, ColumnTypes
  <2>2. Audit4 = << <<"create_table", "audit_events", cols, keys>>,
                    <<"create_index", "audit_events", "ix_audit_events_org_created">>,
                    <<"create_index", "audit_events", "ix_audit_events_entity">> >>
    BY DEF Audit4
  <2> HIDE DEF cols, keys
  <2>3. QED
    BY <2>1, <2>2, CalmTuples, NeutralKinds
<1>4. Upgrade4 = queue \o Audit4
  BY DEF Upgrade4, Audit4
<1> HIDE DEF queue
<1>5. Run(d, Upgrade4, pick) = Run(q, Audit4, pick)
  BY <1>2, <1>3, <1>4, RunOfCalmParts
<1>6. /\ {"organizations", "applications"} \subseteq TablesAt(3)
      /\ "screening_jobs" \notin TablesAt(3)
      /\ \A y \in IndexesAt(3) : y[2] # "ix_screening_jobs_org_status"
                                 /\ y[2] # "ix_screening_jobs_available_at"
  BY TableSets, IndexSets DEF AccountTables, HiringTables, HiringIndexes
<1>7. Fits(q, QueuedTables3, EnumsAt(3), QueuedIndexes3, ColumnsAt(3), KeysAt(3))
  BY <1>1, <1>6, QueueFits DEF FitsAt, queue, QueuedTables3, QueuedIndexes3
<1>8. QED
  BY <1>5, <1>7, Audit4Fits

Columns7 == << <<"add_column", "audit_events", "request_id", "varchar(96)">>,
               <<"add_column", "users", "is_verified", "boolean">> >>

\* The columns that 0007 dropped.
LEMMA Columns7Fits ==
  ASSUME NEW d, FitsAt(d, 7), NEW pick
  PROVE  Fits(Run(d, Columns7, pick), TablesAt(7), EnumsAt(7), IndexesAt(7), QueuedColumns,
              KeysAt(7))
<1> DEFINE n == 2
           C1 == ColumnsAt(7) \cup {<<"audit_events", "request_id">>}
           C2 == C1 \cup {<<"users", "is_verified">>}
<1>1. DOMAIN Columns7 = 1..n /\ n \in Nat
  BY DEF Columns7
<1> HIDE DEF n
<1>2. PICK p : Trace(p, d, Columns7, n, pick) /\ Run(d, Columns7, pick) = p[n]
  BY <1>1, RunSteps
<1>3. /\ p[0] = d /\ Run(d, Columns7, pick) = p[2]
      /\ p[1] = Do(p[0], <<"add_column", "audit_events", "request_id", "varchar(96)">>, pick)
      /\ p[2] = Do(p[1], <<"add_column", "users", "is_verified", "boolean">>, pick)
  <2>1. \A i \in 1..2 : p[i] = Do(p[i-1], Columns7[i], pick)
    BY <1>2 DEF Trace, n
  <2>2. /\ Columns7[1] = <<"add_column", "audit_events", "request_id", "varchar(96)">>
        /\ Columns7[2] = <<"add_column", "users", "is_verified", "boolean">>
    BY DEF Columns7
  <2>3. /\ p[1] = Do(p[0], Columns7[1], pick) /\ p[2] = Do(p[1], Columns7[2], pick)
    BY <2>1
  <2>4. QED
    BY <1>2, <2>2, <2>3 DEF Trace, n
<1>4. Fits(p[0], TablesAt(7), EnumsAt(7), IndexesAt(7), ColumnsAt(7), KeysAt(7))
  BY <1>3 DEF FitsAt
<1>5. /\ "audit_events" \in TablesAt(7)
      /\ "request_id" \in ColumnNames
      /\ "varchar(96)" \in ColumnTypes
      /\ <<"audit_events", "request_id">> \in Tracked \ ColumnsAt(7)
      /\ TypesFit(Col("audit_events", "request_id", "varchar(96)"))
      /\ ("varchar(96)" \in EnumTypes => "varchar(96)" \in EnumsAt(7))
  BY TableSets, EnumSets, ColumnSets DEF Tracked, TypesFit, Col, ColumnNames, ColumnTypes,
    EnumTypes, EnumTable, AccountTables, HiringTables, HiringEnums, BiasColumns
<1>6. /\ "users" \in TablesAt(7) /\ "is_verified" \in ColumnNames /\ "boolean" \in ColumnTypes
      /\ <<"users", "is_verified">> \in Tracked \ C1
      /\ TypesFit(Col("users", "is_verified", "boolean"))
      /\ ("boolean" \in EnumTypes => "boolean" \in EnumsAt(7))
  BY TableSets, EnumSets, ColumnSets DEF Tracked, TypesFit, Col, ColumnNames, ColumnTypes,
    EnumTypes, EnumTable, AccountTables, HiringTables, HiringEnums, BiasColumns
<1>7. /\ TablesAt(7) = TablesAt(7)
      /\ EnumsAt(7) = EnumsAt(7)
      /\ IndexesAt(7) = IndexesAt(7)
      /\ C2 = QueuedColumns
      /\ KeysAt(7) = KeysAt(7)
  <2>1. TablesAt(7) = TablesAt(7)
    BY TableSets DEF AccountTables, HiringTables
  <2>2. EnumsAt(7) = EnumsAt(7)
    BY EnumSets DEF HiringEnums
  <2>3. IndexesAt(7) = IndexesAt(7)
    BY IndexSets DEF HiringIndexes, QueueIndexes, AuditIndexes, SortIndexes
  <2>4. C2 = QueuedColumns
    BY ColumnSets DEF BiasColumns, QueuedColumns
  <2>5. KeysAt(7) = KeysAt(7)
    BY KeySets
  <2>6. QED
    BY <2>1, <2>2, <2>3, <2>4, <2>5
<1>8. Fits(p[1], TablesAt(7), EnumsAt(7), IndexesAt(7), C1, KeysAt(7))
  BY <1>3, <1>4, <1>5, AddColumnFits
<1>9. Fits(p[2], TablesAt(7), EnumsAt(7), IndexesAt(7), C2, KeysAt(7))
  BY <1>3, <1>8, <1>6, AddColumnFits
<1>10. QED
  BY <1>3, <1>9, <1>7

\* 0007, downgrade: the columns, the queue and then the memberships.
LEMMA Downgrade7Fits ==
  ASSUME NEW d, FitsAt(d, 7), NEW pick, "user_id" \in Repaired
  PROVE  FitsAt(Run(d, Downgrade7, pick), 6)
<1> DEFINE queue == Queue({"locked_at"})
           calm == Columns7 \o queue
           e == Run(d, Columns7, pick)
           q == Run(d, calm, pick)
<1>1. {"locked_at"} \subseteq ColumnNames
  BY DEF ColumnNames
<1>2. Calm(Columns7) /\ Calm(queue)
  BY <1>1, CalmQueue, CalmTuples, NeutralKinds DEF Columns7, ColumnNames, ColumnTypes
<1>3. Calm(calm)
  BY <1>2, CalmParts
<1>4. q = Run(e, queue, pick)
  BY <1>2, RunOfCalmParts
<1>5. Downgrade7 = calm \o Restoring7
  BY DEF Downgrade7, Restoring7, Columns7
<1>6. \E S : Restoring7 \in Seq(S)
  <2>1. ASSUME NEW a, NEW b, NEW c, NEW f, NEW g, NEW h, NEW i, NEW j
        PROVE  <<a, b, c, f, g, h, i, j>> \in Seq({a, b, c, f, g, h, i, j})
    OBVIOUS
  <2>2. QED
    BY <2>1 DEF Restoring7
<1> HIDE DEF calm
<1>7. Run(d, Downgrade7, pick) = Run(q, Restoring7, pick)
  BY <1>3, <1>5, <1>6, RunOfParts DEF Calm
<1> HIDE DEF q, e
<1>8. Fits(e, TablesAt(7), EnumsAt(7), IndexesAt(7), QueuedColumns, KeysAt(7))
  BY Columns7Fits DEF FitsAt, e
<1>9. /\ {"organizations", "applications"} \subseteq TablesAt(7)
      /\ "screening_jobs" \notin TablesAt(7)
      /\ \A y \in IndexesAt(7) : y[2] # "ix_screening_jobs_org_status"
                                 /\ y[2] # "ix_screening_jobs_available_at"
  BY TableSets, IndexSets DEF AccountTables, HiringTables, HiringIndexes, AuditIndexes,
    SortIndexes
<1>10. Fits(q, QueuedTables, EnumsAt(7), QueuedIndexes, QueuedColumns, KeysAt(7))
  BY <1>1, <1>4, <1>8, <1>9, QueueFits DEF QueuedTables, QueuedIndexes
<1>11. QED
  BY <1>7, <1>10, Restoring7Fits

-----------------------------------------------------------------------------
(* Walks along the chain end well.                                           *)

\* The number of k closest to it from lo to hi: where a walk has got to.
Clamp(k, lo, hi) == IF k < lo THEN lo ELSE IF k > hi THEN hi ELSE k

\* A script other than 0007 leads from its revision's schema to the next one's.
LEMMA UpgradeFits ==
  ASSUME NEW k \in {1, 2, 3, 4, 5, 6, 8}, NEW d, FitsAt(d, k - 1), NEW pick
  PROVE  FitsAt(Run(d, Ups[k], pick), k)
<1>1. /\ Ups[1] = Upgrade1 /\ Ups[2] = Upgrade2 /\ Ups[3] = Upgrade3 /\ Ups[4] = Upgrade4
      /\ Ups[5] = Upgrade5 /\ Ups[6] = Upgrade6 /\ Ups[8] = Upgrade8
  BY DEF Ups
<1>2. CASE k = 1
  BY <1>1, <1>2, 1 - 1 = 0, Upgrade1Fits
<1>3. CASE k = 2
  BY <1>1, <1>3, 2 - 1 = 1, Upgrade2Fits
<1>4. CASE k = 3
  BY <1>1, <1>4, 3 - 1 = 2, Upgrade3Fits
<1>5. CASE k = 4
  BY <1>1, <1>5, 4 - 1 = 3, Upgrade4Fits
<1>6. CASE k = 5
  BY <1>1, <1>6, 5 - 1 = 4, Upgrade5Fits
<1>7. CASE k = 6
  BY <1>1, <1>7, 6 - 1 = 5, Upgrade6Fits
<1>8. CASE k = 8
  BY <1>1, <1>8, 8 - 1 = 7, Upgrade8Fits
<1>9. QED
  BY <1>2, <1>3, <1>4, <1>5, <1>6, <1>7, <1>8

\* A script taken back leads to the schema of the revision before, 0007 only if repaired.
LEMMA DowngradeFits ==
  ASSUME NEW k \in 1..8, NEW d, FitsAt(d, k), NEW pick, k = 7 => "user_id" \in Repaired
  PROVE  FitsAt(Run(d, Downs[k], pick), k - 1)
<1>1. /\ Downs[1] = Downgrade1 /\ Downs[2] = Downgrade2 /\ Downs[3] = Downgrade3
      /\ Downs[4] = Downgrade4 /\ Downs[5] = Downgrade5 /\ Downs[6] = Downgrade6
      /\ Downs[7] = Downgrade7 /\ Downs[8] = Downgrade8
  BY DEF Downs
<1>2. CASE k = 1
  BY <1>1, <1>2, 1 - 1 = 0, Downgrade1Fits
<1>3. CASE k = 2
  BY <1>1, <1>3, 2 - 1 = 1, Downgrade2Fits
<1>4. CASE k = 3
  BY <1>1, <1>4, 3 - 1 = 2, Downgrade3Fits
<1>5. CASE k = 4
  BY <1>1, <1>5, 4 - 1 = 3, Downgrade4Fits
<1>6. CASE k = 5
  BY <1>1, <1>6, 5 - 1 = 4, Downgrade5Fits
<1>7. CASE k = 6
  BY <1>1, <1>7, 6 - 1 = 5, Downgrade6Fits
<1>8. CASE k = 7
  BY <1>1, <1>8, 7 - 1 = 6, Downgrade7Fits
<1>9. CASE k = 8
  BY <1>1, <1>9, 8 - 1 = 7, Downgrade8Fits
<1>10. QED
  BY <1>2, <1>3, <1>4, <1>5, <1>6, <1>7, <1>8, <1>9

\* One place of the walk up, and one of the walk down.
LEMMA UpAtFits ==
  ASSUME NEW k \in {1, 2, 3, 4, 5, 6, 8}, NEW from \in 0..8, NEW to \in 0..8, from <= to,
         NEW d, FitsAt(d, Clamp(k - 1, from, to)), NEW pick, NEW x, x = UpAt(k, d, from, to, pick)
  PROVE  FitsAt(x, Clamp(k, from, to))
<1>1. CASE from < k /\ k <= to
  <2>1. Clamp(k - 1, from, to) = k - 1 /\ Clamp(k, from, to) = k
    BY <1>1 DEF Clamp
  <2>2. x = Run(d, Ups[k], pick)
    BY <1>1 DEF UpAt
  <2>3. QED
    BY <2>1, <2>2, UpgradeFits
<1>2. CASE ~(from < k /\ k <= to)
  <2>1. Clamp(k - 1, from, to) = Clamp(k, from, to)
    BY <1>2 DEF Clamp
  <2>2. x = d
    BY <1>2 DEF UpAt
  <2>3. QED
    BY <2>1, <2>2
<1>3. QED
  BY <1>1, <1>2

LEMMA DownAtFits ==
  ASSUME NEW k \in 1..8, NEW from \in 0..8, NEW to \in 0..8, to <= from,
         NEW d, FitsAt(d, Clamp(k, to, from)), NEW x, x = DownAt(k, d, from, to),
         Across(to, from) => "user_id" \in Repaired
  PROVE  FitsAt(x, Clamp(k - 1, to, from))
<1>1. CASE to < k /\ k <= from
  <2>1. Clamp(k - 1, to, from) = k - 1 /\ Clamp(k, to, from) = k
    BY <1>1 DEF Clamp
  <2>2. x = Run(d, Downs[k], << >>)
    BY <1>1 DEF DownAt
  <2>3. k = 7 => Across(to, from)
    BY <1>1 DEF Across, Tenancy
  <2>4. QED
    BY <2>1, <2>2, <2>3, DowngradeFits
<1>2. CASE ~(to < k /\ k <= from)
  <2>1. Clamp(k - 1, to, from) = Clamp(k, to, from)
    BY <1>2 DEF Clamp
  <2>2. x = d
    BY <1>2 DEF DownAt
  <2>3. QED
    BY <2>1, <2>2
<1>3. QED
  BY <1>1, <1>2

\* An upgrade ends well and with the schema of its revision, wherever ties are broken,
\* unless it crosses 0007 while jobs hold an account without a membership.
LEMMA UpFits ==
  ASSUME NEW from \in 0..8, NEW to \in 0..8, from <= to,
         NEW d, FitsAt(d, from), RowsFit(d, from), NEW pick \in Picks(d),
         Across(from, to) => \A u \in d.creators : MembersOf(d, u) # {}
  PROVE  FitsAt(Up(d, from, to, pick), to)
<1> DEFINE At(k) == Clamp(k, from, to)
           q1 == UpAt(1, d, from, to, pick)
           q2 == UpAt(2, q1, from, to, pick)
           q3 == UpAt(3, q2, from, to, pick)
           q4 == UpAt(4, q3, from, to, pick)
           q5 == UpAt(5, q4, from, to, pick)
           q6 == UpAt(6, q5, from, to, pick)
           q7 == UpAt(7, q6, from, to, pick)
           x == UpAt(8, q7, from, to, pick)
<1>1. Up(d, from, to, pick) = x /\ q6 = Below7(d, from, to, pick)
  BY DEF Up, Below7
<1>2. x = UpAt(8, q7, from, to, pick)
  OBVIOUS
<1> HIDE DEF x
<1>3. q7 = UpAt(7, q6, from, to, pick)
  OBVIOUS
<1> HIDE DEF q7
<1>4. q6 = UpAt(6, q5, from, to, pick)
  OBVIOUS
<1> HIDE DEF q6
<1>5. q5 = UpAt(5, q4, from, to, pick)
  OBVIOUS
<1> HIDE DEF q5
<1>6. q4 = UpAt(4, q3, from, to, pick)
  OBVIOUS
<1> HIDE DEF q4
<1>7. q3 = UpAt(3, q2, from, to, pick)
  OBVIOUS
<1> HIDE DEF q3
<1>8. q2 = UpAt(2, q1, from, to, pick)
  OBVIOUS
<1> HIDE DEF q2
<1>9. q1 = UpAt(1, d, from, to, pick)
  OBVIOUS
<1> HIDE DEF q1
<1>10. FitsAt(d, At(0)) /\ At(8) = to
  BY DEF Clamp
<1> HIDE DEF At
<1>11. FitsAt(q1, At(1))
  BY <1>9, <1>10, 1 - 1 = 0, UpAtFits DEF At
<1>12. FitsAt(q2, At(2))
  BY <1>8, <1>11, 2 - 1 = 1, UpAtFits DEF At
<1>13. FitsAt(q3, At(3))
  BY <1>7, <1>12, 3 - 1 = 2, UpAtFits DEF At
<1>14. FitsAt(q4, At(4))
  BY <1>6, <1>13, 4 - 1 = 3, UpAtFits DEF At
<1>15. FitsAt(q5, At(5))
  BY <1>5, <1>14, 5 - 1 = 4, UpAtFits DEF At
<1>16. FitsAt(q6, At(6))
  BY <1>4, <1>15, 6 - 1 = 5, UpAtFits DEF At
<1>17. FitsAt(q7, At(7))
  <2>1. CASE Across(from, to)
    <3>1. Shape(d)
      BY FitsShape DEF FitsAt
    <3>2. /\ q6.users = d.users /\ q6.members = d.members /\ q6.creators = d.creators
          /\ pick \in Picks(q6) /\ \A u : MembersOf(q6, u) = MembersOf(d, u)
      BY <1>1, <3>1, RowsBelow7
    <3>3. RowsFit(q6, 6)
      <4>1. ~(from >= Tenancy) /\ ~(6 >= Tenancy) /\ ~(6 < 2)
        BY <2>1 DEF Across, Tenancy
      <4>2. QED
        BY <3>2, <4>1 DEF RowsFit
    <3>4. \A u \in q6.creators : MembersOf(q6, u) # {}
      BY <2>1, <3>2
    <3>5. At(6) = 6 /\ At(7) = 7 /\ q7 = Run(q6, Upgrade7, pick)
      BY <1>3, <2>1 DEF At, Clamp, Across, Tenancy, UpAt, Ups
    <3>6. QED
      BY <1>16, <3>2, <3>3, <3>4, <3>5, Upgrade7Fits
  <2>2. CASE ~Across(from, to)
    <3>1. q7 = q6 /\ At(6) = At(7)
      BY <1>3, <2>2 DEF At, Clamp, Across, Tenancy, UpAt
    <3>2. QED
      BY <1>16, <3>1
  <2>3. QED
    BY <2>1, <2>2
<1>18. FitsAt(x, At(8))
  BY <1>2, <1>17, 8 - 1 = 7, UpAtFits DEF At
<1>19. QED
  BY <1>1, <1>10, <1>18

\* A downgrade ends well and with the schema of its revision, if the slip is repaired.
LEMMA DownFits ==
  ASSUME NEW from \in 0..8, NEW to \in 0..8, to <= from, NEW d, FitsAt(d, from),
         Across(to, from) => "user_id" \in Repaired
  PROVE  FitsAt(Down(d, from, to), to)
<1> DEFINE At(k) == Clamp(k, to, from)
           q7 == DownAt(8, d, from, to)
           q6 == DownAt(7, q7, from, to)
           q5 == DownAt(6, q6, from, to)
           q4 == DownAt(5, q5, from, to)
           q3 == DownAt(4, q4, from, to)
           q2 == DownAt(3, q3, from, to)
           q1 == DownAt(2, q2, from, to)
           x == DownAt(1, q1, from, to)
<1>1. Down(d, from, to) = x
  BY DEF Down
<1>2. x = DownAt(1, q1, from, to)
  OBVIOUS
<1> HIDE DEF x
<1>3. q1 = DownAt(2, q2, from, to)
  OBVIOUS
<1> HIDE DEF q1
<1>4. q2 = DownAt(3, q3, from, to)
  OBVIOUS
<1> HIDE DEF q2
<1>5. q3 = DownAt(4, q4, from, to)
  OBVIOUS
<1> HIDE DEF q3
<1>6. q4 = DownAt(5, q5, from, to)
  OBVIOUS
<1> HIDE DEF q4
<1>7. q5 = DownAt(6, q6, from, to)
  OBVIOUS
<1> HIDE DEF q5
<1>8. q6 = DownAt(7, q7, from, to)
  OBVIOUS
<1> HIDE DEF q6
<1>9. q7 = DownAt(8, d, from, to)
  OBVIOUS
<1> HIDE DEF q7
<1>10. FitsAt(d, At(8)) /\ At(0) = to
  BY DEF Clamp
<1> HIDE DEF At
<1>11. FitsAt(q7, At(7))
  BY <1>9, <1>10, 8 - 1 = 7, DownAtFits DEF At
<1>12. FitsAt(q6, At(6))
  BY <1>8, <1>11, 7 - 1 = 6, DownAtFits DEF At
<1>13. FitsAt(q5, At(5))
  BY <1>7, <1>12, 6 - 1 = 5, DownAtFits DEF At
<1>14. FitsAt(q4, At(4))
  BY <1>6, <1>13, 5 - 1 = 4, DownAtFits DEF At
<1>15. FitsAt(q3, At(3))
  BY <1>5, <1>14, 4 - 1 = 3, DownAtFits DEF At
<1>16. FitsAt(q2, At(2))
  BY <1>4, <1>15, 3 - 1 = 2, DownAtFits DEF At
<1>17. FitsAt(q1, At(1))
  BY <1>3, <1>16, 2 - 1 = 1, DownAtFits DEF At
<1>18. FitsAt(x, At(0))
  BY <1>2, <1>17, 1 - 1 = 0, DownAtFits DEF At
<1>19. QED
  BY <1>1, <1>10, <1>18

-----------------------------------------------------------------------------
(* The specification.                                                        *)

\* The inductive invariant: what TypeOK says, that the database has the shape the
\* operations expect, and that nobody is held by a job before there are jobs.
Inv == revision \in 0..Latest /\ Shape(Database) /\ RowsFit(Database, revision)

LEMMA DatabaseFields ==
  /\ Database.ok = TRUE /\ Database.schema = schema /\ Database.users = users
  /\ Database.members = members /\ Database.creators = creators
  /\ Database = [f \in Fields |-> Database[f]]
BY DEF Database, Fields

LEMMA InitInv == Init => Inv
<1> SUFFICES ASSUME Init PROVE Inv
  OBVIOUS
<1>1. DOMAIN users = {} /\ users = [u \in DOMAIN users |-> [org |-> users[u].org,
                                                             role |-> users[u].role]]
  BY DEF Init
<1>2. SchemaShape(schema)
  BY DEF Init, Empty, SchemaShape, ColumnsOf, SchemaFields
<1>3. Shape(Database)
  BY <1>1, <1>2, DatabaseFields DEF Shape
<1>4. RowsFit(Database, revision)
  BY <1>1, DatabaseFields DEF RowsFit, Init
<1>5. QED
  BY <1>3, <1>4 DEF Inv, Init, Latest

LEMMA InvType == Inv => TypeOK
BY DatabaseFields DEF Inv, TypeOK, Shape, SchemaShape, ColumnsOf, RowsFit

\* A run that ends well installs the database it made.
LEMMA Installed ==
  ASSUME NEW d, Shape(d), NEW to \in 0..8, RowsFit(d, to), Install(d, to)
  PROVE  Inv'
<1>1. /\ d.ok /\ revision' = to /\ schema' = d.schema /\ users' = d.users
      /\ members' = d.members /\ creators' = d.creators
  BY DEF Install
<1>2. Shape(Database)'
  BY <1>1 DEF Shape, Database, Fields
<1>3. RowsFit(Database, revision)'
  BY <1>1 DEF RowsFit, Database
<1>4. QED
  BY <1>1, <1>2, <1>3 DEF Inv, Latest

\* What an upgrade and a downgrade do to the rows of the database.
LEMMA UpgradeStep ==
  ASSUME Inv, NEW to \in 1..Latest, Upgrade(to)
  PROVE  /\ Inv' /\ revision' = to /\ revision < to
         /\ ~Across(revision, to) => users' = users
         /\ Across(revision, to) => \E pick \in Picks(Database) :
              /\ DOMAIN users' = {u \in DOMAIN users : MembersOf(Database, u) # {}}
              /\ \A u \in DOMAIN users' :
                   users'[u] = [org |-> pick[u].org, role |-> pick[u].role]
<1>1. PICK pick \in Picks(Database) : Install(Up(Database, revision, to, pick), to)
  BY DEF Upgrade
<1> DEFINE d == Database
           from == revision
           x == Up(d, from, to, pick)
<1>2. /\ Shape(d) /\ from \in 0..8 /\ to \in 0..8 /\ from < to /\ RowsFit(d, from)
      /\ pick \in Picks(d) /\ x = Up(d, from, to, pick) /\ d.users = users
  BY DatabaseFields DEF Inv, Upgrade, Latest
<1>3. x.ok /\ revision' = to /\ users' = x.users /\ Install(x, to)
  BY <1>1 DEF Install
<1> HIDE DEF x, d, from
<1>4. /\ Shape(x) /\ RowsFit(x, to)
      /\ Across(from, to) => Moved(d, x, pick)
      /\ ~Across(from, to) => Rows(x) = Rows(d)
  BY <1>2, <1>3, UpgradeRows
<1>5. Inv'
  BY <1>2, <1>3, <1>4, Installed
<1>6. ~Across(from, to) => users' = users
  BY <1>2, <1>3, <1>4 DEF Rows
<1>7. Across(from, to) =>
        /\ DOMAIN users' = {u \in DOMAIN users : MembersOf(d, u) # {}}
        /\ \A u \in DOMAIN users' : users'[u] = [org |-> pick[u].org, role |-> pick[u].role]
  BY <1>2, <1>3, <1>4 DEF Moved
<1>8. QED
  BY <1>2, <1>3, <1>5, <1>6, <1>7 DEF d, from

LEMMA DowngradeStep ==
  ASSUME Inv, NEW to \in 0..(Latest - 1), Downgrade(to)
  PROVE  Inv' /\ revision' = to /\ to < revision /\ (to # 0 => DOMAIN users' = DOMAIN users)
<1> DEFINE d == Database
           from == revision
           x == Down(d, from, to)
<1>1. /\ Shape(d) /\ from \in 0..8 /\ to \in 0..8 /\ to < from /\ RowsFit(d, from)
      /\ x = Down(d, from, to) /\ d.users = users
  BY DatabaseFields DEF Inv, Downgrade, Latest
<1>2. x.ok /\ revision' = to /\ users' = x.users /\ Install(x, to)
  BY DEF Downgrade, Install
<1> HIDE DEF x, d, from
<1>3. Shape(x) /\ RowsFit(x, to) /\ (to # 0 => DOMAIN x.users = DOMAIN d.users)
  BY <1>1, <1>2, DowngradeRows
<1>4. Inv'
  BY <1>1, <1>2, <1>3, Installed
<1>5. QED
  BY <1>1, <1>2, <1>3, <1>4 DEF from

\* What applications write keeps the rows fit for the revision.
LEMMA WriteStep ==
  ASSUME Inv,
         \/ \E u \in Users, o \in Orgs, role \in Roles : Register(u, o, role)
         \/ \E u \in Users, o \in Orgs, role \in Roles, at \in 1..2 : Join(u, o, role, at)
         \/ \E m \in members : Leave(m)
         \/ \E u \in Users : PostJob(u) \/ DeleteJobs(u)
  PROVE  Inv' /\ revision' = revision
<1>0. /\ revision \in 0..8 /\ SchemaShape(schema)
      /\ users = [u \in DOMAIN users |-> [org |-> users[u].org, role |-> users[u].role]]
      /\ members \subseteq Member /\ \A m \in members : m.user \in DOMAIN users
      /\ DOMAIN users \subseteq Users /\ creators \subseteq DOMAIN users
      /\ \A u \in DOMAIN users :
           users[u] \in IF revision >= 7 THEN [org : Orgs, role : Roles]
                                         ELSE [org : {None}, role : {None}]
      /\ revision >= 7 => members = {}
      /\ revision < 2 => creators = {}
  BY DatabaseFields DEF Inv, Shape, RowsFit, Latest, Tenancy
<1>1. SUFFICES
      /\ revision' = revision /\ schema' = schema
      /\ users' = [u \in DOMAIN users' |-> [org |-> users'[u].org, role |-> users'[u].role]]
      /\ members' \subseteq Member /\ \A m \in members' : m.user \in DOMAIN users'
      /\ DOMAIN users' \subseteq Users /\ creators' \subseteq DOMAIN users'
      /\ \A u \in DOMAIN users' :
           users'[u] \in IF revision >= 7 THEN [org : Orgs, role : Roles]
                                          ELSE [org : {None}, role : {None}]
      /\ revision >= 7 => members' = {}
      /\ revision < 2 => creators' = {}
  <2>1. Shape(Database)'
    BY <1>0, <1>1 DEF Shape, Database, Fields
  <2>2. RowsFit(Database, revision)'
    BY <1>0, <1>1 DEF RowsFit, Database, Tenancy
  <2>3. QED
    BY <1>0, <1>1, <2>1, <2>2 DEF Inv, Latest
<1>2. CASE \E u \in Users, o \in Orgs, role \in Roles : Register(u, o, role)
  <2>1. PICK u \in Users, o \in Orgs, role \in Roles : Register(u, o, role)
    BY <1>2
  <2>2. /\ revision' = revision /\ schema' = schema /\ creators' = creators /\ revision > 0
    BY <2>1 DEF Register
  <2>3. CASE revision >= 7
    <3>1. /\ users' = [v \in DOMAIN users \cup {u} |->
                         IF v = u THEN [org |-> o, role |-> role] ELSE users[v]]
          /\ members' = members
      BY <2>1, <2>3 DEF Register, Tenancy
    <3>2. QED
      BY <1>0, <2>2, <2>3, <3>1
  <2>4. CASE ~(revision >= 7)
    <3>1. /\ users' = [v \in DOMAIN users \cup {u} |->
                         IF v = u THEN [org |-> None, role |-> None] ELSE users[v]]
          /\ members' = members \cup {[user |-> u, org |-> o, role |-> role, at |-> 1]}
      BY <2>1, <2>4 DEF Register, Tenancy
    <3>2. [user |-> u, org |-> o, role |-> role, at |-> 1] \in Member
      BY DEF Member
    <3>3. QED
      BY <1>0, <2>2, <2>4, <3>1, <3>2
  <2>5. QED
    BY <2>3, <2>4
<1>3. CASE \E u \in Users, o \in Orgs, role \in Roles, at \in 1..2 : Join(u, o, role, at)
  <2>1. PICK u \in Users, o \in Orgs, role \in Roles, at \in 1..2 : Join(u, o, role, at)
    BY <1>3
  <2>2. [user |-> u, org |-> o, role |-> role, at |-> at] \in Member
    BY DEF Member
  <2>3. QED
    BY <1>0, <2>1, <2>2 DEF Join, Tenancy
<1>4. CASE \E m \in members : Leave(m)
  BY <1>0, <1>4 DEF Leave
<1>5. CASE \E u \in Users : PostJob(u) \/ DeleteJobs(u)
  BY <1>0, <1>5 DEF PostJob, DeleteJobs
<1>6. QED
  BY <1>2, <1>3, <1>4, <1>5

\* Every step keeps it.
LEMMA InvStep == Inv /\ [Next]_vars => Inv'
<1> SUFFICES ASSUME Inv, [Next]_vars PROVE Inv'
  OBVIOUS
<1>1. CASE UNCHANGED vars
  BY <1>1 DEF vars, rows, Inv, Shape, RowsFit, Database, MembersOf
<1>2. CASE \E to \in 1..Latest : Upgrade(to)
  BY <1>2, UpgradeStep
<1>3. CASE \E to \in 0..(Latest - 1) : Downgrade(to)
  BY <1>3, DowngradeStep
<1>4. CASE \/ \E u \in Users, o \in Orgs, role \in Roles : Register(u, o, role)
           \/ \E u \in Users, o \in Orgs, role \in Roles, at \in 1..2 : Join(u, o, role, at)
           \/ \E m \in members : Leave(m)
           \/ \E u \in Users : PostJob(u) \/ DeleteJobs(u)
  BY <1>4, WriteStep
<1>5. QED
  BY <1>1, <1>2, <1>3, <1>4 DEF Next

\* In every reachable state tenancy is in one place: below 0007 in memberships, from it
\* on in the accounts' own columns, and no row refers to an account that is gone, whatever
\* runs of alembic and writes came before (env.py, 0001 to 8310a5722e11).
THEOREM TypeCorrect == Spec => []TypeOK
<1>1. Spec => []Inv
  BY InitInv, InvStep, PTL DEF Spec
<1>2. QED
  BY <1>1, InvType, PTL

\* A run of alembic removes no account that belongs somewhere, and one that crosses 0007
\* leaves each account in the organization and with the role of an earliest membership of
\* its own, for any number of people, organizations and memberships (0007, 48-65).
THEOREM AccountsKeepTheirTenant == Spec => MembersKeepTheirTenant
<1> DEFINE Kept ==
      revision # revision' /\ revision' # 0 =>
        \A u \in DOMAIN users :
          /\ u \notin DOMAIN users' => revision < Tenancy /\ MembersOf(Database, u) = {}
          /\ u \in DOMAIN users' /\ revision < Tenancy /\ revision' >= Tenancy =>
               \E m \in MembersOf(Database, u) :
                 /\ users'[u] = [org |-> m.org, role |-> m.role]
                 /\ \A n \in MembersOf(Database, u) : n.at >= m.at
<1>1. ASSUME Inv, [Next]_vars PROVE [Kept]_vars
  <2>1. CASE UNCHANGED vars
    BY <2>1
  <2>2. ASSUME NEW to \in 1..Latest, Upgrade(to) PROVE Kept
    <3>1. CASE ~Across(revision, to)
      BY <1>1, <2>2, <3>1, UpgradeStep DEF Across
    <3>2. CASE Across(revision, to)
      <4>1. revision < Tenancy
        BY <3>2 DEF Across
      <4>2. PICK pick \in Picks(Database) :
              /\ DOMAIN users' = {u \in DOMAIN users : MembersOf(Database, u) # {}}
              /\ \A u \in DOMAIN users' :
                   users'[u] = [org |-> pick[u].org, role |-> pick[u].role]
        BY <1>1, <2>2, <3>2, UpgradeStep
      <4>3. ASSUME NEW u \in DOMAIN users, u \in DOMAIN users'
            PROVE  \E m \in MembersOf(Database, u) :
                     /\ users'[u] = [org |-> m.org, role |-> m.role]
                     /\ \A n \in MembersOf(Database, u) : n.at >= m.at
        <5>1. /\ Database.members \subseteq Member /\ u \in DOMAIN Database.users
              /\ MembersOf(Database, u) # {}
          BY <1>1, <4>2, <4>3, DatabaseFields DEF Inv, RowsFit
        <5>2. /\ pick[u] \in MembersOf(Database, u)
              /\ \A n \in MembersOf(Database, u) : n.at >= pick[u].at
          BY <5>1, PickedMembership
        <5>3. users'[u] = [org |-> pick[u].org, role |-> pick[u].role]
          BY <4>2, <4>3
        <5>4. QED
          BY <5>2, <5>3
      <4>4. QED
        BY <4>1, <4>2, <4>3
    <3>3. QED
      BY <3>1, <3>2
  <2>3. ASSUME NEW to \in 0..(Latest - 1), Downgrade(to) PROVE Kept
    <3>1. /\ revision' = to /\ to < revision /\ (to # 0 => DOMAIN users' = DOMAIN users)
          /\ revision \in 0..8
      BY <1>1, <2>3, DowngradeStep DEF Inv, Latest
    <3>2. ~(revision < Tenancy /\ revision' >= Tenancy)
      BY <3>1 DEF Tenancy
    <3>3. QED
      BY <3>1, <3>2
  <2>4. CASE \/ \E u \in Users, o \in Orgs, role \in Roles : Register(u, o, role)
             \/ \E u \in Users, o \in Orgs, role \in Roles, at \in 1..2 : Join(u, o, role, at)
             \/ \E m \in members : Leave(m)
             \/ \E u \in Users : PostJob(u) \/ DeleteJobs(u)
    BY <1>1, <2>4, WriteStep
  <2>5. QED
    BY <1>1, <2>1, <2>2, <2>3, <2>4 DEF Next
<1>2. Spec => []Inv
  BY InitInv, InvStep, PTL DEF Spec
<1>3. QED
  BY <1>1, <1>2, PTL DEF Spec, MembersKeepTheirTenant

\* A release that is rolled back and deployed again finds every account where it was,
\* for any number of them and wherever ties are broken: when both runs end well, the
\* second restores the organization and the role that the first moved to memberships
\* (0007, downgrade 178-192 and upgrade 50-63).
THEOREM RedeploymentRestoresAccounts ==
  ASSUME Inv, revision >= Tenancy, NEW to \in 1..(revision - 1),
         NEW back, back = Down(Database, revision, to), back.ok,
         NEW pick \in Picks(back), Up(back, to, revision, pick).ok
  PROVE  Up(back, to, revision, pick).users = users
<1> DEFINE d == Database
           from == revision
           x == Up(back, to, from, pick)
<1>1. /\ Shape(d) /\ from \in 0..8 /\ to \in 0..8 /\ to < from /\ RowsFit(d, from)
      /\ d.users = users /\ from >= Tenancy /\ to # 0
  BY DatabaseFields DEF Inv, Latest
<1>2. back = Down(d, from, to) /\ x = Up(back, to, from, pick) /\ x.ok
  OBVIOUS
<1> HIDE DEF x, d, from
<1>3. /\ Shape(back) /\ RowsFit(back, to) /\ DOMAIN back.users = DOMAIN users
      /\ Across(to, from) => back.members = Rebuilt(d)
      /\ to >= Tenancy => back.users = users
  BY <1>1, <1>2, DowngradeRows
<1>4. /\ Shape(x)
      /\ Across(to, from) => Moved(back, x, pick)
      /\ ~Across(to, from) => Rows(x) = Rows(back)
  BY <1>1, <1>2, <1>3, UpgradeRows
<1>5. CASE Across(to, from)
  <2>1. ASSUME NEW u \in DOMAIN users
        PROVE  MembersOf(back, u) = {[user |-> u, org |-> users[u].org, at |-> 1,
                                      role |-> users[u].role]}
    BY <1>1, <1>3, <1>5 DEF MembersOf, Rebuilt
  <2>2. DOMAIN x.users = DOMAIN users
    BY <1>3, <1>4, <1>5, <2>1 DEF Moved
  <2>3. ASSUME NEW u \in DOMAIN users
        PROVE  x.users[u] = [org |-> users[u].org, role |-> users[u].role]
    <3>1. back.members \subseteq Member /\ MembersOf(back, u) # {} /\ u \in DOMAIN back.users
      BY <1>3, <2>1 DEF RowsFit
    <3>2. pick[u] \in MembersOf(back, u)
      BY <3>1, PickedMembership
    <3>3. pick[u].org = users[u].org /\ pick[u].role = users[u].role
      BY <2>1, <3>2
    <3>4. QED
      BY <1>4, <1>5, <2>2, <3>3 DEF Moved
  <2>4. /\ x.users = [u \in DOMAIN x.users |->
                        [org |-> x.users[u].org, role |-> x.users[u].role]]
        /\ users = [u \in DOMAIN users |-> [org |-> users[u].org, role |-> users[u].role]]
    BY <1>1, <1>4 DEF Shape
  <2>5. x.users = users
    BY <2>2, <2>3, <2>4
  <2>6. QED
    BY <2>5 DEF x, from
<1>6. CASE ~Across(to, from)
  <2>1. to >= Tenancy
    BY <1>1, <1>6 DEF Across, Tenancy
  <2>2. QED
    BY <1>3, <1>4, <1>6, <2>1 DEF Rows, x, from
<1>7. QED
  BY <1>5, <1>6

\* The inductive invariant of the theorems about whole walks: the schema is that of the
\* revision, whichever runs and writes led to it.
FitsInv == Inv /\ FitsAt(Database, revision)

LEMMA InitFitsInv == Init => FitsInv
<1> SUFFICES ASSUME Init PROVE FitsInv
  OBVIOUS
<1>1. Inv /\ Shape(Database) /\ Database.ok /\ Database.schema = Empty /\ revision = 0
  BY InitInv, DatabaseFields DEF Inv, Init
<1>2. /\ TablesAt(0) = {} /\ EnumsAt(0) = {} /\ IndexesAt(0) = {} /\ ColumnsAt(0) = {}
      /\ KeysAt(0) = {}
  BY TableSets, EnumSets, IndexSets, ColumnSets, KeySets
<1>3. KeysFit(Empty, {}, {}) /\ ColumnsFit(Empty, {})
  BY DEF KeysFit, ColumnsFit, Empty, HasColumn
<1>4. Fits(Database, {}, {}, {}, {}, {})
  BY <1>1, <1>3 DEF Fits, Empty
<1>5. QED
  BY <1>1, <1>2, <1>4 DEF FitsInv, FitsAt

\* What an upgrade or a downgrade that ends well installs.
LEMMA InstalledFits ==
  ASSUME NEW d, NEW to, FitsAt(d, to), Install(d, to), Inv'
  PROVE  FitsInv'
<1>1. /\ revision' = to /\ Database'.schema = d.schema /\ Database'.ok
      /\ Shape(Database')
  BY DEF Install, Database, Inv
<1>2. FitsAt(Database', to)
  BY <1>1, SameSchemaFits DEF FitsAt
<1>3. QED
  BY <1>1, <1>2 DEF FitsInv

\* An upgrade that crossed 0007 found nobody held.
LEMMA NobodyHeld ==
  ASSUME Inv, NEW to \in 0..8, Across(revision, to), NEW pick \in Picks(Database),
         Up(Database, revision, to, pick).ok
  PROVE  Held = {}
<1> DEFINE d == Database
           x == Up(d, revision, to, pick)
<1>1. /\ Shape(d) /\ revision \in 0..8 /\ RowsFit(d, revision) /\ d.creators = creators
      /\ revision < to /\ to >= Tenancy
  BY DatabaseFields DEF Inv, Latest, Across, Tenancy
<1>2. x = Up(d, revision, to, pick) /\ x.ok
  OBVIOUS
<1> HIDE DEF x, d
<1>3. RowsFit(x, to) /\ Moved(d, x, pick)
  BY <1>1, <1>2, UpgradeRows DEF d
<1>4. ASSUME NEW u \in creators PROVE MembersOf(d, u) # {}
  BY <1>1, <1>3 DEF RowsFit, Moved
<1>5. QED
  BY <1>4 DEF Held, d

\* Every step keeps it: a run that ends well installs the schema of the revision it leads to,
\* and what applications write touches no schema.
LEMMA FitsStep == FitsInv /\ [Next]_vars => FitsInv'
<1> SUFFICES ASSUME FitsInv, [Next]_vars PROVE FitsInv'
  OBVIOUS
<1>1. Inv /\ Inv' /\ FitsAt(Database, revision)
  BY InvStep DEF FitsInv
<1>2. CASE schema' = schema /\ revision' = revision
  <2>1. Database'.schema = Database.schema /\ Database'.ok /\ Shape(Database')
    BY <1>1, <1>2 DEF Database, Inv
  <2>2. FitsAt(Database', revision)
    BY <1>1, <2>1, SameSchemaFits DEF FitsAt
  <2>3. QED
    BY <1>1, <1>2, <2>2 DEF FitsInv
<1>3. ASSUME NEW to \in 1..Latest, Upgrade(to) PROVE FitsInv'
  <2>1. PICK pick \in Picks(Database) : Install(Up(Database, revision, to, pick), to)
    BY <1>3 DEF Upgrade
  <2>2. /\ revision \in 0..8 /\ to \in 0..8 /\ revision < to /\ revision <= to
        /\ RowsFit(Database, revision) /\ Up(Database, revision, to, pick).ok
    BY <1>1, <1>3, <2>1 DEF Inv, Upgrade, Install, Latest
  <2>3. Across(revision, to) => \A u \in Database.creators : MembersOf(Database, u) # {}
    <3>1. Across(revision, to) => Held = {}
      BY <1>1, <2>2, NobodyHeld
    <3>2. QED
      BY <3>1, DatabaseFields DEF Held
  <2>4. FitsAt(Up(Database, revision, to, pick), to)
    BY <1>1, <2>2, <2>3, UpFits
  <2>5. QED
    BY <1>1, <2>1, <2>4, InstalledFits
<1>4. ASSUME NEW to \in 0..(Latest - 1), Downgrade(to) PROVE FitsInv'
  <2>1. Install(Down(Database, revision, to), to) /\ to < revision
    BY <1>4 DEF Downgrade
  <2>2. /\ revision \in 0..8 /\ to \in 0..8 /\ RowsFit(Database, revision) /\ Shape(Database)
        /\ Down(Database, revision, to).ok
    BY <1>1, <1>4, <2>1 DEF Inv, Install, Latest
  <2>3. Across(to, revision) => "user_id" \in Repaired
    BY <2>1, <2>2, DowngradeRows
  <2>4. FitsAt(Down(Database, revision, to), to)
    BY <1>1, <2>1, <2>2, <2>3, DownFits
  <2>5. QED
    BY <1>1, <2>1, <2>4, InstalledFits
<1>5. CASE UNCHANGED vars
  BY <1>2, <1>5 DEF vars
<1>6. CASE \/ \E u \in Users, o \in Orgs, role \in Roles : Register(u, o, role)
           \/ \E u \in Users, o \in Orgs, role \in Roles, at \in 1..2 : Join(u, o, role, at)
           \/ \E m \in members : Leave(m)
           \/ \E u \in Users : PostJob(u) \/ DeleteJobs(u)
  <2>1. schema' = schema /\ revision' = revision
    BY <1>6 DEF Register, Join, Leave, PostJob, DeleteJobs
  <2>2. QED
    BY <1>2, <2>1
<1>7. QED
  BY <1>3, <1>4, <1>5, <1>6 DEF Next

\* The half of ChainNeverSticks about upgrades, which needs no repair.
UpgradesEndWell ==
  LET stop == revision < Tenancy /\ Held # {} IN
  \A pick \in Picks(Database) :
    /\ Up(Database, revision, IF stop THEN Tenancy - 1 ELSE Latest, pick).ok
    /\ stop => ~Up(Database, revision, Tenancy, pick).ok

LEMMA FitsInvUpgrades == FitsInv => UpgradesEndWell
<1> SUFFICES ASSUME FitsInv, NEW pick \in Picks(Database)
             PROVE  LET stop == revision < Tenancy /\ Held # {} IN
                    /\ Up(Database, revision, IF stop THEN Tenancy - 1 ELSE Latest, pick).ok
                    /\ stop => ~Up(Database, revision, Tenancy, pick).ok
  BY DEF UpgradesEndWell
<1>1. /\ Inv /\ revision \in 0..8 /\ FitsAt(Database, revision) /\ RowsFit(Database, revision)
  BY DEF FitsInv, Inv, Latest
<1>2. CASE revision < Tenancy /\ Held # {}
  <2>1. revision <= 6 /\ ~Across(revision, 6) /\ Across(revision, 7) /\ 7 \in 0..8 /\ 6 \in 0..8
    BY <1>1, <1>2 DEF Tenancy, Across
  <2>2. FitsAt(Up(Database, revision, 6, pick), 6)
    BY <1>1, <2>1, UpFits
  <2>3. Up(Database, revision, 6, pick).ok
    BY <2>2, FitsShape DEF FitsAt
  <2>4. ~Up(Database, revision, 7, pick).ok
    BY <1>1, <1>2, <2>1, NobodyHeld
  <2>5. Tenancy = 7 /\ Tenancy - 1 = 6
    BY DEF Tenancy
  <2>6. QED
    BY <1>2, <2>3, <2>4, <2>5
<1>3. CASE ~(revision < Tenancy /\ Held # {})
  <2>1. revision <= 8 /\ 8 \in 0..8
    BY <1>1
  <2>2. Across(revision, 8) => \A u \in Database.creators : MembersOf(Database, u) # {}
    BY <1>3, DatabaseFields DEF Across, Held
  <2>3. FitsAt(Up(Database, revision, 8, pick), 8)
    BY <1>1, <2>1, <2>2, UpFits
  <2>4. Up(Database, revision, 8, pick).ok
    BY <2>3, FitsShape DEF FitsAt
  <2>5. QED
    BY <1>3, <2>4 DEF Latest
<1>4. QED
  BY <1>2, <1>3

\* As the code is, slip and all: from every state that runs and writes lead to, for any
\* number of people, organizations and memberships and wherever ties are broken, an upgrade
\* to the head ends well, except that it stops before 0007 while jobs hold an account
\* without a membership, and then every upgrade across 0007 fails (env.py; 0001 to
\* 8310a5722e11).
THEOREM UpgradesNeverStick == Spec => []UpgradesEndWell
<1>1. Spec => []FitsInv
  BY InitFitsInv, FitsStep, PTL DEF Spec
<1>2. QED
  BY <1>1, FitsInvUpgrades, PTL

\* As the code is or with the slip repaired: a downgrade ends well exactly if it does not
\* cross 0007 or the slip is repaired, from every state that runs and writes lead to.  The
\* wrong column of one INSERT (0007, 186) is the only thing that a downgrade ever trips over.
THEOREM DowngradesFailAtTheSlip ==
  Spec => [](\A to \in 0..revision :
               Down(Database, revision, to).ok
                 <=> (to < Tenancy /\ Tenancy <= revision => "user_id" \in Repaired))
<1>1. Spec => []FitsInv
  BY InitFitsInv, FitsStep, PTL DEF Spec
<1>2. FitsInv => \A to \in 0..revision :
                   Down(Database, revision, to).ok
                     <=> (to < Tenancy /\ Tenancy <= revision => "user_id" \in Repaired)
  <2> SUFFICES ASSUME FitsInv, NEW to \in 0..revision
               PROVE  Down(Database, revision, to).ok
                        <=> (Across(to, revision) => "user_id" \in Repaired)
    BY DEF Across
  <2>1. /\ revision \in 0..8 /\ to \in 0..8 /\ to <= revision
        /\ Shape(Database) /\ FitsAt(Database, revision) /\ RowsFit(Database, revision)
    BY DEF FitsInv, Inv, Latest
  <2>2. ASSUME Down(Database, revision, to).ok, Across(to, revision)
        PROVE  "user_id" \in Repaired
    <3>1. to < revision
      BY <2>1, <2>2 DEF Across, Tenancy
    <3>2. QED
      BY <2>1, <2>2, <3>1, DowngradeRows
  <2>3. ASSUME Across(to, revision) => "user_id" \in Repaired
        PROVE  Down(Database, revision, to).ok
    <3>1. FitsAt(Down(Database, revision, to), to)
      BY <2>1, <2>3, DownFits
    <3>2. QED
      BY <3>1, FitsShape DEF FitsAt
  <2>4. QED
    BY <2>2, <2>3
<1>3. QED
  BY <1>1, <1>2, PTL

\* From every state that runs and writes lead to, for any number of people, organizations
\* and memberships, the chain can be walked up to its head, unless jobs hold an account
\* without a membership, and down: as the code is to 0007 and no further, with the slip
\* repaired to its end, although the downgrade of 0007 restores another schema than 0004
\* made (env.py; 0001 to 8310a5722e11).
THEOREM ChainIsWalkable == Spec => []ChainNeverSticks
<1>1. Spec => []FitsInv
  BY InitFitsInv, FitsStep, PTL DEF Spec
<1>2. FitsInv => ChainNeverSticks
  <2> SUFFICES ASSUME FitsInv PROVE ChainNeverSticks
    OBVIOUS
  <2>1. UpgradesEndWell
    BY FitsInvUpgrades
  <2> DEFINE slip == revision >= Tenancy /\ "user_id" \notin Repaired
             last == IF slip THEN Tenancy ELSE 0
  <2>2. /\ revision \in 0..8 /\ Tenancy = 7
        /\ Shape(Database) /\ FitsAt(Database, revision) /\ RowsFit(Database, revision)
    BY DEF FitsInv, Inv, Latest, Tenancy
  <2>3. last \in 0..8 /\ last <= revision /\ (Across(last, revision) => "user_id" \in Repaired)
    BY <2>2 DEF Across
  <2> HIDE DEF last
  <2>4. Down(Database, revision, last).ok
    <3>1. FitsAt(Down(Database, revision, last), last)
      BY <2>2, <2>3, DownFits
    <3>2. QED
      BY <3>1, FitsShape DEF FitsAt
  <2>5. slip => ~Down(Database, revision, Tenancy - 1).ok
    <3>1. SUFFICES ASSUME slip, Down(Database, revision, 6).ok PROVE FALSE
      BY <2>2
    <3>2. 6 \in 0..8 /\ 6 < revision /\ 6 <= revision /\ Across(6, revision)
      BY <2>2, <3>1 DEF Across
    <3>3. "user_id" \in Repaired
      BY <2>2, <3>1, <3>2, DowngradeRows
    <3>4. QED
      BY <3>1, <3>3
  <2>6. QED
    BY <2>1, <2>4, <2>5 DEF UpgradesEndWell, ChainNeverSticks, last
<1>3. QED
  BY <1>1, <1>2, PTL

\* A release that was rolled back and is deployed again finds every account in the
\* organization and with the role it had: a rollback that ends well holds nobody, so the
\* second upgrade ends well too and restores what the downgrade moved to the memberships
\* (0007, downgrade 178-192 and upgrade 50-63).  As the code is, DowngradesFailAtTheSlip
\* says which rollbacks those are: the ones that do not cross 0007.
THEOREM RollbacksKeepTenancy == Spec => []RollbackKeepsTenancy
<1>1. Spec => []FitsInv
  BY InitFitsInv, FitsStep, PTL DEF Spec
<1>2. FitsInv => RollbackKeepsTenancy
  <2> SUFFICES ASSUME FitsInv, revision >= Tenancy, NEW to \in 1..(revision - 1),
                      NEW back, back = Down(Database, revision, to), back.ok,
                      NEW pick \in Picks(back)
               PROVE  /\ Up(back, to, revision, pick).ok
                      /\ Up(back, to, revision, pick).users = users
    BY DEF RollbackKeepsTenancy
  <2>1. /\ Inv /\ revision \in 0..8 /\ to \in 0..8 /\ to < revision /\ to <= revision /\ to # 0
        /\ Shape(Database) /\ FitsAt(Database, revision) /\ RowsFit(Database, revision)
    BY DEF FitsInv, Inv, Latest
  <2>2. Across(to, revision) => "user_id" \in Repaired
    BY <2>1, DowngradeRows
  <2>3. FitsAt(back, to)
    BY <2>1, <2>2, DownFits
  <2>4. /\ RowsFit(back, to) /\ DOMAIN back.users = DOMAIN Database.users
        /\ Across(to, revision) => back.members = Rebuilt(Database)
    BY <2>1, DowngradeRows
  <2>5. Across(to, revision) => \A u \in back.creators : MembersOf(back, u) # {}
    <3>1. ASSUME Across(to, revision), NEW u \in back.creators PROVE MembersOf(back, u) # {}
      <4>1. u \in DOMAIN Database.users
        BY <2>4, <3>1 DEF RowsFit
      <4>2. [user |-> u, org |-> Database.users[u].org, at |-> 1,
             role |-> Database.users[u].role] \in back.members
        BY <2>4, <3>1, <4>1 DEF Rebuilt
      <4>3. QED
        BY <4>2 DEF MembersOf
    <3>2. QED
      BY <3>1
  <2>6. FitsAt(Up(back, to, revision, pick), revision)
    BY <2>1, <2>3, <2>4, <2>5, UpFits
  <2>7. Up(back, to, revision, pick).ok
    BY <2>6, FitsShape DEF FitsAt
  <2>8. QED
    BY <2>1, <2>7, RedeploymentRestoresAccounts
<1>3. QED
  BY <1>1, <1>2, PTL
===============================================================================
