--------------------------- MODULE Scanners_proofs ---------------------------
(***************************************************************************)
(* What the scanners promise on every project, not only on the small ones  *)
(* that TLC runs them on: the invariants of the SQL scanner, of the taint  *)
(* engine and the PAN scanner that asks it, and the length policies of the *)
(* authentication scanner.                                                 *)
(***************************************************************************)
EXTENDS Scanners, InOrder_proofs

------------------------------------------------------------------------------
(* Recursive functions, and joining a sequence of sequences.               *)

\* What FlattenSeq computes on its way.
Flattening(f, seqs, m) ==
    f = [i \in 1..m |-> IF i = 1 THEN seqs[i] ELSE f[i - 1] \o seqs[i]]

\* There is such a function: every shorter one can be extended.
LEMMA FlatteningExists ==
    ASSUME NEW seqs, NEW n \in Nat, n > 0
    PROVE  \E f : Flattening(f, seqs, n)
  <1> DEFINE Bad == {m \in 1..n : ~\E f : Flattening(f, seqs, m)}
  <1>1. SUFFICES ASSUME Bad # {} PROVE FALSE
    OBVIOUS
  <1>2. Bad \in SUBSET Int /\ IsFiniteSet(Bad)
    <2>1. IsFiniteSet(1..n) /\ Bad \in SUBSET (1..n)
      BY FS_Interval
    <2> QED BY <2>1, FS_Subset
  <1>3. PICK m \in Bad : \A j \in Bad : m <= j
    <2> HIDE DEF Bad
    <2> QED BY <1>1, <1>2, LeastMember
  <1>4. CASE m = 1
    <2>1. Flattening([i \in 1..1 |-> seqs[1]], seqs, 1)
      BY DEF Flattening
    <2> QED BY <1>4, <2>1
  <1>5. CASE m # 1
    <2>1. m \in 2..n /\ m - 1 \in 1..n /\ m - 1 \notin Bad
      BY <1>3, <1>5
    <2>2. PICK f : Flattening(f, seqs, m - 1)
      BY <2>1
    <2> DEFINE g == [i \in 1..m |-> IF i = m THEN f[m - 1] \o seqs[m] ELSE f[i]]
    <2>3. ASSUME NEW i \in 1..m
          PROVE  g[i] = IF i = 1 THEN seqs[i] ELSE g[i - 1] \o seqs[i]
      <3>1. CASE i = m
        <4>1. m \in 1..m /\ m - 1 \in 1..m /\ m - 1 # m /\ i # 1
          BY <2>1, <3>1
        <4>2. g[m] = f[m - 1] \o seqs[m]
          BY <4>1
        <4>3. g[m - 1] = f[m - 1]
          BY <4>1
        <4> HIDE DEF g
        <4> QED BY <3>1, <4>1, <4>2, <4>3
      <3>2. CASE i # m /\ i = 1
        BY <2>1, <2>2, <3>2 DEF Flattening
      <3>3. CASE i # m /\ i # 1
        <4>1. i \in 1..(m - 1) /\ i - 1 \in 1..(m - 1) /\ i - 1 \in 1..m /\ i - 1 # m
          BY <2>1, <3>3
        <4>2. g[i] = f[i] /\ g[i - 1] = f[i - 1]
          BY <3>3, <4>1
        <4>3. f[i] = f[i - 1] \o seqs[i]
          BY <2>2, <3>3, <4>1 DEF Flattening
        <4> QED BY <3>3, <4>2, <4>3
      <3> QED BY <3>1, <3>2, <3>3
    <2>4. Flattening(g, seqs, m)
      <3>1. g = [i \in 1..m |-> g[i]]
        OBVIOUS
      <3> HIDE DEF g
      <3>2. [i \in 1..m |-> g[i]] = [i \in 1..m |-> IF i = 1 THEN seqs[i] ELSE g[i - 1] \o seqs[i]]
        BY <2>3
      <3> QED BY <3>1, <3>2 DEF Flattening
    <2> QED BY <2>4
  <1> QED BY <1>4, <1>5

\* FlattenSeq is the last value of such a function.
LEMMA FlattenLast ==
    ASSUME NEW V, NEW seqs \in Seq(V), seqs # <<>>
    PROVE  \E f : Flattening(f, seqs, Len(seqs)) /\ FlattenSeq(seqs) = f[Len(seqs)]
  <1>1. Len(seqs) \in Nat /\ Len(seqs) > 0
    OBVIOUS
  <1>2. \E f : Flattening(f, seqs, Len(seqs))
    BY <1>1, FlatteningExists
  <1> DEFINE f == CHOOSE g : g = [i \in 1..Len(seqs) |-> IF i = 1 THEN seqs[i] ELSE g[i - 1] \o seqs[i]]
  <1>3. Flattening(f, seqs, Len(seqs))
    BY <1>2 DEF Flattening
  <1>4. FlattenSeq(seqs) = f[Len(seqs)]
    BY <1>1 DEF FlattenSeq
  <1> QED BY <1>3, <1>4

\* The pieces of t: piece i begins after off[i], they lie one after the other,
\* and nothing else is in t.
Pieces(t, off, seqs, m) ==
    /\ off \in [1..m -> Nat]
    /\ \A i \in 1..m : \A j \in 1..Len(seqs[i]) :
          off[i] + j \in 1..Len(t) /\ t[off[i] + j] = seqs[i][j]
    /\ \A i, h \in 1..m : i < h => off[i] + Len(seqs[i]) <= off[h]
    /\ \A k \in 1..Len(t) : \E i \in 1..m : \E j \in 1..Len(seqs[i]) : k = off[i] + j

\* One piece more.
LEMMA PiecesExtend ==
    ASSUME NEW V, NEW seqs \in Seq(Seq(V)), NEW m \in 1..Len(seqs), m > 1,
           NEW t \in Seq(V), NEW off, Pieces(t, off, seqs, m - 1),
           \A i \in 1..(m - 1) : off[i] + Len(seqs[i]) <= Len(t)
    PROVE  LET u == t \o seqs[m]
               more == [i \in 1..m |-> IF i = m THEN Len(t) ELSE off[i]]
           IN  /\ Pieces(u, more, seqs, m)
               /\ \A i \in 1..m : more[i] + Len(seqs[i]) <= Len(u)
  <1> DEFINE u == t \o seqs[m]
             more == [i \in 1..m |-> IF i = m THEN Len(t) ELSE off[i]]
  <1>1. /\ m \in Nat /\ m - 1 \in Nat /\ seqs[m] \in Seq(V)
        /\ Len(t) \in Nat /\ Len(seqs[m]) \in Nat
        /\ \A i \in 1..m : seqs[i] \in Seq(V) /\ Len(seqs[i]) \in Nat
    OBVIOUS
  <1>2. u \in Seq(V) /\ Len(u) = Len(t) + Len(seqs[m])
    BY <1>1
  <1>3. \A k \in 1..Len(t) : k \in 1..Len(u) /\ u[k] = t[k]
    BY <1>1, <1>2
  <1>4. \A j \in 1..Len(seqs[m]) : Len(t) + j \in 1..Len(u) /\ u[Len(t) + j] = seqs[m][j]
    BY <1>1, <1>2
  <1>5. \A i \in 1..m : i # m => i \in 1..(m - 1)
    BY <1>1
  <1>6. /\ m \in 1..m /\ more[m] = Len(t)
        /\ \A i \in 1..(m - 1) : i \in 1..m /\ more[i] = off[i]
    BY <1>1
  <1>7. more \in [1..m -> Nat]
    BY <1>1, <1>5 DEF Pieces
  <1>8. \A k \in 1..Len(u) : k \notin 1..Len(t) => \E j \in 1..Len(seqs[m]) : k = Len(t) + j
    <2> SUFFICES ASSUME NEW k \in 1..Len(u), k \notin 1..Len(t)
                 PROVE  \E j \in 1..Len(seqs[m]) : k = Len(t) + j
      OBVIOUS
    <2>1. k - Len(t) \in 1..Len(seqs[m]) /\ k = Len(t) + (k - Len(t))
      BY <1>1, <1>2
    <2> QED BY <2>1
  <1> HIDE DEF u, more
  <1>9. \A i \in 1..m : \A j \in 1..Len(seqs[i]) :
           more[i] + j \in 1..Len(u) /\ u[more[i] + j] = seqs[i][j]
    <2> SUFFICES ASSUME NEW i \in 1..m, NEW j \in 1..Len(seqs[i])
                 PROVE  more[i] + j \in 1..Len(u) /\ u[more[i] + j] = seqs[i][j]
      OBVIOUS
    <2>1. CASE i = m
      BY <2>1, <1>4, <1>6
    <2>2. CASE i # m
      BY <2>2, <1>3, <1>5, <1>6 DEF Pieces
    <2> QED BY <2>1, <2>2
  <1>10. \A i, h \in 1..m : i < h => more[i] + Len(seqs[i]) <= more[h]
    <2> SUFFICES ASSUME NEW i \in 1..m, NEW h \in 1..m, i < h
                 PROVE  more[i] + Len(seqs[i]) <= more[h]
      OBVIOUS
    <2>1. i \in 1..(m - 1)
      BY <1>1
    <2>2. CASE h = m
      BY <2>1, <2>2, <1>6
    <2>3. CASE h # m
      BY <2>1, <2>3, <1>5, <1>6 DEF Pieces
    <2> QED BY <2>2, <2>3
  <1>11. \A k \in 1..Len(u) : \E i \in 1..m : \E j \in 1..Len(seqs[i]) : k = more[i] + j
    <2> SUFFICES ASSUME NEW k \in 1..Len(u)
                 PROVE  \E i \in 1..m : \E j \in 1..Len(seqs[i]) : k = more[i] + j
      OBVIOUS
    <2>1. CASE k \in 1..Len(t)
      BY <2>1, <1>6 DEF Pieces
    <2>2. CASE k \notin 1..Len(t)
      BY <2>2, <1>6, <1>8
    <2> QED BY <2>1, <2>2
  <1>12. \A i \in 1..m : more[i] + Len(seqs[i]) <= Len(u)
    <2> SUFFICES ASSUME NEW i \in 1..m PROVE more[i] + Len(seqs[i]) <= Len(u)
      OBVIOUS
    <2>1. CASE i = m
      BY <2>1, <1>1, <1>2, <1>6
    <2>2. CASE i # m
      <3>1. i \in 1..(m - 1) /\ off[i] \in Nat /\ Len(seqs[i]) \in Nat
        BY <2>2, <1>1, <1>5 DEF Pieces
      <3>2. more[i] = off[i] /\ off[i] + Len(seqs[i]) <= Len(t)
        BY <3>1, <1>6
      <3> HIDE DEF u, more
      <3>3. Len(t) <= Len(u) /\ Len(t) \in Nat /\ Len(u) \in Nat
        BY <1>1, <1>2
      <3>4. off[i] + Len(seqs[i]) <= Len(u)
        BY <3>1, <3>2, <3>3
      <3> QED BY <3>2, <3>4
    <2> QED BY <2>1, <2>2
  <1>13. Pieces(u, more, seqs, m)
    BY <1>7, <1>9, <1>10, <1>11 DEF Pieces
  <1> QED BY <1>12, <1>13 DEF u, more

\* FlattenSeq lays the sequences out one after the other.
LEMMA FlattenPieces ==
    ASSUME NEW V, NEW seqs \in Seq(Seq(V))
    PROVE  FlattenSeq(seqs) \in Seq(V) /\ \E off : Pieces(FlattenSeq(seqs), off, seqs, Len(seqs))
  <1> DEFINE n == Len(seqs)
  <1>1. n \in Nat /\ \A i \in 1..n : seqs[i] \in Seq(V) /\ Len(seqs[i]) \in Nat
    OBVIOUS
  <1>2. CASE n = 0
    <2>1. FlattenSeq(seqs) = <<>>
      BY <1>2 DEF FlattenSeq
    <2>2. Pieces(<<>>, <<>>, seqs, 0)
      BY DEF Pieces
    <2> QED BY <1>2, <2>1, <2>2
  <1>3. CASE n # 0
    <2>1. PICK f : Flattening(f, seqs, n) /\ FlattenSeq(seqs) = f[n]
      BY <1>3, FlattenLast
    <2> DEFINE Good(m) == /\ f[m] \in Seq(V)
                          /\ \E off : /\ Pieces(f[m], off, seqs, m)
                                      /\ \A i \in 1..m : off[i] + Len(seqs[i]) <= Len(f[m])
               Bad == {m \in 1..n : ~Good(m)}
    <2>2. Good(1)
      <3>1. 1 \in 1..n /\ f[1] = seqs[1]
        BY <1>1, <1>3, <2>1 DEF Flattening
      <3> DEFINE off == [i \in 1..1 |-> 0]
      <3>2. Pieces(f[1], off, seqs, 1)
        <4>1. off \in [1..1 -> Nat] /\ off[1] = 0 /\ \A i \in 1..1 : i = 1
          OBVIOUS
        <4> HIDE DEF off
        <4>2. \A j \in 1..Len(seqs[1]) : 0 + j \in 1..Len(f[1]) /\ f[1][0 + j] = seqs[1][j]
          BY <1>1, <3>1
        <4>3. \A k \in 1..Len(f[1]) : \E j \in 1..Len(seqs[1]) : k = 0 + j
          BY <1>1, <3>1
        <4> QED BY <4>1, <4>2, <4>3 DEF Pieces
      <3>3. \A i \in 1..1 : off[i] + Len(seqs[i]) <= Len(f[1])
        BY <1>1, <3>1
      <3> QED BY <1>1, <3>1, <3>2, <3>3
    <2>3. ASSUME NEW m \in 1..n, m > 1, Good(m - 1) PROVE Good(m)
      <3>1. f[m] = f[m - 1] \o seqs[m]
        <4>1. f[m] = IF m = 1 THEN seqs[m] ELSE f[m - 1] \o seqs[m]
          BY <2>1 DEF Flattening
        <4>2. m # 1
          BY <2>3
        <4> QED BY <4>1, <4>2, Zenon
      <3>2. PICK off : /\ Pieces(f[m - 1], off, seqs, m - 1)
                       /\ \A i \in 1..(m - 1) : off[i] + Len(seqs[i]) <= Len(f[m - 1])
        BY <2>3
      <3> DEFINE t == f[m - 1]
      <3>3. t \in Seq(V) /\ seqs[m] \in Seq(V)
        BY <2>3, <1>1
      <3> DEFINE more == [i \in 1..m |-> IF i = m THEN Len(t) ELSE off[i]]
      <3>4. /\ Pieces(t \o seqs[m], more, seqs, m)
            /\ \A i \in 1..m : more[i] + Len(seqs[i]) <= Len(t \o seqs[m])
        <4>1. /\ Pieces(t, off, seqs, m - 1)
              /\ \A i \in 1..(m - 1) : off[i] + Len(seqs[i]) <= Len(t)
          BY <3>2
        <4> HIDE DEF t
        <4> QED BY <2>3, <3>3, <4>1, PiecesExtend
      <3>5. t \o seqs[m] \in Seq(V)
        BY <3>3
      <3> HIDE DEF more
      <3> QED BY <3>1, <3>4, <3>5
    <2> HIDE DEF Good
    <2>4. SUFFICES ASSUME Bad # {} PROVE FALSE
      <3>1. n \in 1..n
        BY <1>1, <1>3
      <3>2. Bad = {} => Good(n)
        BY <3>1
      <3> QED BY <2>1, <3>2 DEF Good
    <2>5. Bad \in SUBSET Int /\ IsFiniteSet(Bad)
      <3>1. IsFiniteSet(1..n) /\ Bad \in SUBSET (1..n)
        BY <1>1, FS_Interval
      <3> QED BY <3>1, FS_Subset
    <2>6. PICK m \in Bad : \A j \in Bad : m <= j
      <3> HIDE DEF Bad
      <3> QED BY <2>4, <2>5, LeastMember
    <2>7. m \in 1..n /\ ~Good(m)
      BY <2>6
    <2>8. m # 1
      BY <2>2, <2>7
    <2>9. m > 1 /\ m - 1 \in 1..n /\ m - 1 \notin Bad
      BY <1>1, <2>6, <2>7, <2>8
    <2>10. Good(m - 1)
      BY <2>9
    <2> QED BY <2>3, <2>7, <2>9, <2>10
  <1> QED BY <1>2, <1>3

\* What is in the joined sequence.
LEMMA FlattenElements ==
    ASSUME NEW V, NEW seqs \in Seq(Seq(V))
    PROVE  /\ FlattenSeq(seqs) \in Seq(V)
           /\ \A k \in DOMAIN FlattenSeq(seqs) :
                \E i \in DOMAIN seqs : \E j \in DOMAIN seqs[i] : FlattenSeq(seqs)[k] = seqs[i][j]
           /\ \A i \in DOMAIN seqs : \A j \in DOMAIN seqs[i] :
                \E k \in DOMAIN FlattenSeq(seqs) : FlattenSeq(seqs)[k] = seqs[i][j]
  <1> DEFINE t == FlattenSeq(seqs)
  <1>1. t \in Seq(V) /\ \E off : Pieces(t, off, seqs, Len(seqs))
    BY FlattenPieces
  <1> HIDE DEF t
  <1>2. PICK off : Pieces(t, off, seqs, Len(seqs))
    BY <1>1
  <1>3. DOMAIN t = 1..Len(t) /\ DOMAIN seqs = 1..Len(seqs)
        /\ \A i \in DOMAIN seqs : DOMAIN seqs[i] = 1..Len(seqs[i])
    BY <1>1
  <1>4. /\ \A k \in DOMAIN t : \E i \in DOMAIN seqs : \E j \in DOMAIN seqs[i] : t[k] = seqs[i][j]
        /\ \A i \in DOMAIN seqs : \A j \in DOMAIN seqs[i] : \E k \in DOMAIN t : t[k] = seqs[i][j]
    <2>1. ASSUME NEW k \in DOMAIN t
          PROVE  \E i \in DOMAIN seqs : \E j \in DOMAIN seqs[i] : t[k] = seqs[i][j]
      <3>1. PICK i \in 1..Len(seqs) : \E j \in 1..Len(seqs[i]) : k = off[i] + j
        BY <1>2, <1>3 DEF Pieces
      <3>2. PICK j \in 1..Len(seqs[i]) : k = off[i] + j
        BY <3>1
      <3>3. t[k] = seqs[i][j]
        BY <1>2, <3>2 DEF Pieces
      <3> QED BY <1>3, <3>3
    <2>2. ASSUME NEW i \in DOMAIN seqs, NEW j \in DOMAIN seqs[i]
          PROVE  \E k \in DOMAIN t : t[k] = seqs[i][j]
      <3>1. off[i] + j \in 1..Len(t) /\ t[off[i] + j] = seqs[i][j]
        BY <1>2, <1>3 DEF Pieces
      <3> QED BY <1>3, <3>1
    <2> QED BY <2>1, <2>2
  <1> QED BY <1>1, <1>4 DEF t

\* The rules of the findings about columns, and the findings and their metas.
SqlRules == {"SQL-SENSITIVE-COLUMN", "SQL-TEXT-TYPE"}
SqlFinding ==
    [rule : SqlRules \cup {"GORM-SENSITIVE-TAG", "GORM-NO-ENCRYPT-HOOK", "GORM-ENCRYPT-OK"},
     sev : {"INFO", "MEDIUM", "HIGH"}, table : STRING \cup {""}, col : STRING \cup {""},
     file : Nat, hint : {"", "type", "hook", "drop"}]
SqlMeta == [table : STRING \cup {""}, col : STRING \cup {""}]
TaggedField == [col : STRING, field : STRING, type : STRING]

\* The structs that pass 2 can build.
BuiltStructs ==
    {BuildGormStruct(project.go[k].struct, k) : k \in {j \in DOMAIN project.go : project.go[j].parses}}

\* What the scan holds.
SqlTypeOK ==
    /\ project \in SqlSources
    /\ DOMAIN work = {"next", "findings", "metas", "sqlEnd", "structs", "types", "funcs"}
    /\ work.next \in Nat \ {0}
    /\ work.findings \in Seq(SqlFinding)
    /\ work.metas \in Seq(SqlMeta)
    /\ work.sqlEnd \in Int
    /\ work.structs \in Seq(BuiltStructs)

\* The slice of metas says which column each of the first findings is about.
SqlMetasAligned ==
    /\ Len(work.metas) <= Len(work.findings)
    /\ pc = "start" => Len(work.metas) = Len(work.findings)
    /\ \A i \in 1..Len(work.metas) :
          work.metas[i] = MetaOf(work.findings[i]) /\ work.findings[i].rule \in SqlRules

\* A hook excuses a finding only after pass 3, and then the struct that speaks
\* for the table encrypts the column.
SqlHooksFound ==
    /\ \A i \in DOMAIN work.findings : work.findings[i].hint = "hook" => pc \in {"drop", "done"}
    /\ \A i \in DOMAIN work.findings : \A t, col \in STRING \cup {""} :
          work.findings[i].hint = "hook" /\ work.findings[i].table = t /\ work.findings[i].col = col
              => GoEncrypts(t, col)

\* Only types with a method in a file that parses are verified.
SqlTypesDeclared ==
    \A t \in DOMAIN work.types :
        \E g \in Range(project.go) : \E d \in Range(g.decls) : g.parses /\ d.recv = t

\* The hypothesis of GormPlaintextReported.
PlaintextStruct(k) ==
    LET s == project.go[k].struct
    IN  /\ project.go[k].parses
        /\ EncryptedFields(s) = {}
        /\ \E t \in Range(CollectDBTaggedFields(s)) : t.col \in SensitiveKeywords
        /\ \A t \in Range(s.fields), g \in Range(project.go) :
              \A d \in Range(g.decls) : ~(g.parses /\ d.recv = t.type)

\* It has been read, its struct is known and its finding is there.
SqlPlaintextKept ==
    pc # "start" => \A k \in DOMAIN project.go :
        PlaintextStruct(k) /\ (pc = "go" => k < work.next) =>
            /\ BuildGormStruct(project.go[k].struct, k) \in Range(work.structs)
            /\ \E i \in DOMAIN work.findings :
                  /\ work.findings[i].rule = "GORM-NO-ENCRYPT-HOOK"
                  /\ work.findings[i].file = k /\ work.findings[i].sev = "HIGH"

\* Finding r reports the column of statement s of file f.
IsHighColumn(r, s, f) ==
    /\ r.rule = "SQL-SENSITIVE-COLUMN"
    /\ r.table = s.table /\ r.col = s.col /\ r.file = f
    /\ r.sev = "HIGH"

\* A keyword column of a file that has been read is reported HIGH until pass 3
\* finds a struct that encrypts it or pass 4 a migration that drops it.
SqlColumnsKept ==
    \A f \in DOMAIN project.sql : \A s \in Range(project.sql[f]) :
        /\ s.op # "drop" /\ s.col \in SensitiveKeywords
        /\ pc = "start" => f < work.next
        /\ pc \in {"drop", "done"} => ~GoEncrypts(s.table, s.col)
        /\ pc = "done" => ~DroppedLater(f, s.col)
        => \E i \in DOMAIN work.findings : IsHighColumn(work.findings[i], s, f)

\* What holds as long as the scan has not failed.
SqlKept ==
    /\ SqlTypeOK
    /\ SqlMetasAligned
    /\ SqlHooksFound
    /\ SqlTypesDeclared
    /\ SqlPlaintextKept
    /\ SqlColumnsKept

\* The invariant of the SQL scanner; a failed scan has no findings to speak of.
SqlInv ==
    scanner = "sql" =>
        /\ SqlTypeOK
        /\ pc \in {"start", "go", "verify", "xref", "drop", "done", "failed"}
        /\ pc # "failed" => SqlKept

------------------------------------------------------------------------------
(* The operators of the passes.                                            *)

\* The indices of a sequence form a finite set of integers, and so do those of
\* them that a loop picks.
LEMMA PickedIndices ==
    ASSUME NEW V, NEW s \in Seq(V), NEW S \in SUBSET DOMAIN s
    PROVE  S \in SUBSET Int /\ IsFiniteSet(S) /\ \A i \in S : s[i] \in V
  <1>1. DOMAIN s = 1..Len(s) /\ Len(s) \in Nat
    OBVIOUS
  <1>2. IsFiniteSet(1..Len(s))
    BY <1>1, FS_Interval
  <1> QED BY <1>1, <1>2, FS_Subset

\* Picking from a sequence: the type, and which elements there are.
LEMMA Picked ==
    ASSUME NEW V, NEW s \in Seq(V), NEW S \in SUBSET DOMAIN s
    PROVE  /\ Where(s, S) \in Seq(V)
           /\ \A k \in DOMAIN Where(s, S) : \E i \in S : Where(s, S)[k] = s[i]
           /\ \A i \in S : \E k \in DOMAIN Where(s, S) : Where(s, S)[k] = s[i]
  <1>1. S \in SUBSET Int /\ IsFiniteSet(S) /\ \A i \in S : s[i] \in V
    BY PickedIndices
  <1>2. Where(s, S) \in Seq(V)
    BY <1>1, WhereType
  <1>3. /\ \A k \in DOMAIN Where(s, S) : \E i \in S : Where(s, S)[k] = s[i]
        /\ \A i \in S : \E k \in DOMAIN Where(s, S) : Where(s, S)[k] = s[i]
    BY <1>1, WhereElements
  <1> QED BY <1>2, <1>3

\* u is s followed by t.
Appended(u, s, t) ==
    /\ Len(u) = Len(s) + Len(t)
    /\ \A k \in DOMAIN u : (\E i \in DOMAIN s : u[k] = s[i]) \/ (\E i \in DOMAIN t : u[k] = t[i])
    /\ \A i \in DOMAIN s : i \in DOMAIN u /\ u[i] = s[i]
    /\ \A i \in DOMAIN t : Len(s) + i \in DOMAIN u /\ u[Len(s) + i] = t[i]

\* The elements of two sequences put together.
LEMMA JoinAppends ==
    ASSUME NEW V, NEW s \in Seq(V), NEW t \in Seq(V), NEW u, u = s \o t
    PROVE  u \in Seq(V) /\ Appended(u, s, t)
  <1>1. DOMAIN s = 1..Len(s) /\ DOMAIN t = 1..Len(t) /\ Len(s) \in Nat /\ Len(t) \in Nat
    OBVIOUS
  <1>2. u \in Seq(V) /\ Len(u) = Len(s) + Len(t) /\ DOMAIN u = 1..(Len(s) + Len(t))
    OBVIOUS
  <1>3. \A i \in 1..Len(s) : i \in 1..(Len(s) + Len(t)) /\ u[i] = s[i]
    BY <1>1
  <1>4. \A i \in 1..Len(t) : Len(s) + i \in 1..(Len(s) + Len(t)) /\ u[Len(s) + i] = t[i]
    BY <1>1
  <1>5. ASSUME NEW k \in DOMAIN u
        PROVE  (\E i \in DOMAIN s : u[k] = s[i]) \/ (\E i \in DOMAIN t : u[k] = t[i])
    <2>1. CASE k \in 1..Len(s)
      BY <1>1, <1>3, <2>1
    <2>2. CASE k \notin 1..Len(s)
      <3>1. k - Len(s) \in 1..Len(t) /\ k = Len(s) + (k - Len(s))
        BY <1>1, <1>2, <2>2
      <3>2. u[k] = t[k - Len(s)]
        BY <1>4, <3>1
      <3> QED BY <1>1, <3>1, <3>2
    <2> QED BY <2>1, <2>2
  <1> QED BY <1>1, <1>2, <1>3, <1>4, <1>5 DEF Appended

\* Pass 1 sees every column that a file creates or adds, and nothing else.
LEMMA ParsedColumns ==
    ASSUME NEW stmts \in Seq(Statement)
    PROVE  /\ ParseSQLFile(stmts) \in Seq(Statement)
           /\ \A s \in Range(stmts) : s.op # "drop" =>
                \E i \in DOMAIN ParseSQLFile(stmts) : ParseSQLFile(stmts)[i] = s
  <1> DEFINE C == {i \in DOMAIN stmts : stmts[i].op = "create"}
             A == {i \in DOMAIN stmts : stmts[i].op = "add"}
             c == Where(stmts, C)
             a == Where(stmts, A)
  <1>1. /\ c \in Seq(Statement)
        /\ \A i \in C : \E k \in DOMAIN c : c[k] = stmts[i]
    <2>1. C \in SUBSET DOMAIN stmts
      OBVIOUS
    <2> HIDE DEF C
    <2> QED BY <2>1, Picked
  <1>2. /\ a \in Seq(Statement)
        /\ \A i \in A : \E k \in DOMAIN a : a[k] = stmts[i]
    <2>1. A \in SUBSET DOMAIN stmts
      OBVIOUS
    <2> HIDE DEF A
    <2> QED BY <2>1, Picked
  <1>3. \A i \in DOMAIN stmts : stmts[i].op # "drop" => i \in C \cup A
    <2> TAKE i \in DOMAIN stmts
    <2>1. stmts[i] \in Statement
      OBVIOUS
    <2>2. stmts[i].op \in {"create", "add", "drop"}
      BY <2>1 DEF Statement
    <2> QED BY <2>2
  <1>4. ParseSQLFile(stmts) = c \o a
    BY DEF ParseSQLFile
  <1> HIDE DEF C, A, c, a
  <1> DEFINE u == c \o a
  <1>5. ParseSQLFile(stmts) = u /\ u = c \o a
    BY <1>4
  <1> HIDE DEF u
  <1>6. /\ u \in Seq(Statement)
        /\ \A i \in DOMAIN c : i \in DOMAIN u /\ u[i] = c[i]
        /\ \A i \in DOMAIN a : Len(c) + i \in DOMAIN u /\ u[Len(c) + i] = a[i]
    <2>1. u \in Seq(Statement) /\ Appended(u, c, a)
      BY <1>1, <1>2, <1>5, JoinAppends
    <2> QED BY <2>1 DEF Appended
  <1>7. ASSUME NEW s \in Range(stmts), s.op # "drop"
        PROVE  \E i \in DOMAIN u : u[i] = s
    <2>1. PICK i \in DOMAIN stmts : stmts[i] = s
      BY DEF Range
    <2>2. i \in C \/ i \in A
      BY <1>3, <1>7, <2>1
    <2>3. CASE i \in C
      BY <1>1, <1>6, <2>1, <2>3
    <2>4. CASE i \in A
      BY <1>2, <1>6, <2>1, <2>4
    <2> QED BY <2>2, <2>3, <2>4
  <1> QED BY <1>5, <1>6, <1>7

\* The findings of one column.
LEMMA ColumnFindingsAre ==
    ASSUME NEW c \in Statement, NEW f \in Nat
    PROVE  /\ ColumnFindings(c, f) \in Seq(SqlFinding)
           /\ \A k \in DOMAIN ColumnFindings(c, f) :
                ColumnFindings(c, f)[k].rule \in SqlRules /\ ColumnFindings(c, f)[k].hint = ""
           /\ 1 \in DOMAIN ColumnFindings(c, f)
           /\ IsHighColumn(ColumnFindings(c, f)[1], c, f)
  <1> DEFINE high == [rule |-> "SQL-SENSITIVE-COLUMN", sev |-> "HIGH", table |-> c.table,
                      col |-> c.col, file |-> f, hint |-> ""]
             text == [rule |-> "SQL-TEXT-TYPE", sev |-> "MEDIUM", table |-> c.table,
                      col |-> c.col, file |-> f, hint |-> ""]
             rest == IF c.type \in PlaintextTypes THEN <<text>> ELSE <<>>
  <1>1. c.table \in STRING /\ c.col \in STRING
    BY DEF Statement
  <1>2. high \in SqlFinding
    BY <1>1 DEF SqlFinding, SqlRules
  <1>3. text \in SqlFinding
    BY <1>1 DEF SqlFinding, SqlRules
  <1>4. high.rule \in SqlRules /\ text.rule \in SqlRules /\ high.hint = "" /\ text.hint = ""
    BY DEF SqlRules
  <1>5. IsHighColumn(high, c, f)
    BY DEF IsHighColumn
  <1>6. ColumnFindings(c, f) = <<high>> \o rest
    BY DEF ColumnFindings
  <1> HIDE DEF high, text
  <1>7. rest \in Seq(SqlFinding) /\ \A i \in DOMAIN rest : rest[i] = text
    BY <1>3
  <1>8. <<high>> \in Seq(SqlFinding) /\ DOMAIN <<high>> = {1} /\ <<high>>[1] = high
    BY <1>2
  <1> DEFINE one == <<high>>
             u == one \o rest
  <1> HIDE DEF rest, one
  <1>9. /\ u \in Seq(SqlFinding)
        /\ \A k \in DOMAIN u : (\E i \in DOMAIN one : u[k] = one[i]) \/ (\E i \in DOMAIN rest : u[k] = rest[i])
        /\ \A i \in DOMAIN one : i \in DOMAIN u /\ u[i] = one[i]
    <2>1. one \in Seq(SqlFinding)
      BY <1>8 DEF one
    <2>2. u = one \o rest
      OBVIOUS
    <2> HIDE DEF u
    <2>3. u \in Seq(SqlFinding) /\ Appended(u, one, rest)
      BY <1>7, <2>1, <2>2, JoinAppends
    <2> QED BY <2>3 DEF Appended
  <1>10. DOMAIN one = {1} /\ one[1] = high /\ ColumnFindings(c, f) = u
    BY <1>6, <1>8 DEF one
  <1> HIDE DEF u
  <1>11. 1 \in DOMAIN u /\ u[1] = high
    BY <1>9, <1>10
  <1>12. \A k \in DOMAIN u : u[k] = high \/ u[k] = text
    BY <1>7, <1>9, <1>10
  <1>13. \A k \in DOMAIN u : u[k].rule \in SqlRules /\ u[k].hint = ""
    BY <1>4, <1>12
  <1> QED BY <1>5, <1>9, <1>10, <1>11, <1>13

\* Pass 1 on a file: findings about columns, and one for every keyword column.
LEMMA ScannedFile ==
    ASSUME NEW stmts \in Seq(Statement), NEW f \in Nat
    PROVE  /\ ScanSQLFile(stmts, f) \in Seq(SqlFinding)
           /\ \A k \in DOMAIN ScanSQLFile(stmts, f) :
                ScanSQLFile(stmts, f)[k].rule \in SqlRules /\ ScanSQLFile(stmts, f)[k].hint = ""
           /\ \A s \in Range(stmts) : s.op # "drop" /\ s.col \in SensitiveKeywords =>
                \E k \in DOMAIN ScanSQLFile(stmts, f) : IsHighColumn(ScanSQLFile(stmts, f)[k], s, f)
  <1> DEFINE all == ParseSQLFile(stmts)
             S == {i \in DOMAIN all : Flagged(all[i], all)}
             flagged == Where(all, S)
             pieces == [k \in 1..Len(flagged) |-> ColumnFindings(flagged[k], f)]
             found == FlattenSeq(pieces)
  <1>1. ScanSQLFile(stmts, f) = found
    BY DEF ScanSQLFile
  <1>2. /\ all \in Seq(Statement)
        /\ \A s \in Range(stmts) : s.op # "drop" => \E i \in DOMAIN all : all[i] = s
    BY ParsedColumns
  <1>3. \A i \in DOMAIN all : all[i].col \in SensitiveKeywords => i \in S
    BY KeywordAssumption DEF Flagged, IsSensitiveColumnInContext
  <1>4. S \in SUBSET DOMAIN all
    OBVIOUS
  <1> HIDE DEF all, S
  <1>5. /\ flagged \in Seq(Statement)
        /\ \A i \in S : \E k \in DOMAIN flagged : flagged[k] = all[i]
    BY <1>2, <1>4, Picked
  <1> HIDE DEF flagged
  <1>6. Len(flagged) \in Nat /\ DOMAIN flagged = 1..Len(flagged)
        /\ \A k \in 1..Len(flagged) : flagged[k] \in Statement
    BY <1>5
  <1>7. \A k \in 1..Len(flagged) :
            /\ ColumnFindings(flagged[k], f) \in Seq(SqlFinding)
            /\ \A j \in DOMAIN ColumnFindings(flagged[k], f) :
                  ColumnFindings(flagged[k], f)[j].rule \in SqlRules /\ ColumnFindings(flagged[k], f)[j].hint = ""
            /\ 1 \in DOMAIN ColumnFindings(flagged[k], f)
            /\ IsHighColumn(ColumnFindings(flagged[k], f)[1], flagged[k], f)
    BY <1>6, ColumnFindingsAre
  <1>8. /\ DOMAIN pieces = 1..Len(flagged)
        /\ \A k \in 1..Len(flagged) :
            /\ pieces[k] \in Seq(SqlFinding)
            /\ \A j \in DOMAIN pieces[k] : pieces[k][j].rule \in SqlRules /\ pieces[k][j].hint = ""
            /\ 1 \in DOMAIN pieces[k]
            /\ IsHighColumn(pieces[k][1], flagged[k], f)
    BY <1>7
  <1>9. pieces \in Seq(Seq(SqlFinding))
    <2>1. pieces \in [1..Len(flagged) -> Seq(SqlFinding)]
      BY <1>7
    <2> HIDE DEF pieces
    <2> QED BY <1>6, <2>1, FunctionIsSequence
  <1> HIDE DEF pieces
  <1>10. /\ found \in Seq(SqlFinding)
         /\ \A k \in DOMAIN found : \E i \in DOMAIN pieces : \E j \in DOMAIN pieces[i] : found[k] = pieces[i][j]
         /\ \A i \in DOMAIN pieces : \A j \in DOMAIN pieces[i] : \E k \in DOMAIN found : found[k] = pieces[i][j]
    BY <1>9, FlattenElements
  <1> HIDE DEF found
  <1>11. \A k \in DOMAIN found : found[k].rule \in SqlRules /\ found[k].hint = ""
    <2> TAKE k \in DOMAIN found
    <2>1. PICK i \in DOMAIN pieces : \E j \in DOMAIN pieces[i] : found[k] = pieces[i][j]
      BY <1>10
    <2>2. PICK j \in DOMAIN pieces[i] : found[k] = pieces[i][j]
      BY <2>1
    <2>3. pieces[i][j].rule \in SqlRules /\ pieces[i][j].hint = ""
      BY <1>8
    <2> QED BY <2>2, <2>3
  <1>12. ASSUME NEW s \in Range(stmts), s.op # "drop", s.col \in SensitiveKeywords
         PROVE  \E k \in DOMAIN found : IsHighColumn(found[k], s, f)
    <2>1. PICK i \in DOMAIN all : all[i] = s
      BY <1>2, <1>12
    <2>2. PICK k \in DOMAIN flagged : flagged[k] = s
      BY <1>3, <1>5, <1>12, <2>1
    <2>3. k \in DOMAIN pieces /\ 1 \in DOMAIN pieces[k] /\ IsHighColumn(pieces[k][1], s, f)
      BY <1>6, <1>8, <2>2
    <2>4. PICK h \in DOMAIN found : found[h] = pieces[k][1]
      BY <1>10, <2>3
    <2> QED BY <2>3, <2>4
  <1> QED BY <1>1, <1>10, <1>11, <1>12

\* A finite set of integers that is not empty has a greatest member.
LEMMA GreatestMember ==
    ASSUME NEW S \in SUBSET Int, IsFiniteSet(S), S # {}
    PROVE  \E k \in S : \A j \in S : j <= k
  <1>1. PICK n, e : Lists(e, n, S)
    BY WhereEnumerates
  <1>2. PICK x \in S : TRUE
    OBVIOUS
  <1>3. PICK i \in 1..n : e[i] = x
    BY <1>1 DEF Lists
  <1>4. n \in Nat /\ n \in 1..n /\ e[n] \in S
    BY <1>1, <1>3 DEF Lists
  <1>5. ASSUME NEW j \in S PROVE j <= e[n]
    <2>1. PICK k \in 1..n : e[k] = j
      BY <1>1 DEF Lists
    <2>2. k = n \/ k < n
      BY <1>4
    <2>3. k < n => e[k] < e[n]
      BY <1>1, <1>4 DEF Lists
    <2>4. e[n] \in Int /\ j \in Int
      BY <1>4
    <2> QED BY <2>1, <2>2, <2>3, <2>4
  <1> QED BY <1>4, <1>5

\* The fields of a struct that have a column.
LEMMA TaggedFields ==
    ASSUME NEW s, s.fields \in Seq(GormField)
    PROVE  /\ CollectDBTaggedFields(s) \in Seq(TaggedField)
           /\ \A k \in DOMAIN CollectDBTaggedFields(s) :
                \E i \in DOMAIN s.fields : CollectDBTaggedFields(s)[k].type = s.fields[i].type
  <1> DEFINE fs == s.fields
             S == {k \in DOMAIN fs : ExtractDBTag(fs[k].tag) # ""}
             tagged == Where(fs, S)
             all == [k \in DOMAIN tagged |-> [col |-> ExtractDBTag(tagged[k].tag),
                                              field |-> tagged[k].field, type |-> tagged[k].type]]
  <1>1. CollectDBTaggedFields(s) = all
    BY DEF CollectDBTaggedFields
  <1>2. S \in SUBSET DOMAIN fs /\ fs \in Seq(GormField)
    OBVIOUS
  <1> HIDE DEF fs, S
  <1>3. /\ tagged \in Seq(GormField)
        /\ \A k \in DOMAIN tagged : \E i \in S : tagged[k] = fs[i]
    BY <1>2, Picked
  <1> HIDE DEF tagged
  <1>4. Len(tagged) \in Nat /\ DOMAIN tagged = 1..Len(tagged)
    BY <1>3
  <1>5. ASSUME NEW k \in DOMAIN tagged
        PROVE  all[k] \in TaggedField /\ all[k].type = tagged[k].type
    <2>1. tagged[k] \in GormField
      BY <1>3
    <2>2. /\ tagged[k].field \in STRING /\ tagged[k].type \in STRING
          /\ tagged[k].tag.gorm \in STRING /\ tagged[k].tag.db \in STRING /\ tagged[k].tag.sql \in STRING
      BY <2>1 DEF GormField
    <2>3. ExtractDBTag(tagged[k].tag) \in STRING
      BY <2>2 DEF ExtractDBTag
    <2> QED BY <2>2, <2>3 DEF TaggedField
  <1>6. all \in [1..Len(tagged) -> TaggedField]
    BY <1>4, <1>5
  <1>7. DOMAIN all = DOMAIN tagged
    OBVIOUS
  <1> HIDE DEF all
  <1>8. all \in Seq(TaggedField)
    BY <1>4, <1>6, FunctionIsSequence
  <1>9. \A k \in DOMAIN all : \E i \in DOMAIN fs : all[k].type = fs[i].type
    BY <1>2, <1>3, <1>5, <1>7
  <1> QED BY <1>1, <1>8, <1>9 DEF fs

\* What a struct keeps, and that its tags are the sensitive ones of its fields.
LEMMA StructBuilt ==
    ASSUME NEW s, s.fields \in Seq(GormField), NEW f,
           NEW g, g = BuildGormStruct(s, f), NEW fields, fields = CollectDBTaggedFields(s)
    PROVE  /\ g.file = f /\ g.table = ResolveStructTableName(s)
           /\ g.encrypted = EncryptedFields(s) /\ g.hasHook = (EncryptedFields(s) # {})
           /\ g.columnToField = ColumnToField(fields)
           /\ g.tags \in Seq(TaggedField)
           /\ \A k \in DOMAIN g.tags : \E i \in DOMAIN fields : g.tags[k] = fields[i]
           /\ \A i \in DOMAIN fields : fields[i].col \in SensitiveKeywords =>
                \E k \in DOMAIN g.tags : g.tags[k] = fields[i]
  <1> DEFINE S == {k \in DOMAIN fields :
                     IsSensitiveColumnInContext(ResolveStructTableName(s), fields[k].col,
                         IsPANFieldProtected(fields, EncryptedFields(s)))}
  <1>1. /\ g.file = f /\ g.table = ResolveStructTableName(s)
        /\ g.encrypted = EncryptedFields(s) /\ g.hasHook = (EncryptedFields(s) # {})
        /\ g.columnToField = ColumnToField(fields)
        /\ g.tags = Where(fields, S)
    BY DEF BuildGormStruct
  <1>2. fields \in Seq(TaggedField)
    BY TaggedFields
  <1>3. S \in SUBSET DOMAIN fields
    OBVIOUS
  <1>4. \A i \in DOMAIN fields : fields[i].col \in SensitiveKeywords => i \in S
    BY DEF IsSensitiveColumnInContext
  <1> HIDE DEF S
  <1> DEFINE tags == Where(fields, S)
  <1>5. /\ tags \in Seq(TaggedField)
        /\ \A k \in DOMAIN tags : \E i \in S : tags[k] = fields[i]
        /\ \A i \in S : \E k \in DOMAIN tags : tags[k] = fields[i]
    BY <1>2, <1>3, Picked
  <1>6. g.tags = tags
    BY <1>1
  <1> HIDE DEF tags
  <1>7. \A k \in DOMAIN tags : \E i \in DOMAIN fields : tags[k] = fields[i]
    BY <1>3, <1>5
  <1>8. \A i \in DOMAIN fields : fields[i].col \in SensitiveKeywords =>
            \E k \in DOMAIN tags : tags[k] = fields[i]
    BY <1>4, <1>5
  <1> QED BY <1>1, <1>5, <1>6, <1>7, <1>8

\* The field of a column is the field of a tag with that column.
LEMMA FieldOfColumn ==
    ASSUME NEW fields \in Seq(TaggedField), NEW col \in DOMAIN ColumnToField(fields)
    PROVE  \E k \in DOMAIN fields : fields[k].col = col /\ ColumnToField(fields)[col] = fields[k].field
  <1> DEFINE S == {k \in DOMAIN fields : fields[k].col = col}
             last == CHOOSE k \in DOMAIN fields :
                        /\ fields[k].col = col
                        /\ \A j \in DOMAIN fields : fields[j].col = col => j <= k
  <1>1. col \in {fields[k].col : k \in DOMAIN fields} /\ ColumnToField(fields)[col] = fields[last].field
    BY DEF ColumnToField
  <1>2. S # {} /\ S \in SUBSET DOMAIN fields
    BY <1>1
  <1>3. S \in SUBSET Int /\ IsFiniteSet(S)
    <2> HIDE DEF S
    <2> QED BY <1>2, PickedIndices
  <1>4. \E k \in S : \A j \in S : j <= k
    <2> HIDE DEF S
    <2> QED BY <1>2, <1>3, GreatestMember
  <1>5. \E k \in DOMAIN fields : /\ fields[k].col = col
                                 /\ \A j \in DOMAIN fields : fields[j].col = col => j <= k
    BY <1>4
  <1>6. last \in DOMAIN fields /\ fields[last].col = col
    BY <1>5
  <1> HIDE DEF last
  <1> QED BY <1>1, <1>6

\* The table of a struct is a name.
LEMMA TableNamed ==
    ASSUME NEW s, {s.name, s.method, s.const} \subseteq STRING
    PROVE  ResolveStructTableName(s) \in STRING \cup {""}
  BY DEF ResolveStructTableName

\* Indices and elements of a sequence.
LEMMA Indexed ==
    ASSUME NEW V, NEW s \in Seq(V)
    PROVE  Len(s) \in Nat /\ DOMAIN s = 1..Len(s) /\ \A k \in 1..Len(s) : s[k] \in V
  OBVIOUS

\* One element.
LEMMA Single ==
    ASSUME NEW V, NEW x \in V, NEW s, s = <<x>>
    PROVE  s \in Seq(V) /\ (\A i \in DOMAIN s : s[i] = x) /\ 1 \in DOMAIN s /\ s[1] = x
  OBVIOUS

\* None.
LEMMA Nothing ==
    ASSUME NEW V, NEW s, s = <<>>
    PROVE  s \in Seq(V) /\ DOMAIN s = {} /\ Len(s) = 0
  OBVIOUS

\* The findings of a struct: no hints, and one that no hook encrypts.
LEMMA GormFindingsAre ==
    ASSUME NEW g, g.tags \in Seq(TaggedField), g.table \in STRING \cup {""}, g.file \in Nat
    PROVE  /\ GormFindings(g) \in Seq(SqlFinding)
           /\ \A k \in DOMAIN GormFindings(g) : GormFindings(g)[k].hint = ""
           /\ ~g.hasHook => \E k \in DOMAIN GormFindings(g) :
                /\ GormFindings(g)[k].rule = "GORM-NO-ENCRYPT-HOOK"
                /\ GormFindings(g)[k].file = g.file /\ GormFindings(g)[k].sev = "HIGH"
  <1> DEFINE tag == [k \in 1..Len(g.tags) |->
                       [rule |-> "GORM-SENSITIVE-TAG", sev |-> TagSeverity(g, g.tags[k]), table |-> g.table,
                        col |-> g.tags[k].col, file |-> g.file, hint |-> ""]]
             hook == [rule |-> "GORM-NO-ENCRYPT-HOOK", sev |-> "HIGH", table |-> g.table,
                      col |-> "", file |-> g.file, hint |-> ""]
             rest == IF g.hasHook THEN <<>> ELSE <<hook>>
             u == tag \o rest
  <1>0. Len(g.tags) \in Nat /\ \A k \in 1..Len(g.tags) : g.tags[k] \in TaggedField
    BY Indexed
  <1>1. GormFindings(g) = u
    BY DEF GormFindings
  <1>2. ASSUME NEW k \in 1..Len(g.tags)
        PROVE  tag[k] \in SqlFinding /\ tag[k].hint = ""
    <2>1. g.tags[k] \in TaggedField
      BY <1>0
    <2>2. g.tags[k].col \in STRING
      BY <2>1 DEF TaggedField
    <2>3. TagSeverity(g, g.tags[k]) \in {"INFO", "MEDIUM", "HIGH"}
      BY DEF TagSeverity
    <2> DEFINE sev == TagSeverity(g, g.tags[k])
    <2> HIDE DEF sev
    <2>4. [rule |-> "GORM-SENSITIVE-TAG", sev |-> sev, table |-> g.table,
           col |-> g.tags[k].col, file |-> g.file, hint |-> ""] \in SqlFinding
      BY <2>2, <2>3 DEF SqlFinding, sev
    <2> QED BY <2>4 DEF sev
  <1>3. hook \in SqlFinding
    BY DEF SqlFinding
  <1>4. tag \in Seq(SqlFinding) /\ DOMAIN tag = 1..Len(g.tags)
    <2>1. tag \in [1..Len(g.tags) -> SqlFinding] /\ Len(g.tags) \in Nat
      BY <1>0, <1>2
    <2> HIDE DEF tag
    <2> QED BY <2>1, FunctionIsSequence
  <1>5. \A k \in DOMAIN tag : tag[k].hint = ""
    BY <1>2, <1>4
  <1>6. hook.hint = "" /\ hook.rule = "GORM-NO-ENCRYPT-HOOK" /\ hook.file = g.file /\ hook.sev = "HIGH"
    OBVIOUS
  <1> HIDE DEF tag, hook
  <1>7. rest \in Seq(SqlFinding) /\ (\A i \in DOMAIN rest : rest[i] = hook)
        /\ (~g.hasHook => 1 \in DOMAIN rest /\ rest[1] = hook)
    <2>1. CASE g.hasHook
      <3>1. rest = <<>>
        BY <2>1
      <3> HIDE DEF rest
      <3>2. rest \in Seq(SqlFinding) /\ DOMAIN rest = {}
        BY <3>1, Nothing
      <3> QED BY <2>1, <3>2
    <2>2. CASE ~g.hasHook
      <3>1. rest = <<hook>>
        BY <2>2
      <3> HIDE DEF rest
      <3> QED BY <1>3, <3>1, Single
    <2> QED BY <2>1, <2>2
  <1> HIDE DEF rest
  <1>8. /\ u \in Seq(SqlFinding)
        /\ \A k \in DOMAIN u : (\E i \in DOMAIN tag : u[k] = tag[i]) \/ (\E i \in DOMAIN rest : u[k] = rest[i])
        /\ \A i \in DOMAIN rest : Len(tag) + i \in DOMAIN u /\ u[Len(tag) + i] = rest[i]
    <2>1. u = tag \o rest
      OBVIOUS
    <2> HIDE DEF u
    <2>2. u \in Seq(SqlFinding) /\ Appended(u, tag, rest)
      BY <1>4, <1>7, <2>1, JoinAppends
    <2> QED BY <2>2 DEF Appended
  <1> HIDE DEF u
  <1>9. \A k \in DOMAIN u : u[k].hint = ""
    BY <1>5, <1>6, <1>7, <1>8
  <1>10. ASSUME ~g.hasHook PROVE \E k \in DOMAIN u : u[k] = hook
    <2>1. 1 \in DOMAIN rest /\ rest[1] = hook
      BY <1>7, <1>10
    <2>2. Len(tag) + 1 \in DOMAIN u /\ u[Len(tag) + 1] = rest[1]
      BY <1>8, <2>1
    <2> QED BY <2>1, <2>2
  <1> QED BY <1>1, <1>6, <1>8, <1>9, <1>10

\* ps and pm are what is left of s and m: still aligned, from s and m, and
\* nothing else is gone from s.
InStep(ps, pm, s, m, cut) ==
    /\ Len(pm) <= Len(ps)
    /\ \A i \in 1..Len(pm) : \E j \in 1..Len(m) : pm[i] = m[j] /\ ps[i] = s[j]
    /\ \A k \in DOMAIN ps : \E j \in DOMAIN s : ps[k] = s[j]
    /\ \A j \in DOMAIN s : j \notin cut => \E k \in DOMAIN ps : ps[k] = s[j]

\* Cutting the same positions out of two slices, the second one being the
\* shorter, keeps them aligned.
LEMMA PrunedInStep ==
    ASSUME NEW V, NEW s \in Seq(V), NEW W, NEW m \in Seq(W), Len(m) <= Len(s),
           NEW cut \in SUBSET (1..Len(m)),
           NEW ps, ps = Pruned(s, cut), NEW pm, pm = Pruned(m, cut)
    PROVE  ps \in Seq(V) /\ pm \in Seq(W) /\ InStep(ps, pm, s, m, cut)
  <1> DEFINE A == (1..Len(m)) \ cut
             D == (1..Len(s)) \ cut
             c == Len(m)
             d == Len(s) - Len(m)
  <1>1. c \in Nat /\ d \in Nat /\ Len(s) = c + d /\ DOMAIN s = 1..Len(s) /\ DOMAIN m = 1..c
    OBVIOUS
  <1>2. A \in SUBSET DOMAIN m /\ D \in SUBSET DOMAIN s
    BY <1>1
  <1>3. \A x \in D : x \in A \/ x \in (c + 1)..(c + d)
    BY <1>1
  <1>4. \A x \in A : x \in D /\ x \in 1..c
    BY <1>1
  <1>5. \A x \in (c + 1)..(c + d) : x \in D
    BY <1>1
  <1>6. ps = Where(s, D) /\ pm = Where(m, A)
    BY DEF Pruned
  <1> HIDE DEF A, D, c, d
  <1>7. /\ A \in SUBSET Int /\ IsFiniteSet(A)
        /\ D \in SUBSET Int /\ IsFiniteSet(D)
    BY <1>2, PickedIndices
  <1>8. PICK a, at : Lists(at, a, A) /\ Where(m, A) = Through(m, at, a)
    BY <1>7, WhereEnumerates
  <1>9. a \in Nat /\ \A k \in 1..a : at[k] \in A
    BY <1>8 DEF Lists
  <1> DEFINE e == [k \in 1..(a + d) |-> IF k <= a THEN at[k] ELSE c + (k - a)]
  <1>10. \A k \in 1..a : k \in 1..(a + d) /\ e[k] = at[k]
    BY <1>1, <1>9
  <1>11. \A k \in 1..(a + d) : k \notin 1..a =>
            /\ e[k] = c + (k - a) /\ e[k] \in (c + 1)..(c + d)
    BY <1>1, <1>9
  <1>12. e \in [1..(a + d) -> D]
    <2>1. ASSUME NEW k \in 1..(a + d) PROVE e[k] \in D
      BY <1>4, <1>5, <1>9, <1>10, <1>11
    <2>2. DOMAIN e = 1..(a + d) /\ e = [k \in DOMAIN e |-> e[k]]
      OBVIOUS
    <2> HIDE DEF e
    <2> QED BY <2>1, <2>2
  <1> HIDE DEF e
  <1>13. \A i, j \in 1..(a + d) : i < j => e[i] < e[j]
    <2> SUFFICES ASSUME NEW i \in 1..(a + d), NEW j \in 1..(a + d), i < j
                 PROVE  e[i] < e[j]
      OBVIOUS
    <2>1. CASE j \in 1..a
      <3>1. i \in 1..a
        BY <1>1, <1>9, <2>1
      <3> QED BY <1>8, <1>10, <2>1, <3>1 DEF Lists
    <2>2. CASE j \notin 1..a /\ i \in 1..a
      <3>1. e[i] \in 1..c /\ e[j] \in (c + 1)..(c + d)
        BY <1>4, <1>9, <1>10, <1>11, <2>2
      <3> QED BY <1>1, <3>1
    <2>3. CASE j \notin 1..a /\ i \notin 1..a
      BY <1>1, <1>9, <1>11, <2>3
    <2> QED BY <2>1, <2>2, <2>3
  <1>14. \A x \in D : \E k \in 1..(a + d) : e[k] = x
    <2> SUFFICES ASSUME NEW x \in D PROVE \E k \in 1..(a + d) : e[k] = x
      OBVIOUS
    <2>1. CASE x \in A
      BY <1>8, <1>10, <2>1 DEF Lists
    <2>2. CASE x \in (c + 1)..(c + d)
      <3>1. a + (x - c) \in 1..(a + d) /\ a + (x - c) \notin 1..a
        BY <1>1, <1>9, <2>2
      <3>2. e[a + (x - c)] = c + ((a + (x - c)) - a)
        BY <1>11, <3>1
      <3> QED BY <1>1, <1>9, <2>2, <3>1, <3>2
    <2> QED BY <1>3, <2>1, <2>2
  <1>15. Lists(e, a + d, D)
    BY <1>1, <1>9, <1>12, <1>13, <1>14 DEF Lists
  <1>16. Where(s, D) = Through(s, e, a + d)
    BY <1>7, <1>15, WhereIs
  <1>17. /\ Where(s, D) \in Seq(V) /\ Where(m, A) \in Seq(W)
         /\ \A k \in DOMAIN Where(s, D) : \E j \in D : Where(s, D)[k] = s[j]
         /\ \A j \in D : \E k \in DOMAIN Where(s, D) : Where(s, D)[k] = s[j]
    BY <1>2, Picked
  <1>18. /\ DOMAIN ps = 1..(a + d) /\ \A k \in 1..(a + d) : ps[k] = s[e[k]]
         /\ DOMAIN pm = 1..a /\ \A k \in 1..a : pm[k] = m[at[k]]
    BY <1>6, <1>8, <1>16 DEF Through
  <1>19. /\ ps \in Seq(V) /\ pm \in Seq(W)
         /\ \A k \in DOMAIN ps : \E j \in D : ps[k] = s[j]
         /\ \A j \in D : \E k \in DOMAIN ps : ps[k] = s[j]
    BY <1>6, <1>17
  <1>20. Len(ps) = a + d /\ Len(pm) = a
    <2>1. DOMAIN ps = 1..Len(ps) /\ DOMAIN pm = 1..Len(pm) /\ Len(ps) \in Nat /\ Len(pm) \in Nat
      BY <1>19
    <2> QED BY <1>1, <1>9, <1>18, <2>1
  <1>21. \A i \in 1..a : \E j \in 1..c : pm[i] = m[j] /\ ps[i] = s[j]
    BY <1>4, <1>9, <1>10, <1>18
  <1>22. \A j \in DOMAIN s : j \notin cut => j \in D
    BY <1>1 DEF D
  <1>23. \A k \in DOMAIN ps : \E j \in DOMAIN s : ps[k] = s[j]
    BY <1>2, <1>19
  <1>24. Len(pm) <= Len(ps)
    BY <1>1, <1>9, <1>20
  <1>25. \A i \in 1..Len(pm) : \E j \in 1..Len(m) : pm[i] = m[j] /\ ps[i] = s[j]
    BY <1>20, <1>21 DEF c
  <1> QED BY <1>19, <1>22, <1>23, <1>24, <1>25 DEF InStep

\* Whom GoEncrypts asks is a struct that was read and speaks for the table.
LEMMA SpokenFor ==
    ASSUME SqlTypeOK, NEW t \in GoTables
    PROVE  GoEncrypt(t) \in BuiltStructs /\ GoEncrypt(t).table = t
  <1> DEFINE all == work.structs
             S == {k \in DOMAIN all : all[k].table = t}
             last == CHOOSE k \in DOMAIN all :
                        /\ all[k].table = t
                        /\ \A j \in DOMAIN all : all[j].table = t => j <= k
  <1>1. all \in Seq(BuiltStructs)
    BY DEF SqlTypeOK
  <1>2. GoEncrypt(t) = all[last]
    BY DEF GoEncrypt
  <1>3. S # {} /\ S \in SUBSET DOMAIN all
    BY DEF GoTables, Range
  <1>4. \E k \in DOMAIN all : all[k].table = t /\ \A j \in DOMAIN all : all[j].table = t => j <= k
    <2>1. \E k \in S : \A j \in S : j <= k
      <3> HIDE DEF S, all
      <3>1. S \in SUBSET Int /\ IsFiniteSet(S)
        BY <1>1, <1>3, PickedIndices
      <3> QED BY <1>3, <3>1, GreatestMember
    <2> QED BY <2>1
  <1>5. last \in DOMAIN all /\ all[last].table = t
    BY <1>4
  <1> HIDE DEF last, all
  <1>6. all[last] \in BuiltStructs
    BY <1>1, <1>5
  <1> QED BY <1>2, <1>5, <1>6

\* The excuse of SqlHookExcuses.
HookEncrypts(table, col) ==
    \E k \in DOMAIN project.go :
        LET s == project.go[k].struct
        IN  /\ project.go[k].parses
            /\ ResolveStructTableName(s) = table
            /\ \E t \in Range(CollectDBTaggedFields(s)) :
                  t.col = col /\ t.field \in EncryptedFields(s)

\* The types of the sources.
LEMMA SourcesTyped ==
    ASSUME project \in SqlSources
    PROVE  /\ project.sql \in Seq(Seq(Statement))
           /\ project.go \in Seq(Range(project.go))
           /\ \A k \in DOMAIN project.go :
                /\ project.go[k] \in Range(project.go)
                /\ {project.go[k].struct.name, project.go[k].struct.method, project.go[k].struct.const} \subseteq STRING
                /\ project.go[k].struct.fields \in Seq(GormField)
  <1>1. \A k \in DOMAIN project.go : project.go[k] \in Range(project.go)
    BY DEF Range
  <1> QED BY <1>1, SqlSourcesAssumption

\* What GoEncrypts says is so.
LEMMA EncryptsByHook ==
    ASSUME SqlTypeOK, NEW table, NEW col, GoEncrypts(table, col)
    PROVE  HookEncrypts(table, col)
  <1> DEFINE g == GoEncrypt(table)
  <1>1. /\ table \in GoTables /\ col \in DOMAIN g.columnToField
        /\ g.columnToField[col] \in g.encrypted
    BY DEF GoEncrypts
  <1>2. g \in BuiltStructs /\ g.table = table
    BY <1>1, SpokenFor
  <1> HIDE DEF g
  <1>3. PICK k \in DOMAIN project.go : project.go[k].parses /\ g = BuildGormStruct(project.go[k].struct, k)
    BY <1>2 DEF BuiltStructs
  <1> DEFINE s == project.go[k].struct
             fields == CollectDBTaggedFields(s)
  <1>4. s.fields \in Seq(GormField)
    BY SourcesTyped DEF SqlTypeOK
  <1> HIDE DEF s, fields
  <1>5. fields \in Seq(TaggedField)
    BY <1>4, TaggedFields DEF fields
  <1>6. /\ g.table = ResolveStructTableName(s) /\ g.encrypted = EncryptedFields(s)
        /\ g.columnToField = ColumnToField(fields)
    <2>1. g = BuildGormStruct(s, k) /\ fields = CollectDBTaggedFields(s)
      BY <1>3 DEF s, fields
    <2> QED BY <1>4, <2>1, StructBuilt
  <1>7. PICK i \in DOMAIN fields : fields[i].col = col /\ g.columnToField[col] = fields[i].field
    BY <1>1, <1>5, <1>6, FieldOfColumn
  <1>8. fields[i] \in Range(fields) /\ fields[i].field \in EncryptedFields(s)
    BY <1>1, <1>6, <1>7 DEF Range
  <1> QED BY <1>2, <1>3, <1>6, <1>7, <1>8 DEF HookEncrypts, s, fields

\* A column that is there at the end, and whose statements can be told apart, is
\* not taken for dropped: a statement after the drop brings it back, in a later
\* file, and with ADD COLUMN.
LEMMA LiveNotDropped ==
    ASSUME project \in SqlSources, NEW f \in DOMAIN project.sql, NEW s \in Range(project.sql[f]),
           Unambiguous(s.col), Present(s.table, s.col)
    PROVE  ~DroppedLater(f, s.col)
  <1> SUFFICES ASSUME DroppedLater(f, s.col) PROVE FALSE
    OBVIOUS
  <1> DEFINE seqs == project.sql
             all == FlattenSeq(seqs)
             col == s.col
             drops == {k \in DOMAIN seqs : k > f /\ Mentions(k, "drop", col)}
             dropAt == CHOOSE k \in drops : \A j \in drops : k <= j
  <1>1. seqs \in Seq(Seq(Statement))
    BY SourcesTyped
  <1>2. drops # {} /\ \A k \in DOMAIN seqs : k > dropAt => ~Mentions(k, "add", col)
    BY DEF DroppedLater
  <1>3. Statements = all
    BY DEF Statements
  <1>4. /\ \A h \in DOMAIN seqs : \A j, k \in DOMAIN seqs[h] :
              seqs[h][j].col = col /\ seqs[h][k].col = col => j = k
        /\ \A x, y \in Range(all) : x.col = col /\ y.col = col => x.table = y.table
        /\ \A j, k \in DOMAIN all :
              j < k /\ all[j].col = col /\ all[j].op = "drop" => ~(all[k].col = col /\ all[k].op = "create")
    BY <1>3 DEF Unambiguous
  <1>5. PICK p \in DOMAIN all :
            /\ all[p].table = s.table /\ all[p].col = col /\ all[p].op # "drop"
            /\ \A j \in DOMAIN all : j > p => ~(all[j].table = s.table /\ all[j].col = col /\ all[j].op = "drop")
    BY <1>3 DEF Present
  <1>6. s \in Range(seqs[f]) /\ f \in DOMAIN seqs /\ s.col = col
    OBVIOUS
  <1>7. \A k, op : Mentions(k, op, col) <=> \E x \in Range(seqs[k]) : x.op = op /\ x.col = col
    BY DEF Mentions
  <1>8. dropAt \in drops
    <2>1. drops \in SUBSET DOMAIN seqs
      OBVIOUS
    <2> HIDE DEF drops, seqs
    <2>2. drops \in SUBSET Int /\ IsFiniteSet(drops)
      BY <1>1, <2>1, PickedIndices
    <2>3. \E k \in drops : \A j \in drops : k <= j
      BY <1>2, <2>2, LeastMember
    <2> QED BY <2>3
  <1>9. dropAt \in DOMAIN seqs /\ Mentions(dropAt, "drop", col)
    BY <1>8
  <1> HIDE DEF seqs, all, col, drops, dropAt
  <1>10. all \in Seq(Statement) /\ \E off : Pieces(all, off, seqs, Len(seqs))
    BY <1>1, FlattenPieces DEF all
  <1>11. PICK off : Pieces(all, off, seqs, Len(seqs))
    BY <1>10
  <1>12. /\ DOMAIN all = 1..Len(all) /\ DOMAIN seqs = 1..Len(seqs) /\ Len(all) \in Nat /\ Len(seqs) \in Nat
         /\ \A i \in 1..Len(seqs) : DOMAIN seqs[i] = 1..Len(seqs[i]) /\ Len(seqs[i]) \in Nat /\ off[i] \in Nat
    <2>1. DOMAIN all = 1..Len(all) /\ Len(all) \in Nat
      BY <1>10, Indexed
    <2>2. DOMAIN seqs = 1..Len(seqs) /\ Len(seqs) \in Nat /\ \A i \in 1..Len(seqs) : seqs[i] \in Seq(Statement)
      BY <1>1, Indexed
    <2>3. \A i \in 1..Len(seqs) : DOMAIN seqs[i] = 1..Len(seqs[i]) /\ Len(seqs[i]) \in Nat
      BY <2>2, Indexed
    <2>4. \A i \in 1..Len(seqs) : off[i] \in Nat
      BY <1>11 DEF Pieces
    <2> QED BY <2>1, <2>2, <2>3, <2>4
  <1>13. PICK jd \in 1..Len(seqs[dropAt]) : seqs[dropAt][jd].op = "drop" /\ seqs[dropAt][jd].col = col
    BY <1>7, <1>9, <1>12 DEF Range
  <1> DEFINE q == off[dropAt] + jd
  <1>14. q \in DOMAIN all /\ all[q] = seqs[dropAt][jd]
    BY <1>9, <1>11, <1>12, <1>13 DEF Pieces
  <1>15. PICK js \in 1..Len(seqs[f]) : seqs[f][js] = s
    BY <1>6, <1>12 DEF Range
  <1>16. off[f] + js \in DOMAIN all /\ all[off[f] + js] = s
    BY <1>6, <1>11, <1>12, <1>15 DEF Pieces
  <1>17. all[q].table = s.table
    <2>1. all[q] \in Range(all) /\ s \in Range(all)
      BY <1>14, <1>16 DEF Range
    <2> QED BY <1>4, <1>6, <1>13, <1>14, <2>1
  <1>18. PICK kp \in 1..Len(seqs) : \E j \in 1..Len(seqs[kp]) : p = off[kp] + j
    BY <1>5, <1>11, <1>12 DEF Pieces
  <1>19. PICK jp \in 1..Len(seqs[kp]) : p = off[kp] + jp
    BY <1>18
  <1>20. all[p] = seqs[kp][jp]
    BY <1>11, <1>19 DEF Pieces
  <1>21. ~(q > p)
    BY <1>5, <1>13, <1>14, <1>17
  <1>22. q # p
    BY <1>5, <1>13, <1>14
  <1>23. q < p
    BY <1>12, <1>14, <1>21, <1>22
  <1>24. kp # dropAt
    <2> SUFFICES ASSUME kp = dropAt PROVE FALSE
      OBVIOUS
    <2>1. seqs[dropAt][jp].col = col
      BY <1>5, <1>20
    <2>2. jp = jd
      BY <1>4, <1>9, <1>12, <1>13, <2>1
    <2> QED BY <1>19, <1>22, <2>2
  <1>25. kp > dropAt
    <2>1. kp < dropAt => off[kp] + Len(seqs[kp]) <= off[dropAt]
      BY <1>9, <1>11, <1>12 DEF Pieces
    <2>2. p \in Int /\ q \in Int /\ off[dropAt] \in Int /\ off[dropAt] < q
      <3>1. p \in 1..Len(all) /\ dropAt \in 1..Len(seqs) /\ jd \in Nat /\ jd > 0
        BY <1>5, <1>9, <1>12, <1>13
      <3>2. Len(all) \in Nat /\ off[dropAt] \in Nat
        BY <1>12, <3>1
      <3> QED BY <3>1, <3>2
    <2>3. p \in Int /\ kp \in Int /\ off[kp] \in Int /\ Len(seqs[kp]) \in Int /\ p <= off[kp] + Len(seqs[kp])
      <3>1. off[kp] \in Nat /\ Len(seqs[kp]) \in Nat /\ jp \in 1..Len(seqs[kp])
        BY <1>12, <1>19
      <3> QED BY <2>2, <3>1, <1>19
    <2> HIDE DEF q
    <2>4. ~(p <= off[dropAt])
      BY <1>23, <2>2
    <2>5. ~(kp < dropAt)
      BY <2>1, <2>2, <2>3, <2>4
    <2> QED BY <1>9, <1>12, <1>24, <2>5
  <1>26. all[p] \in Statement
    BY <1>5, <1>10
  <1>27. all[p].op = "create" \/ all[p].op = "add"
    BY <1>5, <1>26 DEF Statement
  <1>28. CASE all[p].op = "add"
    <2>1. seqs[kp][jp] \in Range(seqs[kp])
      BY <1>12 DEF Range
    <2>2. Mentions(kp, "add", col)
      BY <1>5, <1>7, <1>20, <1>28, <2>1
    <2> QED BY <1>2, <1>12, <1>25, <2>2
  <1>29. CASE all[p].op = "create"
    BY <1>4, <1>5, <1>13, <1>14, <1>23, <1>29
  <1> QED BY <1>27, <1>28, <1>29

\* What GoEncrypts says depends on the structs only.
LEMMA EncryptsStays ==
    ASSUME work'.structs = work.structs
    PROVE  \A t, col : GoEncrypts(t, col)' <=> GoEncrypts(t, col)
  BY DEF GoEncrypts, GoEncrypt, GoTables

\* The structs and their plaintext columns depend on the project only.
LEMMA BuiltStays ==
    ASSUME project' = project
    PROVE  BuiltStructs' = BuiltStructs /\ \A k : PlaintextStruct(k)' <=> PlaintextStruct(k)
  BY DEF BuiltStructs, PlaintextStruct

\* So do the drops.
LEMMA DroppedStays ==
    ASSUME project' = project
    PROVE  \A f, col : DroppedLater(f, col)' <=> DroppedLater(f, col)
  BY DEF DroppedLater, Mentions

\* Pass 1: the new findings are about columns, and the metas grow with them.
LEMMA SqlScanFileStep ==
    ASSUME SqlKept, SqlScanFile
    PROVE  SqlKept' /\ pc' = "start" /\ scanner' = "sql"
  <1> DEFINE n == work.next
             F == work.findings
             M == work.metas
             found == ScanSQLFile(project.sql[n], n)
             about == [k \in 1..Len(found) |-> MetaOf(found[k])]
             F2 == F \o found
             M2 == M \o about
  <1>1. /\ DOMAIN work = {"next", "findings", "metas", "sqlEnd", "structs", "types", "funcs"}
        /\ n \in Nat \ {0} /\ F \in Seq(SqlFinding) /\ M \in Seq(SqlMeta)
        /\ project \in SqlSources /\ work.structs \in Seq(BuiltStructs)
    BY DEF SqlKept, SqlTypeOK
  <1>2. /\ n <= Len(project.sql)
        /\ work' = [work EXCEPT !.next = n + 1, !.findings = F2, !.metas = M2]
        /\ pc = "start" /\ pc' = "start" /\ project' = project /\ scanner' = "sql"
    BY DEF SqlScanFile, Pass
  <1> HIDE DEF n, F, M, found, about, F2, M2
  <1>3. /\ DOMAIN work' = DOMAIN work /\ work'.next = n + 1 /\ work'.findings = F2 /\ work'.metas = M2
        /\ work'.structs = work.structs /\ work'.types = work.types /\ work'.sqlEnd = work.sqlEnd
    BY <1>1, <1>2
  <1>4. project.sql \in Seq(Seq(Statement))
    BY <1>1, SourcesTyped
  <1>5. n \in DOMAIN project.sql /\ project.sql[n] \in Seq(Statement) /\ DOMAIN project.sql = 1..Len(project.sql)
    BY <1>1, <1>2, <1>4
  <1>6. /\ found \in Seq(SqlFinding)
        /\ \A k \in DOMAIN found : found[k].rule \in SqlRules /\ found[k].hint = ""
        /\ \A s \in Range(project.sql[n]) : s.op # "drop" /\ s.col \in SensitiveKeywords =>
                \E k \in DOMAIN found : IsHighColumn(found[k], s, n)
    BY <1>1, <1>5, ScannedFile DEF found
  <1>7. Len(found) \in Nat /\ DOMAIN found = 1..Len(found) /\ \A k \in 1..Len(found) : found[k] \in SqlFinding
    BY <1>6, Indexed
  <1>8. about \in Seq(SqlMeta) /\ Len(about) = Len(found) /\ \A k \in 1..Len(found) : about[k] = MetaOf(found[k])
    <2>1. \A k \in 1..Len(found) : MetaOf(found[k]) \in SqlMeta
      BY <1>7 DEF MetaOf, SqlMeta, SqlFinding
    <2>2. about \in [1..Len(found) -> SqlMeta] /\ \A k \in 1..Len(found) : about[k] = MetaOf(found[k])
      BY <2>1 DEF about
    <2>3. about \in Seq(SqlMeta) /\ DOMAIN about = 1..Len(found)
      BY <1>7, <2>2, FunctionIsSequence
    <2>4. Len(about) \in Nat /\ DOMAIN about = 1..Len(about)
      BY <2>3, Indexed
    <2> QED BY <1>7, <2>2, <2>3, <2>4
  <1>9. /\ F2 \in Seq(SqlFinding) /\ Len(F2) = Len(F) + Len(found)
        /\ \A k \in DOMAIN F2 : (\E i \in DOMAIN F : F2[k] = F[i]) \/ (\E i \in DOMAIN found : F2[k] = found[i])
        /\ \A i \in DOMAIN F : i \in DOMAIN F2 /\ F2[i] = F[i]
        /\ \A i \in DOMAIN found : Len(F) + i \in DOMAIN F2 /\ F2[Len(F) + i] = found[i]
    <2>1. F \in Seq(SqlFinding) /\ found \in Seq(SqlFinding)
      BY <1>1, <1>6
    <2>2. F2 = F \o found
      BY DEF F2
    <2>3. F2 \in Seq(SqlFinding) /\ Appended(F2, F, found)
      BY <2>1, <2>2, JoinAppends
    <2> QED BY <2>3 DEF Appended
  <1>10. /\ M2 \in Seq(SqlMeta) /\ Len(M2) = Len(M) + Len(about)
         /\ \A i \in DOMAIN M : i \in DOMAIN M2 /\ M2[i] = M[i]
         /\ \A i \in DOMAIN about : Len(M) + i \in DOMAIN M2 /\ M2[Len(M) + i] = about[i]
    <2>1. M \in Seq(SqlMeta) /\ about \in Seq(SqlMeta)
      BY <1>1, <1>8
    <2>2. M2 = M \o about
      BY DEF M2
    <2>3. M2 \in Seq(SqlMeta) /\ Appended(M2, M, about)
      BY <2>1, <2>2, JoinAppends
    <2> QED BY <2>3 DEF Appended
  <1>11. Len(F) \in Nat /\ DOMAIN F = 1..Len(F) /\ Len(M) \in Nat /\ DOMAIN M = 1..Len(M)
    BY <1>1, Indexed
  <1>12. /\ Len(M) = Len(F)
         /\ \A i \in 1..Len(M) : M[i] = MetaOf(F[i]) /\ F[i].rule \in SqlRules
    BY <1>2 DEF SqlKept, SqlMetasAligned, M, F
  <1>13. SqlTypeOK'
    <2>1. work'.structs \in Seq(BuiltStructs')
      BY <1>1, <1>2, <1>3, BuiltStays
    <2> QED BY <1>1, <1>2, <1>3, <1>9, <1>10, <2>1 DEF SqlKept, SqlTypeOK
  <1>14. SqlMetasAligned'
    <2>1. Len(M2) = Len(F2)
      BY <1>8, <1>9, <1>10, <1>12
    <2>2. ASSUME NEW i \in 1..Len(M2) PROVE M2[i] = MetaOf(F2[i]) /\ F2[i].rule \in SqlRules
      <3>1. CASE i \in 1..Len(M)
        BY <1>9, <1>10, <1>11, <1>12, <3>1
      <3>2. CASE i \notin 1..Len(M)
        <4>1. PICK j \in 1..Len(found) : i = Len(M) + j
          <5>1. i - Len(M) \in 1..Len(found) /\ i = Len(M) + (i - Len(M))
            BY <1>7, <1>8, <1>10, <1>11, <3>2
          <5> QED BY <5>1
        <4>2. DOMAIN about = 1..Len(found)
          BY <1>8, Indexed
        <4>3. F2[i] = found[j] /\ M2[i] = about[j]
          BY <1>7, <1>9, <1>10, <1>12, <4>1, <4>2
        <4>4. about[j] = MetaOf(found[j]) /\ found[j].rule \in SqlRules
          BY <1>6, <1>7, <1>8
        <4> QED BY <4>3, <4>4
      <3> QED BY <3>1, <3>2
    <2>3. \A i \in 1..Len(M2) : M2[i] = MetaOf(F2[i]) /\ F2[i].rule \in SqlRules
      BY <2>2
    <2>4. Len(M2) <= Len(F2)
      BY <1>9, <2>1, Indexed
    <2> QED BY <1>3, <2>1, <2>3, <2>4 DEF SqlMetasAligned, MetaOf
  <1>15. SqlHooksFound'
    <2>1. \A i \in DOMAIN F : F[i].hint # "hook"
      BY <1>2 DEF SqlKept, SqlHooksFound, F
    <2>2. \A i \in DOMAIN F2 : F2[i].hint # "hook"
      BY <1>6, <1>9, <2>1
    <2> QED BY <1>3, <2>2 DEF SqlHooksFound
  <1>16. SqlTypesDeclared'
    BY <1>2, <1>3 DEF SqlKept, SqlTypesDeclared
  <1>17. SqlPlaintextKept'
    BY <1>2 DEF SqlPlaintextKept
  <1>18. SqlColumnsKept'
    <2> SUFFICES ASSUME NEW f \in DOMAIN project.sql, NEW s \in Range(project.sql[f]),
                        s.op # "drop", s.col \in SensitiveKeywords, f < n + 1
                 PROVE  \E i \in DOMAIN F2 : IsHighColumn(F2[i], s, f)
      BY <1>2, <1>3 DEF SqlColumnsKept, IsHighColumn
    <2>1. CASE f = n
      <3>1. PICK k \in DOMAIN found : IsHighColumn(found[k], s, n)
        BY <1>6, <2>1
      <3> QED BY <1>9, <2>1, <3>1
    <2>2. CASE f # n
      <3>1. f < n
        BY <1>1, <1>5, <2>2
      <3>2. \E i \in DOMAIN F : IsHighColumn(F[i], s, f)
        BY <1>2, <3>1 DEF SqlKept, SqlColumnsKept, F, n
      <3> QED BY <1>9, <3>2
    <2> QED BY <2>1, <2>2
  <1> QED BY <1>2, <1>13, <1>14, <1>15, <1>16, <1>17, <1>18 DEF SqlKept

\* Between pass 1 and pass 2: every file has been read.
LEMMA SqlFilesDoneStep ==
    ASSUME SqlKept, SqlFilesDone
    PROVE  SqlKept' /\ pc' = "go" /\ scanner' = "sql"
  <1>1. /\ DOMAIN work = {"next", "findings", "metas", "sqlEnd", "structs", "types", "funcs"}
        /\ project \in SqlSources /\ work.structs \in Seq(BuiltStructs)
    BY DEF SqlKept, SqlTypeOK
  <1>2. /\ work.next > Len(project.sql)
        /\ work' = [work EXCEPT !.next = 1, !.sqlEnd = Len(work.findings)]
        /\ pc = "start" /\ pc' = "go" /\ project' = project /\ scanner' = "sql"
    BY DEF SqlFilesDone, Pass
  <1>3. /\ DOMAIN work' = DOMAIN work /\ work'.next = 1 /\ work'.sqlEnd = Len(work.findings)
        /\ work'.findings = work.findings /\ work'.metas = work.metas
        /\ work'.structs = work.structs /\ work'.types = work.types
    BY <1>1, <1>2
  <1>4. SqlTypeOK'
    <2>1. work'.structs \in Seq(BuiltStructs')
      BY <1>1, <1>2, <1>3, BuiltStays
    <2>2. Len(work.findings) \in Int
      BY Indexed DEF SqlKept, SqlTypeOK
    <2> QED BY <1>1, <1>2, <1>3, <2>1, <2>2 DEF SqlKept, SqlTypeOK
  <1>5. SqlMetasAligned'
    BY <1>2, <1>3 DEF SqlKept, SqlMetasAligned, MetaOf
  <1>6. SqlHooksFound'
    BY <1>2, <1>3 DEF SqlKept, SqlHooksFound
  <1>7. SqlTypesDeclared'
    BY <1>2, <1>3 DEF SqlKept, SqlTypesDeclared
  <1>8. SqlPlaintextKept'
    <2>1. DOMAIN project.go = 1..Len(project.go) /\ Len(project.go) \in Nat
      BY <1>1, SourcesTyped, Indexed
    <2>2. \A k \in DOMAIN project.go : ~(k < 1)
      BY <2>1
    <2> QED BY <1>2, <1>3, <2>2 DEF SqlPlaintextKept
  <1>9. SqlColumnsKept'
    <2>1. DOMAIN project.sql = 1..Len(project.sql) /\ Len(project.sql) \in Nat
      BY <1>1, SourcesTyped, Indexed
    <2>2. \A f \in DOMAIN project.sql : f < work.next
      BY <1>2, <2>1 DEF SqlKept, SqlTypeOK
    <2> SUFFICES ASSUME NEW f \in DOMAIN project.sql, NEW s \in Range(project.sql[f]),
                        s.op # "drop", s.col \in SensitiveKeywords
                 PROVE  \E i \in DOMAIN work.findings : IsHighColumn(work.findings[i], s, f)
      BY <1>2, <1>3 DEF SqlColumnsKept, IsHighColumn
    <2> QED BY <1>2, <2>2 DEF SqlKept, SqlColumnsKept
  <1> QED BY <1>2, <1>4, <1>5, <1>6, <1>7, <1>8, <1>9 DEF SqlKept

\* Pass 2 on a struct that stores a keyword column in clear: it is kept, and
\* its finding is there.
LEMMA PlaintextFound ==
    ASSUME project \in SqlSources, NEW k \in DOMAIN project.go, PlaintextStruct(k),
           NEW built, built = BuildGormStruct(project.go[k].struct, k)
    PROVE  built.tags # <<>> /\ ~built.hasHook
  <1> DEFINE s == project.go[k].struct
             fields == CollectDBTaggedFields(s)
  <1>1. /\ EncryptedFields(s) = {}
        /\ \E t \in Range(fields) : t.col \in SensitiveKeywords
    BY DEF PlaintextStruct
  <1>2. s.fields \in Seq(GormField)
    BY SourcesTyped
  <1>3. built = BuildGormStruct(s, k) /\ fields = CollectDBTaggedFields(s)
    OBVIOUS
  <1> HIDE DEF s, fields
  <1>4. /\ built.hasHook = (EncryptedFields(s) # {})
        /\ built.tags \in Seq(TaggedField)
        /\ \A i \in DOMAIN fields : fields[i].col \in SensitiveKeywords =>
                \E j \in DOMAIN built.tags : built.tags[j] = fields[i]
    BY <1>2, <1>3, StructBuilt
  <1>5. PICK i \in DOMAIN fields : fields[i].col \in SensitiveKeywords
    BY <1>1 DEF Range
  <1>6. PICK j \in DOMAIN built.tags : built.tags[j] = fields[i]
    BY <1>4, <1>5
  <1>7. built.tags # <<>>
    BY <1>4, <1>6
  <1> QED BY <1>1, <1>4, <1>7

\* Pass 2 reads file n: the struct built from it, the structs kept, the findings.
GoRead(n, built, kept, new) ==
    /\ built = BuildGormStruct(project.go[n].struct, n)
    /\ kept = IF project.go[n].parses /\ built.tags # <<>> THEN <<built>> ELSE <<>>
    /\ new = IF kept = <<>> THEN <<>> ELSE GormFindings(built)

\* A struct is kept with its findings, and one in clear is.
GoTaken(n, built, kept, new) ==
    /\ kept \in Seq(BuiltStructs)
    /\ new \in Seq(SqlFinding) /\ \A k \in DOMAIN new : new[k].hint = ""
    /\ PlaintextStruct(n) =>
          /\ \E i \in DOMAIN kept : kept[i] = built
          /\ \E i \in DOMAIN new : /\ new[i].rule = "GORM-NO-ENCRYPT-HOOK"
                                   /\ new[i].file = n /\ new[i].sev = "HIGH"

\* What pass 2 takes from one Go file.
LEMMA GoFileRead ==
    ASSUME project \in SqlSources, NEW n \in DOMAIN project.go,
           NEW built, NEW kept, NEW new, GoRead(n, built, kept, new)
    PROVE  GoTaken(n, built, kept, new)
  <1> USE DEF GoRead, GoTaken
  <1>1. /\ {project.go[n].struct.name, project.go[n].struct.method, project.go[n].struct.const} \subseteq STRING
        /\ project.go[n].struct.fields \in Seq(GormField)
        /\ n \in Nat
    <2>1. project.go \in Seq(Range(project.go))
      BY SourcesTyped
    <2>2. DOMAIN project.go = 1..Len(project.go) /\ Len(project.go) \in Nat
      BY <2>1, Indexed
    <2> QED BY <2>2, SourcesTyped
  <1>2. built.file = n /\ built.table = ResolveStructTableName(project.go[n].struct) /\ built.tags \in Seq(TaggedField)
    BY <1>1, StructBuilt
  <1>3. built.table \in STRING \cup {""}
    BY <1>1, <1>2, TableNamed
  <1>4. /\ GormFindings(built) \in Seq(SqlFinding)
        /\ \A k \in DOMAIN GormFindings(built) : GormFindings(built)[k].hint = ""
        /\ ~built.hasHook => \E k \in DOMAIN GormFindings(built) :
                /\ GormFindings(built)[k].rule = "GORM-NO-ENCRYPT-HOOK"
                /\ GormFindings(built)[k].file = n /\ GormFindings(built)[k].sev = "HIGH"
    BY <1>1, <1>2, <1>3, GormFindingsAre
  <1>5. CASE project.go[n].parses /\ built.tags # <<>>
    <2>1. kept = <<built>>
      BY <1>5
    <2>2. built \in BuiltStructs
      BY <1>5 DEF BuiltStructs
    <2>3. kept \in Seq(BuiltStructs) /\ 1 \in DOMAIN kept /\ kept[1] = built
      BY <2>1, <2>2, Single
    <2>4. kept # <<>>
      BY <2>1
    <2>5. new = GormFindings(built)
      BY <2>4
    <2>6. PlaintextStruct(n) => ~built.hasHook
      BY PlaintextFound
    <2> QED BY <1>4, <2>3, <2>5, <2>6
  <1>6. CASE ~(project.go[n].parses /\ built.tags # <<>>)
    <2>1. kept = <<>>
      BY <1>6
    <2>2. new = <<>>
      BY <2>1
    <2>3. ~PlaintextStruct(n)
      BY <1>6, PlaintextFound DEF PlaintextStruct
    <2>4. kept \in Seq(BuiltStructs) /\ new \in Seq(SqlFinding) /\ DOMAIN new = {}
      BY <2>1, <2>2, Nothing
    <2> QED BY <2>3, <2>4
  <1> QED BY <1>5, <1>6

\* Pass 2: the structs and types come from the files read so far.
LEMMA SqlScanGoFileStep ==
    ASSUME SqlKept, SqlScanGoFile
    PROVE  SqlKept' /\ pc' = "go" /\ scanner' = "sql"
  <1> DEFINE n == work.next
             F == work.findings
             S == work.structs
             file == project.go[n]
             built == BuildGormStruct(file.struct, n)
             kept == IF file.parses /\ built.tags # <<>> THEN <<built>> ELSE <<>>
             new == IF kept = <<>> THEN <<>> ELSE GormFindings(built)
             F2 == F \o new
             S2 == S \o kept
             types == IF file.parses THEN Overwrite(work.types, BuildVerifiedTypeMap(file)) ELSE work.types
             funcs == IF file.parses THEN Overwrite(work.funcs, CollectPkgFuncEntries(file)) ELSE work.funcs
  <1>1. /\ DOMAIN work = {"next", "findings", "metas", "sqlEnd", "structs", "types", "funcs"}
        /\ n \in Nat \ {0} /\ F \in Seq(SqlFinding) /\ S \in Seq(BuiltStructs)
        /\ project \in SqlSources
    BY DEF SqlKept, SqlTypeOK
  <1>2. /\ n <= Len(project.go)
        /\ work' = [work EXCEPT !.next = n + 1, !.findings = F2, !.structs = S2,
                                !.types = types, !.funcs = funcs]
        /\ pc = "go" /\ pc' = "go" /\ project' = project /\ scanner' = "sql"
    BY DEF SqlScanGoFile, Pass
  <1>3. n \in DOMAIN project.go
    <2>1. DOMAIN project.go = 1..Len(project.go) /\ Len(project.go) \in Nat
      BY <1>1, SourcesTyped, Indexed
    <2> QED BY <1>1, <1>2, <2>1
  <1>4. /\ kept \in Seq(BuiltStructs)
        /\ new \in Seq(SqlFinding) /\ \A k \in DOMAIN new : new[k].hint = ""
        /\ PlaintextStruct(n) =>
             /\ \E i \in DOMAIN kept : kept[i] = built
             /\ \E i \in DOMAIN new : /\ new[i].rule = "GORM-NO-ENCRYPT-HOOK"
                                      /\ new[i].file = n /\ new[i].sev = "HIGH"
    <2>1. GoRead(n, built, kept, new)
      BY DEF GoRead
    <2> HIDE DEF n, built, kept, new
    <2>2. GoTaken(n, built, kept, new)
      BY <1>1, <1>3, <2>1, GoFileRead
    <2> QED BY <2>2 DEF GoTaken
  <1>5. \A t \in DOMAIN types : t \in DOMAIN work.types
            \/ (file.parses /\ \E d \in Range(file.decls) : d.recv = t)
    BY DEF Overwrite, BuildVerifiedTypeMap, Range
  <1>6. F2 = F \o new /\ S2 = S \o kept /\ built = BuildGormStruct(project.go[n].struct, n) /\ file = project.go[n]
    OBVIOUS
  <1> HIDE DEF n, F, S, built, kept, new, F2, S2, types, funcs, file
  <1>7. /\ DOMAIN work' = DOMAIN work /\ work'.next = n + 1 /\ work'.findings = F2 /\ work'.metas = work.metas
        /\ work'.structs = S2 /\ work'.types = types /\ work'.sqlEnd = work.sqlEnd
    BY <1>1, <1>2
  <1>8. /\ F2 \in Seq(SqlFinding) /\ Len(F2) = Len(F) + Len(new)
        /\ \A k \in DOMAIN F2 : (\E i \in DOMAIN F : F2[k] = F[i]) \/ (\E i \in DOMAIN new : F2[k] = new[i])
        /\ \A i \in DOMAIN F : i \in DOMAIN F2 /\ F2[i] = F[i]
        /\ \A i \in DOMAIN new : \E k \in DOMAIN F2 : F2[k] = new[i]
    <2>1. F2 \in Seq(SqlFinding) /\ Appended(F2, F, new)
      BY <1>1, <1>4, <1>6, JoinAppends
    <2> QED BY <2>1 DEF Appended
  <1>9. /\ S2 \in Seq(BuiltStructs)
        /\ \A i \in DOMAIN S : \E k \in DOMAIN S2 : S2[k] = S[i]
        /\ \A i \in DOMAIN kept : \E k \in DOMAIN S2 : S2[k] = kept[i]
    <2>1. S2 \in Seq(BuiltStructs) /\ Appended(S2, S, kept)
      BY <1>1, <1>4, <1>6, JoinAppends
    <2> QED BY <2>1 DEF Appended
  <1>10. Len(F) \in Nat /\ DOMAIN F = 1..Len(F) /\ Len(new) \in Nat
    BY <1>1, <1>4, Indexed
  <1>11. SqlTypeOK'
    <2>1. S2 \in Seq(BuiltStructs')
      BY <1>2, <1>9, BuiltStays
    <2> QED BY <1>1, <1>2, <1>7, <1>8, <2>1 DEF SqlKept, SqlTypeOK
  <1>12. SqlMetasAligned'
    <2>1. Len(work.metas) \in Nat /\ Len(work.metas) <= Len(F)
          /\ \A i \in 1..Len(work.metas) : work.metas[i] = MetaOf(F[i]) /\ F[i].rule \in SqlRules
      <3>1. work.metas \in Seq(SqlMeta)
        BY DEF SqlKept, SqlTypeOK
      <3> QED BY <3>1, Indexed DEF SqlKept, SqlMetasAligned, F
    <2>2. Len(work.metas) <= Len(F2) /\ \A i \in 1..Len(work.metas) : F2[i] = F[i]
      BY <1>8, <1>10, <2>1
    <2> QED BY <1>2, <1>7, <2>1, <2>2 DEF SqlMetasAligned, MetaOf
  <1>13. SqlHooksFound'
    <2>1. \A i \in DOMAIN F : F[i].hint # "hook"
      BY <1>2 DEF SqlKept, SqlHooksFound, F
    <2>2. \A i \in DOMAIN F2 : F2[i].hint # "hook"
      BY <1>4, <1>8, <2>1
    <2> QED BY <1>7, <2>2 DEF SqlHooksFound
  <1>14. SqlTypesDeclared'
    <2> SUFFICES ASSUME NEW t \in DOMAIN types
                 PROVE  \E g \in Range(project.go) : \E d \in Range(g.decls) : g.parses /\ d.recv = t
      BY <1>2, <1>7 DEF SqlTypesDeclared
    <2>1. file \in Range(project.go)
      BY <1>3, <1>6 DEF Range
    <2> QED BY <1>5, <2>1 DEF SqlKept, SqlTypesDeclared
  <1>15. SqlPlaintextKept'
    <2> SUFFICES ASSUME NEW k \in DOMAIN project.go, PlaintextStruct(k), k < n + 1
                 PROVE  /\ \E i \in DOMAIN S2 : S2[i] = BuildGormStruct(project.go[k].struct, k)
                        /\ \E i \in DOMAIN F2 :
                              /\ F2[i].rule = "GORM-NO-ENCRYPT-HOOK"
                              /\ F2[i].file = k /\ F2[i].sev = "HIGH"
      BY <1>2, <1>7, BuiltStays DEF SqlPlaintextKept, Range
    <2>1. CASE k = n
      <3>1. PICK i \in DOMAIN new : /\ new[i].rule = "GORM-NO-ENCRYPT-HOOK"
                                    /\ new[i].file = n /\ new[i].sev = "HIGH"
        BY <1>4, <2>1
      <3>2. PICK j \in DOMAIN kept : kept[j] = built
        BY <1>4, <2>1
      <3>3. PICK h \in DOMAIN F2 : F2[h] = new[i]
        BY <1>8
      <3>4. PICK l \in DOMAIN S2 : S2[l] = kept[j]
        BY <1>9
      <3>5. S2[l] = BuildGormStruct(project.go[k].struct, k)
        BY <1>6, <2>1, <3>2, <3>4
      <3>6. F2[h].rule = "GORM-NO-ENCRYPT-HOOK" /\ F2[h].file = k /\ F2[h].sev = "HIGH"
        BY <2>1, <3>1, <3>3
      <3> QED BY <3>5, <3>6
    <2>2. CASE k # n
      <3>1. k < n
        <4>1. k \in Nat
          <5>1. DOMAIN project.go = 1..Len(project.go)
            BY <1>1, SourcesTyped, Indexed
          <5> QED BY <5>1
        <4> QED BY <1>1, <2>2, <4>1
      <3>2. /\ BuildGormStruct(project.go[k].struct, k) \in Range(S)
            /\ \E i \in DOMAIN F : /\ F[i].rule = "GORM-NO-ENCRYPT-HOOK"
                                   /\ F[i].file = k /\ F[i].sev = "HIGH"
        BY <1>2, <3>1 DEF SqlKept, SqlPlaintextKept, F, S, n
      <3>3. PICK j \in DOMAIN S : S[j] = BuildGormStruct(project.go[k].struct, k)
        BY <3>2 DEF Range
      <3>4. PICK l \in DOMAIN S2 : S2[l] = S[j]
        BY <1>9
      <3>5. \E h \in DOMAIN F2 : F2[h].rule = "GORM-NO-ENCRYPT-HOOK" /\ F2[h].file = k /\ F2[h].sev = "HIGH"
        BY <1>8, <3>2
      <3> QED BY <3>3, <3>4, <3>5
    <2> QED BY <2>1, <2>2
  <1>16. SqlColumnsKept'
    <2> SUFFICES ASSUME NEW f \in DOMAIN project.sql, NEW s \in Range(project.sql[f]),
                        s.op # "drop", s.col \in SensitiveKeywords
                 PROVE  \E i \in DOMAIN F2 : IsHighColumn(F2[i], s, f)
      BY <1>2, <1>7 DEF SqlColumnsKept, IsHighColumn
    <2>1. \E i \in DOMAIN F : IsHighColumn(F[i], s, f)
      BY <1>2 DEF SqlKept, SqlColumnsKept, F
    <2> QED BY <1>8, <2>1
  <1> QED BY <1>2, <1>11, <1>12, <1>13, <1>14, <1>15, <1>16 DEF SqlKept

\* After the last Go file.
LEMMA SqlGoFilesDoneStep ==
    ASSUME SqlKept, SqlGoFilesDone
    PROVE  SqlKept' /\ pc' = "verify" /\ scanner' = "sql"
  <1>1. project \in SqlSources /\ work.structs \in Seq(BuiltStructs) /\ work.next \in Nat
    BY DEF SqlKept, SqlTypeOK
  <1>2. /\ work.next > Len(project.go) /\ work' = work
        /\ pc = "go" /\ pc' = "verify" /\ project' = project /\ scanner' = "sql"
    BY DEF SqlGoFilesDone, Pass
  <1>3. SqlTypeOK'
    <2>1. work.structs \in Seq(BuiltStructs')
      BY <1>1, <1>2, BuiltStays
    <2> QED BY <1>1, <1>2, <2>1 DEF SqlKept, SqlTypeOK
  <1>4. SqlMetasAligned'
    BY <1>2 DEF SqlKept, SqlMetasAligned, MetaOf
  <1>5. SqlHooksFound'
    BY <1>2 DEF SqlKept, SqlHooksFound
  <1>6. SqlTypesDeclared'
    BY <1>2 DEF SqlKept, SqlTypesDeclared
  <1>7. SqlPlaintextKept'
    <2>1. DOMAIN project.go = 1..Len(project.go) /\ Len(project.go) \in Nat
      BY <1>1, SourcesTyped, Indexed
    <2>2. \A k \in DOMAIN project.go : k < work.next
      BY <1>1, <1>2, <2>1
    <2> QED BY <1>2, <2>2, BuiltStays DEF SqlKept, SqlPlaintextKept
  <1>8. SqlColumnsKept'
    BY <1>2 DEF SqlKept, SqlColumnsKept, IsHighColumn
  <1> QED BY <1>2, <1>3, <1>4, <1>5, <1>6, <1>7, <1>8 DEF SqlKept

\* No field of a struct in clear has a verified type.
LEMMA PlaintextUnverified ==
    ASSUME SqlKept, NEW k \in DOMAIN project.go, PlaintextStruct(k),
           BuildGormStruct(project.go[k].struct, k) \in Range(work.structs)
    PROVE  VerifiedFields(StructAt(k)) = {}
  <1> DEFINE s == project.go[k].struct
             fields == CollectDBTaggedFields(s)
             g == StructAt(k)
  <1>1. project \in SqlSources /\ work.structs \in Seq(BuiltStructs)
    BY DEF SqlKept, SqlTypeOK
  <1>2. s.fields \in Seq(GormField)
    BY <1>1, SourcesTyped
  <1>3. \A j \in DOMAIN project.go : BuildGormStruct(project.go[j].struct, j).file = j
    BY DEF BuildGormStruct
  <1>4. g \in Range(work.structs) /\ g.file = k
    BY <1>3 DEF StructAt
  <1>5. g \in BuiltStructs
    BY <1>1, <1>4 DEF Range
  <1>6. PICK j \in DOMAIN project.go : g = BuildGormStruct(project.go[j].struct, j)
    BY <1>5 DEF BuiltStructs
  <1>7. g = BuildGormStruct(s, k)
    BY <1>3, <1>4, <1>6
  <1>8. fields = CollectDBTaggedFields(s)
    OBVIOUS
  <1>9. \A t \in Range(s.fields), f \in Range(project.go) :
            \A d \in Range(f.decls) : ~(f.parses /\ d.recv = t.type)
    BY DEF PlaintextStruct
  <1> HIDE DEF s, fields, g
  <1>10. \A i \in DOMAIN g.tags : \E j2 \in DOMAIN fields : g.tags[i] = fields[j2]
    BY <1>2, <1>7, <1>8, StructBuilt
  <1>11. \A i \in DOMAIN fields : \E j2 \in DOMAIN s.fields : fields[i].type = s.fields[j2].type
    BY <1>2, <1>8, TaggedFields
  <1>12. ASSUME NEW i \in DOMAIN g.tags, g.tags[i].type \in DOMAIN work.types PROVE FALSE
    <2>1. PICK a \in DOMAIN fields : g.tags[i] = fields[a]
      BY <1>10
    <2>2. PICK b \in DOMAIN s.fields : fields[a].type = s.fields[b].type
      BY <1>11
    <2>3. s.fields[b] \in Range(s.fields) /\ s.fields[b].type = g.tags[i].type
      BY <2>1, <2>2 DEF Range
    <2>4. PICK f \in Range(project.go) : \E d \in Range(f.decls) : f.parses /\ d.recv = g.tags[i].type
      BY <1>12 DEF SqlKept, SqlTypesDeclared
    <2> QED BY <1>9, <2>3, <2>4
  <1>13. VerifiedFields(g) = {}
    BY <1>12 DEF VerifiedFields
  <1> QED BY <1>13 DEF g

\* Pass 2b leaves the findings about migrations alone, and those of structs
\* without a verified type.
LEMMA ApplyVerifiedTypeFixupStep ==
    ASSUME SqlKept, ApplyVerifiedTypeFixup
    PROVE  SqlKept' /\ pc' = "xref" /\ scanner' = "sql"
  <1> DEFINE F == work.findings
             fix(f) == CASE f.rule = "GORM-NO-ENCRYPT-HOOK" /\ VerifiedFields(StructAt(f.file)) # {} ->
                              [f EXCEPT !.rule = "GORM-ENCRYPT-OK", !.sev = "INFO", !.hint = "type"]
                        [] f.rule = "GORM-SENSITIVE-TAG" /\ f.col \in VerifiedFields(StructAt(f.file)) ->
                              [f EXCEPT !.sev = "INFO", !.hint = "type"]
                        [] OTHER -> f
             F2 == [k \in DOMAIN F |-> fix(F[k])]
  <1>1. /\ DOMAIN work = {"next", "findings", "metas", "sqlEnd", "structs", "types", "funcs"}
        /\ F \in Seq(SqlFinding) /\ work.metas \in Seq(SqlMeta)
        /\ project \in SqlSources /\ work.structs \in Seq(BuiltStructs)
    BY DEF SqlKept, SqlTypeOK
  <1>2. /\ work' = [work EXCEPT !.findings = F2]
        /\ pc = "verify" /\ pc' = "xref" /\ project' = project /\ scanner' = "sql"
    BY DEF ApplyVerifiedTypeFixup, Pass
  <1>3. ASSUME NEW f \in SqlFinding
        PROVE  /\ fix(f) \in SqlFinding
               /\ fix(f).hint = "hook" => f.hint = "hook"
               /\ f.rule \in SqlRules => fix(f) = f
               /\ f.rule = "GORM-NO-ENCRYPT-HOOK" /\ VerifiedFields(StructAt(f.file)) = {} => fix(f) = f
    <2>1. CASE f.rule = "GORM-NO-ENCRYPT-HOOK" /\ VerifiedFields(StructAt(f.file)) # {}
      <3>1. fix(f) = [f EXCEPT !.rule = "GORM-ENCRYPT-OK", !.sev = "INFO", !.hint = "type"]
        BY <2>1
      <3> HIDE DEF fix
      <3> QED BY <2>1, <3>1 DEF SqlFinding, SqlRules
    <2>2. CASE f.rule = "GORM-SENSITIVE-TAG" /\ f.col \in VerifiedFields(StructAt(f.file))
      <3>1. fix(f) = [f EXCEPT !.sev = "INFO", !.hint = "type"]
        BY <2>2
      <3> HIDE DEF fix
      <3> QED BY <2>2, <3>1 DEF SqlFinding, SqlRules
    <2>3. CASE /\ ~(f.rule = "GORM-NO-ENCRYPT-HOOK" /\ VerifiedFields(StructAt(f.file)) # {})
               /\ ~(f.rule = "GORM-SENSITIVE-TAG" /\ f.col \in VerifiedFields(StructAt(f.file)))
      <3>1. fix(f) = f
        BY <2>3
      <3> HIDE DEF fix
      <3> QED BY <3>1
    <2> QED BY <2>1, <2>2, <2>3
  <1> HIDE DEF fix, F
  <1>4. Len(F) \in Nat /\ DOMAIN F = 1..Len(F) /\ \A k \in 1..Len(F) : F[k] \in SqlFinding
    BY <1>1, Indexed
  <1>5. F2 \in [1..Len(F) -> SqlFinding] /\ DOMAIN F2 = DOMAIN F /\ \A k \in 1..Len(F) : F2[k] = fix(F[k])
    BY <1>3, <1>4
  <1> HIDE DEF F2
  <1>6. F2 \in Seq(SqlFinding) /\ Len(F2) = Len(F)
    <2>1. F2 \in Seq(SqlFinding)
      BY <1>4, <1>5, FunctionIsSequence
    <2>2. DOMAIN F2 = 1..Len(F2) /\ Len(F2) \in Nat
      BY <2>1, Indexed
    <2> QED BY <1>4, <1>5, <2>1, <2>2
  <1>7. /\ DOMAIN work' = DOMAIN work /\ work'.next = work.next /\ work'.findings = F2
        /\ work'.metas = work.metas /\ work'.structs = work.structs /\ work'.types = work.types
        /\ work'.sqlEnd = work.sqlEnd
    BY <1>1, <1>2
  <1>8. SqlTypeOK'
    <2>1. work.structs \in Seq(BuiltStructs')
      BY <1>1, <1>2, BuiltStays
    <2> QED BY <1>1, <1>2, <1>6, <1>7, <2>1 DEF SqlKept, SqlTypeOK
  <1>9. \A i \in DOMAIN F : F[i].rule \in SqlRules => F2[i] = F[i]
    BY <1>3, <1>4, <1>5
  <1>10. SqlMetasAligned'
    <2>1. Len(work.metas) <= Len(F) /\ Len(work.metas) \in Nat
          /\ \A i \in 1..Len(work.metas) : work.metas[i] = MetaOf(F[i]) /\ F[i].rule \in SqlRules
      BY <1>1, Indexed DEF SqlKept, SqlMetasAligned, F
    <2>2. \A i \in 1..Len(work.metas) : F2[i] = F[i]
      BY <1>4, <1>9, <2>1
    <2> QED BY <1>2, <1>6, <1>7, <2>1, <2>2 DEF SqlMetasAligned, MetaOf
  <1>11. SqlHooksFound'
    <2>1. \A i \in DOMAIN F : F[i].hint # "hook"
      BY <1>2 DEF SqlKept, SqlHooksFound, F
    <2>2. \A i \in DOMAIN F2 : F2[i].hint # "hook"
      BY <1>3, <1>4, <1>5, <2>1
    <2> QED BY <1>7, <2>2 DEF SqlHooksFound
  <1>12. SqlTypesDeclared'
    BY <1>2, <1>7 DEF SqlKept, SqlTypesDeclared
  <1>13. SqlPlaintextKept'
    <2> SUFFICES ASSUME NEW k \in DOMAIN project.go, PlaintextStruct(k)
                 PROVE  /\ BuildGormStruct(project.go[k].struct, k) \in Range(work.structs)
                        /\ \E i \in DOMAIN F2 : /\ F2[i].rule = "GORM-NO-ENCRYPT-HOOK"
                                                /\ F2[i].file = k /\ F2[i].sev = "HIGH"
      BY <1>2, <1>7, BuiltStays DEF SqlPlaintextKept
    <2>1. /\ BuildGormStruct(project.go[k].struct, k) \in Range(work.structs)
          /\ \E i \in DOMAIN F : /\ F[i].rule = "GORM-NO-ENCRYPT-HOOK"
                                 /\ F[i].file = k /\ F[i].sev = "HIGH"
      BY <1>2 DEF SqlKept, SqlPlaintextKept, F
    <2>2. PICK i \in DOMAIN F : /\ F[i].rule = "GORM-NO-ENCRYPT-HOOK"
                                /\ F[i].file = k /\ F[i].sev = "HIGH"
      BY <2>1
    <2>3. VerifiedFields(StructAt(k)) = {}
      BY <2>1, PlaintextUnverified
    <2>4. F2[i] = F[i]
      BY <1>3, <1>4, <1>5, <2>2, <2>3
    <2> QED BY <1>5, <2>1, <2>2, <2>4
  <1>14. SqlColumnsKept'
    <2> SUFFICES ASSUME NEW f \in DOMAIN project.sql, NEW s \in Range(project.sql[f]),
                        s.op # "drop", s.col \in SensitiveKeywords
                 PROVE  \E i \in DOMAIN F2 : IsHighColumn(F2[i], s, f)
      BY <1>2, <1>7 DEF SqlColumnsKept, IsHighColumn
    <2>1. PICK i \in DOMAIN F : IsHighColumn(F[i], s, f)
      BY <1>2 DEF SqlKept, SqlColumnsKept, F
    <2>2. F[i].rule \in SqlRules
      BY <2>1 DEF IsHighColumn, SqlRules
    <2> QED BY <1>5, <1>9, <2>1, <2>2
  <1> QED BY <1>2, <1>8, <1>10, <1>11, <1>12, <1>13, <1>14 DEF SqlKept

\* Pass 3 removes the same positions from findings and metas, and excuses only
\* what a struct encrypts.
LEMMA CrossRefStep ==
    ASSUME SqlKept, CrossRefSQLWithGoEncryption
    PROVE  SqlKept' /\ pc' = "drop" /\ scanner' = "sql"
  <1> DEFINE F == work.findings
             M == work.metas
             walked == 1..(IF Len(M) < work.sqlEnd THEN Len(M) ELSE work.sqlEnd)
             cut == {i \in walked : /\ F[i].rule = "SQL-SENSITIVE-COLUMN"
                                    /\ M[i].col \in SqlExpiryColumns
                                    /\ WithPANEncrypt(M[i].table)}
             after == [i \in DOMAIN F |->
                         IF i \in walked \ cut /\ GoEncrypts(M[i].table, M[i].col)
                         THEN [F[i] EXCEPT !.sev = "INFO", !.hint = "hook"]
                         ELSE F[i]]
             F2 == Pruned(after, cut)
             M2 == Pruned(M, cut)
  <1>1. /\ DOMAIN work = {"next", "findings", "metas", "sqlEnd", "structs", "types", "funcs"}
        /\ F \in Seq(SqlFinding) /\ M \in Seq(SqlMeta) /\ work.sqlEnd \in Int
        /\ project \in SqlSources /\ work.structs \in Seq(BuiltStructs)
    BY DEF SqlKept, SqlTypeOK
  <1>2. /\ work' = [work EXCEPT !.findings = F2, !.metas = M2, !.sqlEnd = @ - Cardinality(cut)]
        /\ pc = "xref" /\ pc' = "drop" /\ project' = project /\ scanner' = "sql"
    BY DEF CrossRefSQLWithGoEncryption, Pass, PrunedMetas
  <1>3. /\ Len(F) \in Nat /\ DOMAIN F = 1..Len(F) /\ \A k \in 1..Len(F) : F[k] \in SqlFinding
        /\ Len(M) \in Nat
    BY <1>1, Indexed
  <1>4. /\ Len(M) <= Len(F)
        /\ \A i \in 1..Len(M) : M[i] = MetaOf(F[i]) /\ F[i].rule \in SqlRules
    BY DEF SqlKept, SqlMetasAligned
  <1>5. walked \subseteq 1..Len(M)
    BY <1>1, <1>3
  <1>6. cut \in SUBSET (1..Len(M))
    BY <1>5
  <1>7. \A i \in cut : M[i].col \in SqlExpiryColumns
    OBVIOUS
  <1>8. Cardinality(cut) \in Nat
    <2>1. IsFiniteSet(1..Len(M))
      BY <1>3, FS_Interval
    <2> HIDE DEF cut
    <2>2. IsFiniteSet(cut)
      BY <1>6, <2>1, FS_Subset
    <2> QED BY <2>2, FS_CardinalityType
  <1> HIDE DEF F, M, walked, cut
  <1>9. ASSUME NEW i \in DOMAIN F
        PROVE  /\ after[i] \in SqlFinding
               /\ MetaOf(after[i]) = MetaOf(F[i]) /\ after[i].rule = F[i].rule
               /\ after[i] = F[i] \/ (/\ i \in 1..Len(M) /\ GoEncrypts(M[i].table, M[i].col))
    <2>1. F[i] \in SqlFinding
      BY <1>3
    <2>2. CASE i \in walked \ cut /\ GoEncrypts(M[i].table, M[i].col)
      <3>1. after[i] = [F[i] EXCEPT !.sev = "INFO", !.hint = "hook"]
        BY <2>2
      <3> HIDE DEF after
      <3>2. after[i] \in SqlFinding /\ after[i].rule = F[i].rule /\ after[i].table = F[i].table /\ after[i].col = F[i].col
        BY <2>1, <3>1 DEF SqlFinding
      <3>3. i \in 1..Len(M)
        BY <1>5, <2>2
      <3> QED BY <2>2, <3>2, <3>3 DEF MetaOf
    <2>3. CASE ~(i \in walked \ cut /\ GoEncrypts(M[i].table, M[i].col))
      <3>1. after[i] = F[i]
        BY <2>3
      <3> HIDE DEF after
      <3> QED BY <2>1, <3>1
    <2> QED BY <2>2, <2>3
  <1>10. after \in [1..Len(F) -> SqlFinding] /\ DOMAIN after = DOMAIN F
    <2>1. DOMAIN after = DOMAIN F /\ after = [i \in DOMAIN F |-> after[i]]
      OBVIOUS
    <2> HIDE DEF after
    <2> QED BY <1>3, <1>9, <2>1
  <1> HIDE DEF after
  <1>11. after \in Seq(SqlFinding) /\ Len(after) = Len(F)
    <2>1. after \in Seq(SqlFinding)
      BY <1>3, <1>10, FunctionIsSequence
    <2>2. DOMAIN after = 1..Len(after) /\ Len(after) \in Nat
      BY <2>1, Indexed
    <2> QED BY <1>3, <1>10, <2>1, <2>2
  <1>12. /\ F2 \in Seq(SqlFinding) /\ M2 \in Seq(SqlMeta)
         /\ Len(M2) <= Len(F2)
         /\ \A i \in 1..Len(M2) : \E j \in 1..Len(M) : M2[i] = M[j] /\ F2[i] = after[j]
         /\ \A k \in DOMAIN F2 : \E j \in DOMAIN after : F2[k] = after[j]
         /\ \A j \in DOMAIN after : j \notin cut => \E k \in DOMAIN F2 : F2[k] = after[j]
    <2>1. Len(M) <= Len(after)
      BY <1>4, <1>11
    <2>2. F2 = Pruned(after, cut) /\ M2 = Pruned(M, cut)
      OBVIOUS
    <2> HIDE DEF F2, M2
    <2>3. F2 \in Seq(SqlFinding) /\ M2 \in Seq(SqlMeta) /\ InStep(F2, M2, after, M, cut)
      BY <1>1, <1>6, <1>11, <2>1, <2>2, PrunedInStep
    <2> QED BY <2>3 DEF InStep
  <1> HIDE DEF F2, M2
  <1>13. /\ DOMAIN work' = DOMAIN work /\ work'.next = work.next /\ work'.findings = F2
         /\ work'.metas = M2 /\ work'.structs = work.structs /\ work'.types = work.types
         /\ work'.sqlEnd = work.sqlEnd - Cardinality(cut)
    BY <1>1, <1>2
  <1>14. SqlTypeOK'
    <2>1. work.structs \in Seq(BuiltStructs')
      BY <1>1, <1>2, BuiltStays
    <2>2. work'.sqlEnd \in Int
      BY <1>1, <1>8, <1>13
    <2> QED BY <1>1, <1>2, <1>12, <1>13, <2>1, <2>2 DEF SqlKept, SqlTypeOK
  <1>15. SqlMetasAligned'
    <2>1. ASSUME NEW i \in 1..Len(M2) PROVE M2[i] = MetaOf(F2[i]) /\ F2[i].rule \in SqlRules
      <3>1. PICK j \in 1..Len(M) : M2[i] = M[j] /\ F2[i] = after[j]
        BY <1>12
      <3>2. j \in DOMAIN F
        BY <1>3, <1>4
      <3>3. MetaOf(after[j]) = MetaOf(F[j]) /\ after[j].rule = F[j].rule
        BY <1>9, <3>2
      <3>4. M[j] = MetaOf(F[j]) /\ F[j].rule \in SqlRules
        BY <1>4
      <3> QED BY <3>1, <3>3, <3>4
    <2>2. \A i \in 1..Len(M2) : M2[i] = MetaOf(F2[i]) /\ F2[i].rule \in SqlRules
      BY <2>1
    <2> QED BY <1>2, <1>12, <1>13, <2>2 DEF SqlMetasAligned, MetaOf
  <1>16. \A t, col : GoEncrypts(t, col)' <=> GoEncrypts(t, col)
    BY <1>13, EncryptsStays
  <1>17. SqlHooksFound'
    <2> SUFFICES ASSUME NEW k \in DOMAIN F2, F2[k].hint = "hook"
                 PROVE  GoEncrypts(F2[k].table, F2[k].col)
      BY <1>2, <1>13, <1>16 DEF SqlHooksFound
    <2>1. \A i \in DOMAIN F : F[i].hint # "hook"
      BY <1>2 DEF SqlKept, SqlHooksFound, F
    <2>2. PICK j \in DOMAIN F : F2[k] = after[j]
      BY <1>10, <1>12
    <2>3. j \in 1..Len(M) /\ GoEncrypts(M[j].table, M[j].col)
      BY <1>9, <2>1, <2>2
    <2>4. M[j].table = after[j].table /\ M[j].col = after[j].col
      <3>1. M[j] = MetaOf(after[j])
        BY <1>4, <1>9, <2>3
      <3> QED BY <3>1 DEF MetaOf
    <2> QED BY <2>2, <2>3, <2>4
  <1>18. SqlTypesDeclared'
    BY <1>2, <1>13 DEF SqlKept, SqlTypesDeclared
  <1>19. SqlPlaintextKept'
    <2> SUFFICES ASSUME NEW k \in DOMAIN project.go, PlaintextStruct(k)
                 PROVE  /\ BuildGormStruct(project.go[k].struct, k) \in Range(work.structs)
                        /\ \E i \in DOMAIN F2 : /\ F2[i].rule = "GORM-NO-ENCRYPT-HOOK"
                                                /\ F2[i].file = k /\ F2[i].sev = "HIGH"
      BY <1>2, <1>13, BuiltStays DEF SqlPlaintextKept
    <2>1. /\ BuildGormStruct(project.go[k].struct, k) \in Range(work.structs)
          /\ \E i \in DOMAIN F : /\ F[i].rule = "GORM-NO-ENCRYPT-HOOK"
                                 /\ F[i].file = k /\ F[i].sev = "HIGH"
      BY <1>2 DEF SqlKept, SqlPlaintextKept, F
    <2>2. PICK i \in DOMAIN F : /\ F[i].rule = "GORM-NO-ENCRYPT-HOOK"
                                /\ F[i].file = k /\ F[i].sev = "HIGH"
      BY <2>1
    <2>3. F[i].rule \notin SqlRules
      BY <2>2 DEF SqlRules
    <2>4. i \notin 1..Len(M)
      BY <1>4, <2>3
    <2>5. after[i] = F[i] /\ i \notin cut
      BY <1>6, <1>9, <2>4
    <2>6. PICK h \in DOMAIN F2 : F2[h] = after[i]
      BY <1>10, <1>12, <2>5
    <2> QED BY <2>1, <2>2, <2>5, <2>6
  <1>20. SqlColumnsKept'
    <2> SUFFICES ASSUME NEW f \in DOMAIN project.sql, NEW s \in Range(project.sql[f]),
                        s.op # "drop", s.col \in SensitiveKeywords, ~GoEncrypts(s.table, s.col)
                 PROVE  \E i \in DOMAIN F2 : IsHighColumn(F2[i], s, f)
      BY <1>2, <1>13, <1>16 DEF SqlColumnsKept, IsHighColumn
    <2>1. PICK i \in DOMAIN F : IsHighColumn(F[i], s, f)
      BY <1>2 DEF SqlKept, SqlColumnsKept, F
    <2>2. F[i].table = s.table /\ F[i].col = s.col
      BY <2>1 DEF IsHighColumn
    <2>3. i \in 1..Len(M) => M[i].table = s.table /\ M[i].col = s.col
      <3>1. i \in 1..Len(M) => M[i] = MetaOf(F[i])
        BY <1>4
      <3> QED BY <2>2, <3>1 DEF MetaOf
    <2>4. after[i] = F[i]
      BY <1>9, <2>3
    <2>5. i \notin cut
      BY <1>6, <1>7, <2>3, KeywordAssumption
    <2>6. PICK h \in DOMAIN F2 : F2[h] = after[i]
      BY <1>10, <1>12, <2>5
    <2> QED BY <2>1, <2>4, <2>6
  <1> QED BY <1>2, <1>14, <1>15, <1>17, <1>18, <1>19, <1>20 DEF SqlKept

\* Pass 4 rewrites only findings about columns that a later migration drops.
LEMMA DropDowngradeStep ==
    ASSUME SqlKept, ApplyMigrationDropDowngrade
    PROVE  SqlKept' /\ pc' = "done" /\ scanner' = "sql"
  <1> DEFINE F == work.findings
             M == work.metas
             drop(i) == /\ i <= work.sqlEnd /\ i <= Len(M)
                        /\ F[i].rule \in {"SQL-SENSITIVE-COLUMN", "SQL-TEXT-TYPE"}
                        /\ F[i].sev # "INFO"
                        /\ DroppedLater(F[i].file, M[i].col)
             F2 == [i \in DOMAIN F |-> IF drop(i) THEN [F[i] EXCEPT !.sev = "INFO", !.hint = "drop"] ELSE F[i]]
  <1>1. /\ DOMAIN work = {"next", "findings", "metas", "sqlEnd", "structs", "types", "funcs"}
        /\ F \in Seq(SqlFinding) /\ M \in Seq(SqlMeta)
        /\ project \in SqlSources /\ work.structs \in Seq(BuiltStructs)
    BY DEF SqlKept, SqlTypeOK
  <1>2. /\ work' = [work EXCEPT !.findings = F2]
        /\ pc = "drop" /\ pc' = "done" /\ project' = project /\ scanner' = "sql"
    BY DEF ApplyMigrationDropDowngrade, Pass
  <1>3. /\ Len(F) \in Nat /\ DOMAIN F = 1..Len(F) /\ \A k \in 1..Len(F) : F[k] \in SqlFinding
        /\ Len(M) \in Nat
    BY <1>1, Indexed
  <1>4. /\ Len(M) <= Len(F)
        /\ \A i \in 1..Len(M) : M[i] = MetaOf(F[i]) /\ F[i].rule \in SqlRules
    BY DEF SqlKept, SqlMetasAligned
  <1>5. \A i \in DOMAIN F : drop(i) =>
            /\ i \in 1..Len(M) /\ F[i].rule \in SqlRules
            /\ DroppedLater(F[i].file, M[i].col)
    BY <1>3 DEF SqlRules
  <1> HIDE DEF F, M, drop
  <1>6. ASSUME NEW i \in DOMAIN F
        PROVE  /\ F2[i] \in SqlFinding
               /\ F2[i].table = F[i].table /\ F2[i].col = F[i].col /\ F2[i].rule = F[i].rule
               /\ F2[i].hint = "hook" => F[i].hint = "hook"
               /\ F2[i] = F[i] \/ drop(i)
    <2>1. F[i] \in SqlFinding
      BY <1>3
    <2>2. CASE drop(i)
      <3>1. F2[i] = [F[i] EXCEPT !.sev = "INFO", !.hint = "drop"]
        BY <2>2
      <3> HIDE DEF F2
      <3> QED BY <2>1, <2>2, <3>1 DEF SqlFinding
    <2>3. CASE ~drop(i)
      <3>1. F2[i] = F[i]
        BY <2>3
      <3> HIDE DEF F2
      <3> QED BY <2>1, <3>1
    <2> QED BY <2>2, <2>3
  <1>7. F2 \in [1..Len(F) -> SqlFinding] /\ DOMAIN F2 = DOMAIN F
    <2>1. DOMAIN F2 = DOMAIN F /\ F2 = [i \in DOMAIN F |-> F2[i]]
      OBVIOUS
    <2> HIDE DEF F2
    <2> QED BY <1>3, <1>6, <2>1
  <1> HIDE DEF F2
  <1>8. F2 \in Seq(SqlFinding) /\ Len(F2) = Len(F)
    <2>1. F2 \in Seq(SqlFinding)
      BY <1>3, <1>7, FunctionIsSequence
    <2>2. DOMAIN F2 = 1..Len(F2) /\ Len(F2) \in Nat
      BY <2>1, Indexed
    <2> QED BY <1>3, <1>7, <2>1, <2>2
  <1>9. /\ DOMAIN work' = DOMAIN work /\ work'.next = work.next /\ work'.findings = F2
        /\ work'.metas = M /\ work'.structs = work.structs /\ work'.types = work.types
        /\ work'.sqlEnd = work.sqlEnd
    BY <1>1, <1>2 DEF M
  <1>10. SqlTypeOK'
    <2>1. work.structs \in Seq(BuiltStructs')
      BY <1>1, <1>2, BuiltStays
    <2> QED BY <1>1, <1>2, <1>8, <1>9, <2>1 DEF SqlKept, SqlTypeOK
  <1>11. SqlMetasAligned'
    <2>1. \A i \in 1..Len(M) : M[i] = [table |-> F2[i].table, col |-> F2[i].col] /\ F2[i].rule \in SqlRules
      BY <1>3, <1>4, <1>6 DEF MetaOf
    <2> QED BY <1>2, <1>4, <1>8, <1>9, <2>1 DEF SqlMetasAligned, MetaOf
  <1>12. \A t, col : GoEncrypts(t, col)' <=> GoEncrypts(t, col)
    BY <1>9, EncryptsStays
  <1>13. SqlHooksFound'
    <2> SUFFICES ASSUME NEW k \in DOMAIN F2, NEW t \in STRING \cup {""}, NEW col \in STRING \cup {""},
                        F2[k].hint = "hook", F2[k].table = t, F2[k].col = col
                 PROVE  GoEncrypts(t, col)
      BY <1>2, <1>9, <1>12 DEF SqlHooksFound
    <2>1. F[k].hint = "hook" /\ F[k].table = t /\ F[k].col = col
      BY <1>6, <1>7
    <2> QED BY <1>7, <2>1 DEF SqlKept, SqlHooksFound, F
  <1>14. SqlTypesDeclared'
    BY <1>2, <1>9 DEF SqlKept, SqlTypesDeclared
  <1>15. SqlPlaintextKept'
    <2> SUFFICES ASSUME NEW k \in DOMAIN project.go, PlaintextStruct(k)
                 PROVE  /\ BuildGormStruct(project.go[k].struct, k) \in Range(work.structs)
                        /\ \E i \in DOMAIN F2 : /\ F2[i].rule = "GORM-NO-ENCRYPT-HOOK"
                                                /\ F2[i].file = k /\ F2[i].sev = "HIGH"
      BY <1>2, <1>9, BuiltStays DEF SqlPlaintextKept
    <2>1. /\ BuildGormStruct(project.go[k].struct, k) \in Range(work.structs)
          /\ \E i \in DOMAIN F : /\ F[i].rule = "GORM-NO-ENCRYPT-HOOK"
                                 /\ F[i].file = k /\ F[i].sev = "HIGH"
      BY <1>2 DEF SqlKept, SqlPlaintextKept, F
    <2>2. PICK i \in DOMAIN F : /\ F[i].rule = "GORM-NO-ENCRYPT-HOOK"
                                /\ F[i].file = k /\ F[i].sev = "HIGH"
      BY <2>1
    <2>3. F[i].rule \notin SqlRules
      BY <2>2 DEF SqlRules
    <2>4. F2[i] = F[i]
      BY <1>5, <1>6, <2>3
    <2> QED BY <1>7, <2>1, <2>2, <2>4
  <1>16. SqlColumnsKept'
    <2> SUFFICES ASSUME NEW f \in DOMAIN project.sql, NEW s \in Range(project.sql[f]),
                        s.op # "drop", s.col \in SensitiveKeywords, ~GoEncrypts(s.table, s.col),
                        ~DroppedLater(f, s.col)
                 PROVE  \E i \in DOMAIN F2 : IsHighColumn(F2[i], s, f)
      BY <1>2, <1>9, <1>12, DroppedStays DEF SqlColumnsKept, IsHighColumn
    <2>1. PICK i \in DOMAIN F : IsHighColumn(F[i], s, f)
      BY <1>2 DEF SqlKept, SqlColumnsKept, F
    <2>2. F[i].file = f /\ F[i].col = s.col
      BY <2>1 DEF IsHighColumn
    <2>3. i \in 1..Len(M) => M[i].col = s.col
      <3>1. i \in 1..Len(M) => M[i] = MetaOf(F[i])
        BY <1>4
      <3> QED BY <2>2, <3>1 DEF MetaOf
    <2>4. F2[i] = F[i]
      BY <1>5, <1>6, <2>2, <2>3
    <2> QED BY <1>7, <2>1, <2>4
  <1> QED BY <1>2, <1>10, <1>11, <1>13, <1>14, <1>15, <1>16 DEF SqlKept

\* A failed scan has forgotten everything.
LEMMA SqlErrorStep ==
    ASSUME SqlKept, SqlError
    PROVE  SqlTypeOK' /\ pc' = "failed" /\ scanner' = "sql"
  <1>1. project \in SqlSources
    BY DEF SqlKept, SqlTypeOK
  <1>2. work' = SqlIdle /\ pc' = "failed" /\ project' = project /\ scanner' = "sql"
    BY DEF SqlError, Pass
  <1>3. SqlTypeOK'
    BY <1>1, <1>2 DEF SqlTypeOK, SqlIdle
  <1> QED BY <1>2, <1>3

\* Which scanner runs does not change.
LEMMA ScannerStays ==
    ASSUME [Next]_callVars
    PROVE  scanner' = scanner
  <1>1. CASE SqlNext
    BY <1>1 DEF SqlNext, SqlScanFile, SqlFilesDone, SqlScanGoFile, SqlGoFilesDone, SqlError,
                ApplyVerifiedTypeFixup, CrossRefSQLWithGoEncryption, ApplyMigrationDropDowngrade, Pass
  <1>2. CASE AuditNext
    <2>1. CASE \E c \in DOMAIN work.calls : AuditStart(c) \/ AuditOpenFile(c) \/ AuditHandler(c)
                                           \/ AuditLookup(c) \/ AuditStore(c) \/ AuditScore(c) \/ AuditKeepFields(c)
      BY <2>1 DEF AuditStart, AuditOpenFile, AuditHandler, AuditLookup, AuditStore, AuditScore,
                  AuditKeepFields, CallStep, AuditStep, Pass
    <2>2. CASE AuditEdit \/ AuditEnd
      BY <2>2 DEF AuditEdit, AuditEnd, AuditStep, Pass
    <2> QED BY <1>2, <2>1, <2>2 DEF AuditNext
  <1>3. CASE AuthNext
    BY <1>3 DEF AuthNext, AuthParse, AuthPolicy, AuthMFA, AuthWebhook, AuthFileDone, AuthCover, Pass
  <1>4. CASE PanNext
    BY <1>4 DEF PanNext, PanScanFile, PanCancel, PanScanned, adjustSeverityByTaint, FlowSteps, PanAnswer,
                PanBridged, Pass
  <1>5. CASE Returned \/ UNCHANGED callVars
    BY <1>5 DEF Returned, callVars
  <1> QED BY <1>1, <1>2, <1>3, <1>4, <1>5 DEF Next

\* A call of the SQL scanner begins with nothing found.
LEMMA SqlInitially ==
    ASSUME Init
    PROVE  SqlInv
  <1> SUFFICES ASSUME scanner = "sql"
               PROVE  SqlTypeOK /\ pc = "start" /\ SqlKept
    BY DEF SqlInv
  <1>1. \E p \in SqlSources : Called("sql", p, SqlIdle)
    BY DEF Init, SqlInit, AuditInit, AuthInit, PanInit, Called
  <1>2. project \in SqlSources /\ pc = "start" /\ work = SqlIdle
    BY <1>1 DEF Called
  <1>3. SqlTypeOK
    BY <1>2 DEF SqlTypeOK, SqlIdle
  <1>4. SqlMetasAligned /\ SqlHooksFound
    BY <1>2 DEF SqlMetasAligned, SqlHooksFound, SqlIdle
  <1>5. SqlTypesDeclared
    BY <1>2 DEF SqlTypesDeclared, SqlIdle
  <1>6. SqlPlaintextKept
    BY <1>2 DEF SqlPlaintextKept
  <1>7. SqlColumnsKept
    <2>1. \A f \in DOMAIN project.sql : ~(f < 1)
      <3>1. DOMAIN project.sql = 1..Len(project.sql)
        BY <1>2, SourcesTyped, Indexed
      <3> QED BY <3>1
    <2> QED BY <1>2, <2>1 DEF SqlColumnsKept, SqlIdle
  <1> QED BY <1>2, <1>3, <1>4, <1>5, <1>6, <1>7 DEF SqlKept

\* No pass breaks it.
LEMMA SqlInductive ==
    ASSUME SqlInv, [Next]_callVars
    PROVE  SqlInv'
  <1> SUFFICES ASSUME scanner' = "sql" PROVE SqlInv'
    BY DEF SqlInv
  <1>1. scanner = "sql"
    BY ScannerStays
  <1>2. SqlTypeOK /\ pc \in {"start", "go", "verify", "xref", "drop", "done", "failed"}
        /\ (pc # "failed" => SqlKept)
    BY <1>1 DEF SqlInv
  <1>3. CASE SqlNext
    <2>1. SqlKept
      BY <1>2, <1>3 DEF SqlNext, SqlScanFile, SqlFilesDone, SqlScanGoFile, SqlGoFilesDone, SqlError,
                ApplyVerifiedTypeFixup, CrossRefSQLWithGoEncryption, ApplyMigrationDropDowngrade, Pass
    <2>2. ASSUME SqlKept', pc' \in {"start", "go", "verify", "xref", "drop", "done"}
          PROVE  SqlInv'
      BY <2>2 DEF SqlInv, SqlKept
    <2>3. CASE SqlScanFile
      BY <2>1, <2>2, <2>3, SqlScanFileStep
    <2>4. CASE SqlFilesDone
      BY <2>1, <2>2, <2>4, SqlFilesDoneStep
    <2>5. CASE SqlScanGoFile
      BY <2>1, <2>2, <2>5, SqlScanGoFileStep
    <2>6. CASE SqlGoFilesDone
      BY <2>1, <2>2, <2>6, SqlGoFilesDoneStep
    <2>7. CASE SqlError
      BY <2>1, <2>7, SqlErrorStep DEF SqlInv
    <2>8. CASE ApplyVerifiedTypeFixup
      BY <2>1, <2>2, <2>8, ApplyVerifiedTypeFixupStep
    <2>9. CASE CrossRefSQLWithGoEncryption
      BY <2>1, <2>2, <2>9, CrossRefStep
    <2>10. CASE ApplyMigrationDropDowngrade
      BY <2>1, <2>2, <2>10, DropDowngradeStep
    <2> QED BY <1>3, <2>3, <2>4, <2>5, <2>6, <2>7, <2>8, <2>9, <2>10 DEF SqlNext
  <1>4. CASE UNCHANGED callVars
    <2>1. work' = work /\ pc' = pc /\ project' = project /\ scanner' = scanner
      BY <1>4 DEF callVars
    <2>2. SqlTypeOK'
      <3>1. work.structs \in Seq(BuiltStructs')
        BY <1>2, <2>1, BuiltStays DEF SqlTypeOK
      <3> QED BY <1>2, <2>1, <3>1 DEF SqlTypeOK
    <2>3. CASE pc = "failed"
      BY <1>2, <2>1, <2>2, <2>3 DEF SqlInv
    <2>4. CASE pc # "failed"
      <3>1. \A t, col : GoEncrypts(t, col)' <=> GoEncrypts(t, col)
        BY <2>1, EncryptsStays
      <3>2. \A f, col : DroppedLater(f, col)' <=> DroppedLater(f, col)
        BY <2>1, DroppedStays
      <3>3. \A k : PlaintextStruct(k)' <=> PlaintextStruct(k)
        BY <2>1, BuiltStays
      <3>4. SqlMetasAligned'
        BY <1>2, <2>1, <2>4 DEF SqlKept, SqlMetasAligned, MetaOf
      <3>5. SqlHooksFound'
        BY <1>2, <2>1, <2>4, <3>1 DEF SqlKept, SqlHooksFound
      <3>6. SqlTypesDeclared'
        BY <1>2, <2>1, <2>4 DEF SqlKept, SqlTypesDeclared
      <3>7. SqlPlaintextKept'
        BY <1>2, <2>1, <2>4, <3>3 DEF SqlKept, SqlPlaintextKept
      <3>8. SqlColumnsKept'
        BY <1>2, <2>1, <2>4, <3>1, <3>2 DEF SqlKept, SqlColumnsKept, IsHighColumn
      <3> QED BY <1>2, <2>1, <2>2, <3>4, <3>5, <3>6, <3>7, <3>8 DEF SqlInv, SqlKept
    <2> QED BY <2>3, <2>4
  <1>5. SqlNext \/ UNCHANGED callVars
    BY <1>1 DEF Next, Returned
  <1> QED BY <1>3, <1>4, <1>5

(* SqlInv holds of every call of the SQL scanner on every project: the     *)
(* metas stay in step with the findings that the three later passes look   *)
(* up by position, and what pass 1 and pass 2 reported of a column that is *)
(* still there and not encrypted is never downgraded.                      *)
THEOREM SqlInvariant == Spec => []SqlInv
  <1>1. Init => SqlInv
    BY SqlInitially
  <1>2. SqlInv /\ [Next]_callVars => SqlInv'
    BY SqlInductive
  <1> QED BY <1>1, <1>2, PTL DEF Spec

(* On every project, a column finding excused by a hook belongs to a table *)
(* whose struct really encrypts that column in a GORM hook.                *)
THEOREM SqlHookExcusesAlways == Spec => []SqlHookExcuses
  <1>1. SqlInv => SqlHookExcuses
    <2> SUFFICES ASSUME SqlInv, Done("sql") PROVE SqlHookExcuses
      BY DEF SqlHookExcuses
    <2>1. SqlKept /\ SqlTypeOK
      BY DEF SqlInv, Done
    <2>2. ASSUME NEW f \in Range(work.findings), f.hint = "hook"
          PROVE  HookEncrypts(f.table, f.col)
      <3>1. PICK i \in DOMAIN work.findings : f = work.findings[i]
        BY DEF Range
      <3>2. f \in SqlFinding
        BY <2>1, <3>1 DEF SqlTypeOK
      <3>3. f.table \in STRING \cup {""} /\ f.col \in STRING \cup {""}
        BY <3>2 DEF SqlFinding
      <3>4. GoEncrypts(f.table, f.col)
        BY <2>1, <2>2, <3>1, <3>3 DEF SqlKept, SqlHooksFound
      <3> QED BY <2>1, <3>4, EncryptsByHook
    <2> QED BY <2>2 DEF SqlHookExcuses, HookEncrypts
  <1> QED BY <1>1, SqlInvariant, PTL

(* On every project, a struct that stores a keyword column in clear and    *)
(* has no encrypting hook is still reported as HIGH when the scan returns. *)
THEOREM GormPlaintextAlwaysReported == Spec => []GormPlaintextReported
  <1>1. SqlInv => GormPlaintextReported
    <2> SUFFICES ASSUME SqlInv, Done("sql") PROVE GormPlaintextReported
      BY DEF GormPlaintextReported
    <2>1. pc = "done" /\ SqlKept
      BY DEF SqlInv, Done
    <2>2. ASSUME NEW k \in DOMAIN project.go, PlaintextStruct(k)
          PROVE  \E r \in Range(work.findings) :
                    r.rule = "GORM-NO-ENCRYPT-HOOK" /\ r.file = k /\ r.sev = "HIGH"
      <3>1. PICK i \in DOMAIN work.findings :
              /\ work.findings[i].rule = "GORM-NO-ENCRYPT-HOOK"
              /\ work.findings[i].file = k /\ work.findings[i].sev = "HIGH"
        BY <2>1, <2>2 DEF SqlKept, SqlPlaintextKept
      <3> QED BY <3>1 DEF Range
    <2> QED BY <2>2 DEF GormPlaintextReported, PlaintextStruct
  <1> QED BY <1>1, SqlInvariant, PTL

(* On every project, a sensitive column that exists after all migrations   *)
(* and that no hook encrypts keeps its HIGH finding in every file that     *)
(* names it: neither cross-reference nor drop downgrade takes it.          *)
THEOREM SqlLiveColumnAlwaysReported == Spec => []SqlLiveColumnReported
  <1>1. SqlInv => SqlLiveColumnReported
    <2> SUFFICES ASSUME SqlInv, Done("sql"), NEW f \in DOMAIN project.sql, NEW s \in Range(project.sql[f]),
                        s.op # "drop", s.col \in SensitiveKeywords,
                        Unambiguous(s.col), Present(s.table, s.col), ~GoEncrypts(s.table, s.col)
                 PROVE  \E r \in Range(work.findings) : IsHighColumn(r, s, f)
      BY DEF SqlLiveColumnReported, IsHighColumn
    <2>1. pc = "done" /\ SqlKept /\ project \in SqlSources
      BY DEF SqlInv, Done, SqlTypeOK
    <2>2. ~DroppedLater(f, s.col)
      BY <2>1, LiveNotDropped
    <2>3. PICK i \in DOMAIN work.findings : IsHighColumn(work.findings[i], s, f)
      BY <2>1, <2>2 DEF SqlKept, SqlColumnsKept
    <2> QED BY <2>3 DEF Range
  <1> QED BY <1>1, SqlInvariant, PTL

------------------------------------------------------------------------------
(* The taint engine: recursive functions, and what can be reached.         *)

\* Induction up to a bound, with a set in place of a predicate.
LEMMA Climb ==
    ASSUME NEW n \in Nat, NEW S \in SUBSET (0..n), 0 \in S,
           \A i \in 1..n : i - 1 \in S => i \in S
    PROVE  \A i \in 0..n : i \in S
  <1> DEFINE Bad == (0..n) \ S
  <1>1. SUFFICES ASSUME Bad # {} PROVE FALSE
    OBVIOUS
  <1>2. Bad \in SUBSET Int /\ IsFiniteSet(Bad)
    <2>1. IsFiniteSet(0..n) /\ Bad \in SUBSET (0..n)
      BY FS_Interval
    <2> QED BY <2>1, FS_Subset
  <1>3. PICK m \in Bad : \A j \in Bad : m <= j
    <2> HIDE DEF Bad
    <2> QED BY <1>1, <1>2, LeastMember
  <1>4. m \in 1..n /\ m - 1 \in 0..n /\ m - 1 \notin Bad
    BY <1>3
  <1> QED BY <1>3, <1>4

\* A function on 0..m is one on 0..(m - 1) with a last value.
Longer(g, f, m, v) ==
    /\ g = [i \in 0..m |-> g[i]]
    /\ g[m] = v
    /\ \A i \in 0..(m - 1) : i \in 0..m /\ g[i] = f[i]

\* There is one.
LEMMA LongerExists ==
    ASSUME NEW m \in Nat, m > 0, NEW f, NEW v
    PROVE  \E g : Longer(g, f, m, v)
  <1> DEFINE g == [i \in 0..m |-> IF i = m THEN v ELSE f[i]]
  <1>1. \A i \in 0..(m - 1) : i \in 0..m /\ i # m
    OBVIOUS
  <1>2. g = [i \in 0..m |-> g[i]]
    OBVIOUS
  <1>3. g[m] = v /\ \A i \in 0..(m - 1) : i \in 0..m /\ g[i] = f[i]
    BY <1>1
  <1> HIDE DEF g
  <1> QED BY <1>2, <1>3 DEF Longer

\* What Reach computes on its way, hop by hop.
Hops(f, edges, from, n) ==
    /\ f = [k \in 0..n |-> f[k]]
    /\ f[0] = from
    /\ \A k \in 1..n : f[k] = OneHop(edges, f[k - 1])

\* There are such values.
LEMMA HopsExist ==
    ASSUME NEW edges, NEW from, NEW n \in Nat
    PROVE  \E f : Hops(f, edges, from, n)
  <1> DEFINE S == {m \in 0..n : \E f : Hops(f, edges, from, m)}
  <1>1. 0 \in S
    <2>1. Hops([k \in 0..0 |-> from], edges, from, 0)
      BY DEF Hops
    <2> QED BY <2>1
  <1>2. ASSUME NEW m \in 1..n, m - 1 \in S PROVE m \in S
    <2>1. PICK f : Hops(f, edges, from, m - 1)
      BY <1>2
    <2>2. m \in Nat /\ m > 0 /\ 0 \in 0..(m - 1)
      OBVIOUS
    <2> DEFINE v == OneHop(edges, f[m - 1])
    <2> HIDE DEF v
    <2>3. PICK g : Longer(g, f, m, v)
      BY <2>2, LongerExists
    <2>4. g[0] = from
      <3>1. f[0] = from
        BY <2>1 DEF Hops
      <3> QED BY <2>2, <2>3, <3>1 DEF Longer
    <2>5. ASSUME NEW k \in 1..m PROVE g[k] = OneHop(edges, g[k - 1])
      <3>1. k - 1 \in 0..(m - 1) /\ g[k - 1] = f[k - 1]
        <4>1. k - 1 \in 0..(m - 1)
          BY <2>2
        <4> QED BY <2>3, <4>1 DEF Longer
      <3>2. CASE k = m
        BY <2>3, <3>1, <3>2 DEF Longer, v
      <3>3. CASE k # m
        <4>1. k \in 1..(m - 1) /\ k \in 0..(m - 1)
          BY <2>2, <3>3
        <4> QED BY <2>1, <2>3, <3>1, <4>1 DEF Hops, Longer
      <3> QED BY <3>2, <3>3
    <2>6. Hops(g, edges, from, m)
      BY <2>3, <2>4, <2>5 DEF Hops, Longer
    <2> QED BY <2>6
  <1>3. S \in SUBSET (0..n)
    OBVIOUS
  <1> HIDE DEF S
  <1>4. \A m \in 0..n : m \in S
    BY <1>1, <1>2, <1>3, Climb
  <1>5. n \in S
    BY <1>4
  <1> QED BY <1>5 DEF S

\* Reach is the last of them.
LEMMA ReachHops ==
    ASSUME NEW edges, NEW from, NEW n \in Nat, n = Cardinality(edges)
    PROVE  \E f : Hops(f, edges, from, n) /\ Reach(edges, from) = f[n]
  <1> DEFINE step(f) == [k \in 0..n |-> IF k = 0 THEN from ELSE OneHop(edges, f[k - 1])]
             f == CHOOSE g : g = step(g)
  <1>1. \E g : g = step(g)
    <2>1. PICK g : Hops(g, edges, from, n)
      BY HopsExist
    <2>2. ASSUME NEW k \in 0..n PROVE g[k] = IF k = 0 THEN from ELSE OneHop(edges, g[k - 1])
      <3>1. CASE k = 0
        BY <2>1, <3>1 DEF Hops
      <3>2. CASE k # 0
        <4>1. k \in 1..n
          BY <3>2
        <4>2. g[k] = OneHop(edges, g[k - 1])
          BY <2>1, <4>1 DEF Hops
        <4> QED BY <3>2, <4>2, Zenon
      <3> QED BY <3>1, <3>2
    <2>3. g = [k \in 0..n |-> g[k]]
      BY <2>1 DEF Hops
    <2>4. [k \in 0..n |-> g[k]] = step(g)
      BY <2>2
    <2> QED BY <2>3, <2>4
  <1>2. f = step(f)
    BY <1>1
  <1>3. Reach(edges, from) = f[n]
    BY DEF Reach
  <1> HIDE DEF f
  <1>4. Hops(f, edges, from, n)
    <2>1. f = [k \in 0..n |-> f[k]] /\ \A k \in 0..n : f[k] = IF k = 0 THEN from ELSE OneHop(edges, f[k - 1])
      BY <1>2
    <2>2. f[0] = from
      <3>1. 0 \in 0..n
        OBVIOUS
      <3> QED BY <2>1, <3>1, Zenon
    <2>3. ASSUME NEW k \in 1..n PROVE f[k] = OneHop(edges, f[k - 1])
      <3>1. k \in 0..n /\ k # 0
        OBVIOUS
      <3> QED BY <2>1, <3>1, Zenon
    <2> QED BY <2>1, <2>2, <2>3 DEF Hops
  <1> QED BY <1>3, <1>4

\* The query after every element of a struct literal.
Settings(f, elts, s, n) ==
    /\ f = [k \in 0..n |-> f[k]]
    /\ f[0] = s
    /\ \A k \in 1..n : f[k] = setElement(elts[k], f[k - 1])

\* There are such values.
LEMMA SettingsExist ==
    ASSUME NEW elts, NEW s, NEW n \in Nat
    PROVE  \E f : Settings(f, elts, s, n)
  <1> DEFINE S == {m \in 0..n : \E f : Settings(f, elts, s, m)}
  <1>1. 0 \in S
    <2>1. Settings([k \in 0..0 |-> s], elts, s, 0)
      BY DEF Settings
    <2> QED BY <2>1
  <1>2. ASSUME NEW m \in 1..n, m - 1 \in S PROVE m \in S
    <2>1. PICK f : Settings(f, elts, s, m - 1)
      BY <1>2
    <2>2. m \in Nat /\ m > 0 /\ 0 \in 0..(m - 1)
      OBVIOUS
    <2> DEFINE v == setElement(elts[m], f[m - 1])
    <2> HIDE DEF v
    <2>3. PICK g : Longer(g, f, m, v)
      BY <2>2, LongerExists
    <2>4. g[0] = s
      <3>1. f[0] = s
        BY <2>1 DEF Settings
      <3> QED BY <2>2, <2>3, <3>1 DEF Longer
    <2>5. ASSUME NEW k \in 1..m PROVE g[k] = setElement(elts[k], g[k - 1])
      <3>1. k - 1 \in 0..(m - 1) /\ g[k - 1] = f[k - 1]
        <4>1. k - 1 \in 0..(m - 1)
          BY <2>2
        <4> QED BY <2>3, <4>1 DEF Longer
      <3>2. CASE k = m
        BY <2>3, <3>1, <3>2 DEF Longer, v
      <3>3. CASE k # m
        <4>1. k \in 1..(m - 1) /\ k \in 0..(m - 1)
          BY <2>2, <3>3
        <4> QED BY <2>1, <2>3, <3>1, <4>1 DEF Settings, Longer
      <3> QED BY <3>2, <3>3
    <2>6. Settings(g, elts, s, m)
      BY <2>3, <2>4, <2>5 DEF Settings, Longer
    <2> QED BY <2>6
  <1>3. S \in SUBSET (0..n)
    OBVIOUS
  <1> HIDE DEF S
  <1>4. \A m \in 0..n : m \in S
    BY <1>1, <1>2, <1>3, Climb
  <1>5. n \in S
    BY <1>4
  <1> QED BY <1>5 DEF S

\* Rule R2 gives the last one.
LEMMA LiteralSettings ==
    ASSUME NEW m, NEW s, NEW n \in Nat, n = Len(m.elts)
    PROVE  \E f : Settings(f, m.elts, s, n) /\ applyRule2(m, s) = f[n]
  <1> DEFINE step(f) == [k \in 0..n |-> IF k = 0 THEN s ELSE setElement(m.elts[k], f[k - 1])]
             f == CHOOSE g : g = step(g)
  <1>1. \E g : g = step(g)
    <2>1. PICK g : Settings(g, m.elts, s, n)
      BY SettingsExist
    <2>2. ASSUME NEW k \in 0..n PROVE g[k] = IF k = 0 THEN s ELSE setElement(m.elts[k], g[k - 1])
      <3>1. CASE k = 0
        BY <2>1, <3>1 DEF Settings
      <3>2. CASE k # 0
        <4>1. k \in 1..n
          BY <3>2
        <4>2. g[k] = setElement(m.elts[k], g[k - 1])
          BY <2>1, <4>1 DEF Settings
        <4> QED BY <3>2, <4>2, Zenon
      <3> QED BY <3>1, <3>2
    <2>3. g = [k \in 0..n |-> g[k]]
      BY <2>1 DEF Settings
    <2>4. [k \in 0..n |-> g[k]] = step(g)
      BY <2>2
    <2> QED BY <2>3, <2>4
  <1>2. f = step(f)
    BY <1>1
  <1>3. applyRule2(m, s) = f[n]
    BY DEF applyRule2
  <1> HIDE DEF f
  <1>4. Settings(f, m.elts, s, n)
    <2>1. f = [k \in 0..n |-> f[k]] /\ \A k \in 0..n : f[k] = IF k = 0 THEN s ELSE setElement(m.elts[k], f[k - 1])
      BY <1>2
    <2>2. f[0] = s
      <3>1. 0 \in 0..n
        OBVIOUS
      <3> QED BY <2>1, <3>1, Zenon
    <2>3. ASSUME NEW k \in 1..n PROVE f[k] = setElement(m.elts[k], f[k - 1])
      <3>1. k \in 0..n /\ k # 0
        OBVIOUS
      <3> QED BY <2>1, <3>1, Zenon
    <2> QED BY <2>1, <2>2, <2>3 DEF Settings
  <1> QED BY <1>3, <1>4

\* The query after every argument of a call.
Bindings(f, args, params, d, s, n) ==
    /\ f = [k \in 0..n |-> f[k]]
    /\ f[0] = s
    /\ \A k \in 1..n : f[k] = bindParameter(args[k], params[k], d, f[k - 1])

\* There are such values.
LEMMA BindingsExist ==
    ASSUME NEW args, NEW params, NEW d, NEW s, NEW n \in Nat
    PROVE  \E f : Bindings(f, args, params, d, s, n)
  <1> DEFINE S == {m \in 0..n : \E f : Bindings(f, args, params, d, s, m)}
  <1>1. 0 \in S
    <2>1. Bindings([k \in 0..0 |-> s], args, params, d, s, 0)
      BY DEF Bindings
    <2> QED BY <2>1
  <1>2. ASSUME NEW m \in 1..n, m - 1 \in S PROVE m \in S
    <2>1. PICK f : Bindings(f, args, params, d, s, m - 1)
      BY <1>2
    <2>2. m \in Nat /\ m > 0 /\ 0 \in 0..(m - 1)
      OBVIOUS
    <2> DEFINE v == bindParameter(args[m], params[m], d, f[m - 1])
    <2> HIDE DEF v
    <2>3. PICK g : Longer(g, f, m, v)
      BY <2>2, LongerExists
    <2>4. g[0] = s
      <3>1. f[0] = s
        BY <2>1 DEF Bindings
      <3> QED BY <2>2, <2>3, <3>1 DEF Longer
    <2>5. ASSUME NEW k \in 1..m PROVE g[k] = bindParameter(args[k], params[k], d, g[k - 1])
      <3>1. k - 1 \in 0..(m - 1) /\ g[k - 1] = f[k - 1]
        <4>1. k - 1 \in 0..(m - 1)
          BY <2>2
        <4> QED BY <2>3, <4>1 DEF Longer
      <3>2. CASE k = m
        BY <2>3, <3>1, <3>2 DEF Longer, v
      <3>3. CASE k # m
        <4>1. k \in 1..(m - 1) /\ k \in 0..(m - 1)
          BY <2>2, <3>3
        <4> QED BY <2>1, <2>3, <3>1, <4>1 DEF Bindings, Longer
      <3> QED BY <3>2, <3>3
    <2>6. Bindings(g, args, params, d, s, m)
      BY <2>3, <2>4, <2>5 DEF Bindings, Longer
    <2> QED BY <2>6
  <1>3. S \in SUBSET (0..n)
    OBVIOUS
  <1> HIDE DEF S
  <1>4. \A m \in 0..n : m \in S
    BY <1>1, <1>2, <1>3, Climb
  <1>5. n \in S
    BY <1>4
  <1> QED BY <1>5 DEF S

\* Rule R3 gives the last one.
LEMMA ParameterBindings ==
    ASSUME NEW args, NEW params, NEW d, NEW s, NEW n \in Nat, n = IF Len(args) < Len(params) THEN Len(args) ELSE Len(params)
    PROVE  \E f : Bindings(f, args, params, d, s, n) /\ bindParameters(args, params, d, s) = f[n]
  <1> DEFINE step(f) == [k \in 0..n |-> IF k = 0 THEN s ELSE bindParameter(args[k], params[k], d, f[k - 1])]
             f == CHOOSE g : g = step(g)
  <1>1. \E g : g = step(g)
    <2>1. PICK g : Bindings(g, args, params, d, s, n)
      BY BindingsExist
    <2>2. ASSUME NEW k \in 0..n PROVE g[k] = IF k = 0 THEN s ELSE bindParameter(args[k], params[k], d, g[k - 1])
      <3>1. CASE k = 0
        BY <2>1, <3>1 DEF Bindings
      <3>2. CASE k # 0
        <4>1. k \in 1..n
          BY <3>2
        <4>2. g[k] = bindParameter(args[k], params[k], d, g[k - 1])
          BY <2>1, <4>1 DEF Bindings
        <4> QED BY <3>2, <4>2, Zenon
      <3> QED BY <3>1, <3>2
    <2>3. g = [k \in 0..n |-> g[k]]
      BY <2>1 DEF Bindings
    <2>4. [k \in 0..n |-> g[k]] = step(g)
      BY <2>2
    <2> QED BY <2>3, <2>4
  <1>2. f = step(f)
    BY <1>1
  <1>3. bindParameters(args, params, d, s) = f[n]
    BY DEF bindParameters
  <1> HIDE DEF f
  <1>4. Bindings(f, args, params, d, s, n)
    <2>1. f = [k \in 0..n |-> f[k]] /\ \A k \in 0..n : f[k] = IF k = 0 THEN s ELSE bindParameter(args[k], params[k], d, f[k - 1])
      BY <1>2
    <2>2. f[0] = s
      <3>1. 0 \in 0..n
        OBVIOUS
      <3> QED BY <2>1, <3>1, Zenon
    <2>3. ASSUME NEW k \in 1..n PROVE f[k] = bindParameter(args[k], params[k], d, f[k - 1])
      <3>1. k \in 0..n /\ k # 0
        OBVIOUS
      <3> QED BY <2>1, <3>1, Zenon
    <2> QED BY <2>1, <2>2, <2>3 DEF Bindings
  <1> QED BY <1>3, <1>4

\* The query and the stack after every node of a file.
Visits(f, p, file, s, n) ==
    /\ f = [k \in 0..n |-> f[k]]
    /\ f[0] = [flow |-> s, stack |-> <<>>]
    /\ \A k \in 1..n : f[k] = visitNode(p, file[k], f[k - 1])

\* There are such values.
LEMMA VisitsExist ==
    ASSUME NEW p, NEW file, NEW s, NEW n \in Nat
    PROVE  \E f : Visits(f, p, file, s, n)
  <1> DEFINE S == {m \in 0..n : \E f : Visits(f, p, file, s, m)}
  <1>1. 0 \in S
    <2>1. Visits([k \in 0..0 |-> [flow |-> s, stack |-> <<>>]], p, file, s, 0)
      BY DEF Visits
    <2> QED BY <2>1
  <1>2. ASSUME NEW m \in 1..n, m - 1 \in S PROVE m \in S
    <2>1. PICK f : Visits(f, p, file, s, m - 1)
      BY <1>2
    <2>2. m \in Nat /\ m > 0 /\ 0 \in 0..(m - 1)
      OBVIOUS
    <2> DEFINE v == visitNode(p, file[m], f[m - 1])
    <2> HIDE DEF v
    <2>3. PICK g : Longer(g, f, m, v)
      BY <2>2, LongerExists
    <2>4. g[0] = [flow |-> s, stack |-> <<>>]
      <3>1. f[0] = [flow |-> s, stack |-> <<>>]
        BY <2>1 DEF Visits
      <3> QED BY <2>2, <2>3, <3>1 DEF Longer
    <2>5. ASSUME NEW k \in 1..m PROVE g[k] = visitNode(p, file[k], g[k - 1])
      <3>1. k - 1 \in 0..(m - 1) /\ g[k - 1] = f[k - 1]
        <4>1. k - 1 \in 0..(m - 1)
          BY <2>2
        <4> QED BY <2>3, <4>1 DEF Longer
      <3>2. CASE k = m
        BY <2>3, <3>1, <3>2 DEF Longer, v
      <3>3. CASE k # m
        <4>1. k \in 1..(m - 1) /\ k \in 0..(m - 1)
          BY <2>2, <3>3
        <4> QED BY <2>1, <2>3, <3>1, <4>1 DEF Visits, Longer
      <3> QED BY <3>2, <3>3
    <2>6. Visits(g, p, file, s, m)
      BY <2>3, <2>4, <2>5 DEF Visits, Longer
    <2> QED BY <2>6
  <1>3. S \in SUBSET (0..n)
    OBVIOUS
  <1> HIDE DEF S
  <1>4. \A m \in 0..n : m \in S
    BY <1>1, <1>2, <1>3, Climb
  <1>5. n \in S
    BY <1>4
  <1> QED BY <1>5 DEF S

\* A sweep of the file gives the last one.
LEMMA FileVisits ==
    ASSUME NEW p, NEW file, NEW s, NEW n \in Nat, n = Len(file)
    PROVE  \E f : Visits(f, p, file, s, n) /\ propagateInFile(p, file, s) = f[n].flow
  <1> DEFINE step(f) == [k \in 0..n |-> IF k = 0 THEN [flow |-> s, stack |-> <<>>] ELSE visitNode(p, file[k], f[k - 1])]
             f == CHOOSE g : g = step(g)
  <1>1. \E g : g = step(g)
    <2>1. PICK g : Visits(g, p, file, s, n)
      BY VisitsExist
    <2>2. ASSUME NEW k \in 0..n 
          PROVE  g[k] = IF k = 0 THEN [flow |-> s, stack |-> <<>>] ELSE visitNode(p, file[k], g[k - 1])
      <3>1. CASE k = 0
        BY <2>1, <3>1 DEF Visits
      <3>2. CASE k # 0
        <4>1. k \in 1..n
          BY <3>2
        <4>2. g[k] = visitNode(p, file[k], g[k - 1])
          BY <2>1, <4>1 DEF Visits
        <4> QED BY <3>2, <4>2, Zenon
      <3> QED BY <3>1, <3>2
    <2>3. g = [k \in 0..n |-> g[k]]
      BY <2>1 DEF Visits
    <2>4. [k \in 0..n |-> g[k]] = step(g)
      BY <2>2
    <2> QED BY <2>3, <2>4
  <1>2. f = step(f)
    BY <1>1
  <1>3. propagateInFile(p, file, s) = f[n].flow
    BY DEF propagateInFile
  <1> HIDE DEF f
  <1>4. Visits(f, p, file, s, n)
    <2>1. f = [k \in 0..n |-> f[k]] /\ \A k \in 0..n : f[k] = IF k = 0 THEN [flow |-> s, stack |-> <<>>] ELSE visitNode(p, file[k], f[k - 1])
      BY <1>2
    <2>2. f[0] = [flow |-> s, stack |-> <<>>]
      <3>1. 0 \in 0..n
        OBVIOUS
      <3> QED BY <2>1, <3>1, Zenon
    <2>3. ASSUME NEW k \in 1..n PROVE f[k] = visitNode(p, file[k], f[k - 1])
      <3>1. k \in 0..n /\ k # 0
        OBVIOUS
      <3> QED BY <2>1, <3>1, Zenon
    <2> QED BY <2>1, <2>2, <2>3 DEF Visits
  <1> QED BY <1>3, <1>4

\* A set of objects that no edge leaves.
Closed(edges, r) == \A e \in edges : e[1] \in r => e[2] \in r

\* Reach gets to everything: as long as a hop adds an object, the edges that
\* begin at an object reached become more, and there are no more than all.
LEMMA ReachClosed ==
    ASSUME NEW edges, IsFiniteSet(edges), NEW from
    PROVE  from \subseteq Reach(edges, from) /\ Closed(edges, Reach(edges, from))
  <1> DEFINE n == Cardinality(edges)
             out(r) == {x \in edges : x[1] \in r}
  <1>1. n \in Nat
    BY FS_CardinalityType
  <1> HIDE DEF n
  <1>2. PICK f : Hops(f, edges, from, n) /\ Reach(edges, from) = f[n]
    BY <1>1, ReachHops DEF n
  <1>3. \A r : IsFiniteSet(out(r)) /\ Cardinality(out(r)) \in Nat /\ Cardinality(out(r)) <= n
    <2> TAKE r
    <2>1. out(r) \in SUBSET edges
      OBVIOUS
    <2> HIDE DEF out
    <2> QED BY <1>1, <2>1, FS_Subset, FS_CardinalityType DEF n
  <1>4. \A r : OneHop(edges, r) = r \cup {e[2] : e \in out(r)}
    BY DEF OneHop
  <1>5. \A r : Closed(edges, r) <=> \A e \in out(r) : e[2] \in r
    BY DEF Closed
  <1>6. \A r, t : r \subseteq t => out(r) \subseteq out(t)
    OBVIOUS
  <1> HIDE DEF out
  <1>7. \A m \in 1..n : f[m] = f[m - 1] \cup {e[2] : e \in out(f[m - 1])}
    BY <1>2, <1>4 DEF Hops
  <1>8. f[0] = from
    BY <1>2 DEF Hops
  <1> DEFINE S == {k \in 0..n : Closed(edges, f[k]) \/ Cardinality(out(f[k])) >= k + 1}
             B == {k \in 0..n : from \subseteq f[k]}
  <1>9. 0 \in S
    <2>1. CASE out(f[0]) = {}
      BY <1>1, <1>5, <2>1
    <2>2. CASE out(f[0]) # {}
      <3>1. Cardinality(out(f[0])) # 0
        BY <1>3, <2>2, FS_EmptySet
      <3>2. Cardinality(out(f[0])) \in Nat
        BY <1>3
      <3> QED BY <1>1, <3>1, <3>2
    <2> QED BY <2>1, <2>2
  <1>10. ASSUME NEW m \in 1..n, m - 1 \in S PROVE m \in S
    <2>1. f[m] = f[m - 1] \cup {e[2] : e \in out(f[m - 1])}
      BY <1>7
    <2>2. CASE Closed(edges, f[m - 1])
      <3>1. f[m] = f[m - 1]
        BY <1>5, <2>1, <2>2
      <3> QED BY <2>2, <3>1
    <2>3. CASE ~Closed(edges, f[m - 1])
      <3> DEFINE a == out(f[m - 1])
                 b == out(f[m])
      <3>1. Cardinality(a) >= (m - 1) + 1
        BY <1>10, <2>3
      <3>2. a \subseteq b
        BY <1>6, <2>1
      <3>3. IsFiniteSet(b) /\ Cardinality(a) \in Nat /\ Cardinality(b) \in Nat
        BY <1>3
      <3>4. a = b => \A e \in b : e[2] \in f[m]
        BY <2>1
      <3> HIDE DEF a, b
      <3>5. Cardinality(a) <= Cardinality(b) /\ (Cardinality(a) = Cardinality(b) => a = b)
        BY <3>2, <3>3, FS_Subset
      <3>6. CASE a = b
        BY <1>5, <3>4, <3>6 DEF b
      <3>7. CASE a # b
        <4>1. Cardinality(b) >= m + 1
          BY <1>1, <3>1, <3>3, <3>5, <3>7
        <4> QED BY <4>1 DEF b
      <3> QED BY <3>6, <3>7
    <2> QED BY <2>2, <2>3
  <1>11. 0 \in B /\ \A m \in 1..n : m - 1 \in B => m \in B
    BY <1>1, <1>7, <1>8
  <1>12. S \in SUBSET (0..n) /\ B \in SUBSET (0..n)
    OBVIOUS
  <1> HIDE DEF S, B
  <1>13. \A k \in 0..n : k \in S
    BY <1>1, <1>9, <1>10, <1>12, Climb
  <1>14. \A k \in 0..n : k \in B
    BY <1>1, <1>11, <1>12, Climb
  <1>15. n \in S /\ n \in B
    BY <1>1, <1>13, <1>14
  <1>16. ~(Cardinality(out(f[n])) >= n + 1)
    <2>1. Cardinality(out(f[n])) \in Nat /\ Cardinality(out(f[n])) <= n
      BY <1>3
    <2> QED BY <1>1, <2>1
  <1>17. Closed(edges, f[n])
    BY <1>15, <1>16 DEF S
  <1>18. from \subseteq f[n]
    BY <1>15 DEF B
  <1> QED BY <1>2, <1>17, <1>18

------------------------------------------------------------------------------
(* The rules mark nothing that data cannot get to.                         *)

\* The fields of a query.
FlowFields == {"src", "tainted", "depth", "visited", "returns", "worklist", "file", "hit"}

\* R holds what users send, and with an object everything its data goes to.
Covers(p, R) ==
    Closed(AssignFlow(p), R) /\ Closed(CallFlow(p), R) /\ UserInput(p) \subseteq R

\* What the query s has marked is in R, no deeper than parameters are bound.
Within(s, R) ==
    /\ DOMAIN s = FlowFields
    /\ s.tainted \subseteq R
    /\ \A f \in s.returns : ResultOf(f) \in R
    /\ \A o \in DOMAIN s.depth : s.depth[o] \in 0..MaxDepth

\* So it is in t, the same query with more marks and no other answer.
Onward(s, t, R) ==
    /\ Within(t, R) /\ s.tainted \subseteq t.tainted
    /\ t.src = s.src /\ t.file = s.file /\ t.worklist = s.worklist /\ t.hit = s.hit

\* Two such steps are one.
LEMMA OnwardAgain ==
    ASSUME NEW s, NEW t, NEW u, NEW R, Onward(s, t, R), Onward(t, u, R)
    PROVE  Onward(s, u, R)
  BY DEF Onward

\* Marking objects of R.
LEMMA TaintWithin ==
    ASSUME NEW s, NEW R, Within(s, R), NEW objs, objs \subseteq R, NEW d \in 0..MaxDepth
    PROVE  Onward(s, Taint(s, objs, d), R)
  <1> DEFINE more == s.tainted \cup objs
             depth == [o \in objs \cup DOMAIN s.depth |-> IF o \in objs THEN d ELSE s.depth[o]]
             t == [s EXCEPT !.tainted = more, !.depth = depth]
  <1>1. Taint(s, objs, d) = t
    BY DEF Taint
  <1>2. /\ more \subseteq R /\ DOMAIN s = FlowFields /\ s.tainted \subseteq more
        /\ \A o \in DOMAIN depth : depth[o] \in 0..MaxDepth
    BY DEF Within
  <1> HIDE DEF more, depth
  <1>3. /\ DOMAIN t = FlowFields /\ t.tainted = more /\ t.returns = s.returns /\ t.depth = depth
        /\ t.src = s.src /\ t.file = s.file /\ t.worklist = s.worklist /\ t.hit = s.hit
    BY <1>2 DEF FlowFields
  <1> HIDE DEF t
  <1>4. Onward(s, t, R)
    BY <1>2, <1>3 DEF Onward, Within
  <1> QED BY <1>1, <1>4

\* Objects marked by an assignment are at the surface.
LEMMA Surface == 0 \in 0..MaxDepth
  BY DepthAssumption

\* Marking the result of a function in R.
LEMMA ReturnWithin ==
    ASSUME NEW s, NEW R, Within(s, R), NEW f, ResultOf(f) \in R
    PROVE  Onward(s, [s EXCEPT !.returns = @ \cup {f}], R)
  <1> DEFINE more == s.returns \cup {f}
             t == [s EXCEPT !.returns = more]
  <1>1. (\A g \in more : ResultOf(g) \in R) /\ DOMAIN s = FlowFields
    BY DEF Within
  <1>2. t = [s EXCEPT !.returns = @ \cup {f}]
    OBVIOUS
  <1> HIDE DEF more
  <1>3. /\ DOMAIN t = FlowFields /\ t.tainted = s.tainted /\ t.returns = more /\ t.depth = s.depth
        /\ t.src = s.src /\ t.file = s.file /\ t.worklist = s.worklist /\ t.hit = s.hit
    BY <1>1 DEF FlowFields
  <1> HIDE DEF t
  <1>4. Onward(s, t, R)
    BY <1>1, <1>3 DEF Onward, Within
  <1> QED BY <1>2, <1>4

\* A tainted expression reads something of R.
LEMMA ExprWithin ==
    ASSUME NEW s, NEW R, Within(s, R), NEW e, isExprTainted(e, s) \/ isArgTainted(e, s)
    PROVE  \E x \in Read(e) : x \in R
  <1>1. CASE (e.objs \cup e.index \cup e.concat) \cap s.tainted # {}
    BY <1>1 DEF Read, Within
  <1>2. CASE e.calls \cap s.returns # {}
    <2>1. PICK f \in e.calls : f \in s.returns
      BY <1>2
    <2>2. ResultOf(f) \in R
      BY <2>1 DEF Within
    <2>3. ResultOf(f) \in Read(e)
      BY DEF Read
    <2> QED BY <2>2, <2>3
  <1> QED BY <1>1, <1>2 DEF isExprTainted, isArgTainted

\* So does one among several.
LEMMA AnyExprWithin ==
    ASSUME NEW s, NEW R, Within(s, R), NEW es, anyExprTainted(es, s)
    PROVE  \E x \in ReadAll(es) : x \in R
  <1>1. PICK i \in DOMAIN es : isExprTainted(es[i], s)
    BY DEF anyExprTainted
  <1>2. PICK x \in Read(es[i]) : x \in R
    BY <1>1, ExprWithin
  <1>3. x \in ReadAll(es)
    BY DEF ReadAll
  <1> QED BY <1>2, <1>3

\* Along a product of sources and targets.
LEMMA ProductWithin ==
    ASSUME NEW edges, NEW R, Closed(edges, R), NEW A, NEW B, A \X B \subseteq edges,
           \E x \in A : x \in R
    PROVE  B \subseteq R
  <1>1. PICK x \in A : x \in R
    OBVIOUS
  <1>2. ASSUME NEW y \in B PROVE y \in R
    <2>1. <<x, y>> \in edges
      OBVIOUS
    <2>2. <<x, y>>[1] = x /\ <<x, y>>[2] = y
      OBVIOUS
    <2> QED BY <1>1, <2>1, <2>2 DEF Closed
  <1> QED BY <1>2

\* R1.
LEMMA Rule1Within ==
    ASSUME NEW p, NEW R, Covers(p, R), NEW n \in Nodes(p), n.op = "assign", NEW s, Within(s, R)
    PROVE  Onward(s, applyRule1(n, s), R)
  <1>1. CASE anyExprTainted(n.args, s)
    <2>1. ReadAll(n.args) \X n.to \subseteq AssignFlow(p)
      BY DEF AssignFlow
    <2>2. \E x \in ReadAll(n.args) : x \in R
      BY <1>1, AnyExprWithin
    <2>3. Closed(AssignFlow(p), R)
      BY DEF Covers
    <2>4. n.to \subseteq R
      BY <2>1, <2>2, <2>3, ProductWithin
    <2>5. Onward(s, Taint(s, n.to, 0), R)
      BY <2>4, Surface, TaintWithin
    <2> QED BY <1>1, <2>5 DEF applyRule1
  <1>2. CASE ~anyExprTainted(n.args, s)
    BY <1>2 DEF applyRule1, Onward
  <1> QED BY <1>1, <1>2

\* R2, one element and all of them.
LEMMA ElementWithin ==
    ASSUME NEW p, NEW R, Covers(p, R), NEW n \in Nodes(p), n.op = "lit",
           NEW i \in DOMAIN n.elts, NEW s, Within(s, R)
    PROVE  Onward(s, setElement(n.elts[i], s), R)
  <1> DEFINE e == n.elts[i][2]
             o == n.elts[i][1]
  <1>1. CASE isExprTainted(e, s)
    <2>1. Read(e) \X {o} \subseteq AssignFlow(p)
      <3>1. Read(e) \X {o} \subseteq LiteralFlow(n)
        BY DEF LiteralFlow
      <3>2. LiteralFlow(n) \subseteq AssignFlow(p)
        BY DEF AssignFlow
      <3> QED BY <3>1, <3>2
    <2> HIDE DEF e, o
    <2>2. \E x \in Read(e) : x \in R
      BY <1>1, ExprWithin
    <2>3. Closed(AssignFlow(p), R)
      BY DEF Covers
    <2>4. {o} \subseteq R
      BY <2>1, <2>2, <2>3, ProductWithin
    <2>5. Onward(s, Taint(s, {o}, 0), R)
      BY <2>4, Surface, TaintWithin
    <2> QED BY <1>1, <2>5 DEF setElement, e, o
  <1>2. CASE ~isExprTainted(e, s)
    BY <1>2 DEF setElement, Onward
  <1> QED BY <1>1, <1>2

\* All elements, by induction on their number.
LEMMA Rule2Within ==
    ASSUME NEW p, NEW R, Covers(p, R), WellFormed(p), NEW n \in Nodes(p), n.op = "lit", NEW s, Within(s, R)
    PROVE  Onward(s, applyRule2(n, s), R)
  <1> DEFINE m == Len(n.elts)
  <1>1. m \in Nat /\ DOMAIN n.elts = 1..m
    <2>1. n.elts \in Seq(Range(n.elts))
      BY DEF WellFormed
    <2> QED BY <2>1, Indexed
  <1> HIDE DEF m
  <1>2. PICK f : Settings(f, n.elts, s, m) /\ applyRule2(n, s) = f[m]
    BY <1>1, LiteralSettings DEF m
  <1> DEFINE S == {k \in 0..m : Onward(s, f[k], R)}
  <1>3. 0 \in S
    BY <1>1, <1>2 DEF Settings, Onward
  <1>4. ASSUME NEW k \in 1..m, k - 1 \in S PROVE k \in S
    <2>1. Onward(s, f[k - 1], R) /\ k \in DOMAIN n.elts /\ k \in 0..m
      BY <1>1, <1>4
    <2>2. Within(f[k - 1], R)
      BY <2>1 DEF Onward
    <2>3. f[k] = setElement(n.elts[k], f[k - 1])
      BY <1>2 DEF Settings
    <2>4. Onward(f[k - 1], f[k], R)
      BY <2>1, <2>2, <2>3, ElementWithin
    <2>5. Onward(s, f[k], R)
      BY <2>1, <2>4, OnwardAgain
    <2> QED BY <2>1, <2>5
  <1>5. S \in SUBSET (0..m)
    OBVIOUS
  <1> HIDE DEF S
  <1>6. \A k \in 0..m : k \in S
    BY <1>1, <1>3, <1>4, <1>5, Climb
  <1>7. m \in S
    BY <1>1, <1>6
  <1> QED BY <1>2, <1>7 DEF S

\* R3, one argument and all of them.
LEMMA ParameterWithin ==
    ASSUME NEW p, NEW R, Covers(p, R), NEW n \in Nodes(p), n.op = "call", n.fn \in DOMAIN p.funcs,
           NEW i \in 1..Len(n.args), i \in 1..Len(p.funcs[n.fn].params), NEW d \in 0..MaxDepth,
           NEW s, Within(s, R)
    PROVE  Onward(s, bindParameter(n.args[i], p.funcs[n.fn].params[i], d, s), R)
  <1> DEFINE e == n.args[i]
             o == p.funcs[n.fn].params[i]
  <1>1. CASE isExprTainted(e, s)
    <2>1. Read(e) \X {o} \subseteq CallFlow(p)
      <3>1. Read(e) \X {o} \subseteq ArgumentFlow(n, p.funcs[n.fn].params)
        BY DEF ArgumentFlow
      <3>2. ArgumentFlow(n, p.funcs[n.fn].params) \subseteq CallFlow(p)
        BY DEF CallFlow
      <3> QED BY <3>1, <3>2
    <2> HIDE DEF e, o
    <2>2. \E x \in Read(e) : x \in R
      BY <1>1, ExprWithin
    <2>3. Closed(CallFlow(p), R)
      BY DEF Covers
    <2>4. {o} \subseteq R
      BY <2>1, <2>2, <2>3, ProductWithin
    <2>5. Onward(s, Taint(s, {o}, d), R)
      BY <2>4, TaintWithin
    <2> QED BY <1>1, <2>5 DEF bindParameter, e, o
  <1>2. CASE ~isExprTainted(e, s)
    BY <1>2 DEF bindParameter, Onward
  <1> QED BY <1>1, <1>2

\* All arguments, by induction on their number.
LEMMA ParametersWithin ==
    ASSUME NEW p, NEW R, Covers(p, R), WellFormed(p), NEW n \in Nodes(p), n.op = "call",
           n.fn \in DOMAIN p.funcs, NEW d \in 0..MaxDepth, NEW s, Within(s, R)
    PROVE  Onward(s, bindParameters(n.args, p.funcs[n.fn].params, d, s), R)
  <1> DEFINE args == n.args
             params == p.funcs[n.fn].params
             m == IF Len(args) < Len(params) THEN Len(args) ELSE Len(params)
  <1>1. Len(args) \in Nat /\ Len(params) \in Nat
    <2>1. args \in Seq(Range(args)) /\ params \in Seq(Range(params))
      BY DEF WellFormed
    <2> HIDE DEF args, params
    <2> QED BY <2>1, Indexed
  <1>2. m \in Nat /\ \A k \in 1..m : k \in 1..Len(args) /\ k \in 1..Len(params)
    <2> HIDE DEF args, params
    <2> QED BY <1>1
  <1>3. m = IF Len(args) < Len(params) THEN Len(args) ELSE Len(params)
    OBVIOUS
  <1> HIDE DEF m
  <1>4. PICK f : Bindings(f, args, params, d, s, m) /\ bindParameters(args, params, d, s) = f[m]
    <2> HIDE DEF args, params
    <2> QED BY <1>2, <1>3, ParameterBindings
  <1> DEFINE S == {k \in 0..m : Onward(s, f[k], R)}
  <1>5. 0 \in S
    BY <1>2, <1>4 DEF Bindings, Onward
  <1>6. ASSUME NEW k \in 1..m, k - 1 \in S PROVE k \in S
    <2>1. Onward(s, f[k - 1], R) /\ k \in 0..m
      BY <1>2, <1>6
    <2>2. Within(f[k - 1], R)
      BY <2>1 DEF Onward
    <2>3. f[k] = bindParameter(args[k], params[k], d, f[k - 1])
      BY <1>4 DEF Bindings
    <2>4. Onward(f[k - 1], bindParameter(args[k], params[k], d, f[k - 1]), R)
      BY <1>2, <2>2, ParameterWithin
    <2>5. Onward(s, f[k], R)
      BY <2>1, <2>3, <2>4, OnwardAgain
    <2> QED BY <2>1, <2>5
  <1>7. S \in SUBSET (0..m)
    OBVIOUS
  <1> HIDE DEF S
  <1>8. \A k \in 0..m : k \in S
    BY <1>2, <1>5, <1>6, <1>7, Climb
  <1>9. m \in S
    BY <1>2, <1>8
  <1> QED BY <1>4, <1>9 DEF S

\* The deepest parameter so far.
LEMMA Deepest ==
    ASSUME NEW s, NEW R, Within(s, R)
    PROVE  Max({0} \cup Range(s.depth)) \in 0..MaxDepth
  <1> DEFINE D == {0} \cup Range(s.depth)
  <1>1. D \in SUBSET (0..MaxDepth)
    BY Surface DEF Within, Range
  <1>2. D \in SUBSET Int /\ IsFiniteSet(D) /\ D # {}
    <2>1. 0 \in Int /\ MaxDepth \in Int /\ D # {}
      BY DepthAssumption
    <2> HIDE DEF D
    <2>2. IsFiniteSet(0..MaxDepth)
      BY <2>1, FS_Interval
    <2>3. IsFiniteSet(D)
      BY <1>1, <2>2, FS_Subset
    <2> QED BY <1>1, <2>1, <2>3
  <1> HIDE DEF D
  <1>3. \E x \in D : \A y \in D : x >= y
    BY <1>2, GreatestMember
  <1>4. Max(D) \in D
    BY <1>3 DEF Max
  <1> QED BY <1>1, <1>4 DEF D

\* R3 marks the callee as visited and binds, or does neither.
LEMMA Rule3Within ==
    ASSUME NEW p, NEW R, Covers(p, R), WellFormed(p), NEW n \in Nodes(p), n.op = "call",
           n.fn \in DOMAIN p.funcs, NEW s, Within(s, R)
    PROVE  Onward(s, applyRule3(p, n, s), R)
  <1> DEFINE next == 1 + Max({0} \cup Range(s.depth))
             seen == s.visited \cup {n.fn}
             marked == [s EXCEPT !.visited = seen]
  <1>1. Onward(s, marked, R)
    <2> HIDE DEF seen
    <2>1. DOMAIN s = FlowFields
      BY DEF Within
    <2>2. /\ DOMAIN marked = FlowFields /\ marked.tainted = s.tainted /\ marked.returns = s.returns
          /\ marked.depth = s.depth
          /\ marked.src = s.src /\ marked.file = s.file /\ marked.worklist = s.worklist /\ marked.hit = s.hit
      BY <2>1 DEF FlowFields
    <2> HIDE DEF marked
    <2> QED BY <2>2 DEF Onward, Within
  <1>2. Onward(s, s, R)
    BY DEF Onward
  <1>3. ASSUME ~(next > MaxDepth)
        PROVE  Onward(s, bindParameters(n.args, p.funcs[n.fn].params, next, marked), R)
    <2>3. next \in 0..MaxDepth
      <3> DEFINE deepest == Max({0} \cup Range(s.depth))
      <3>1. deepest \in 0..MaxDepth
        BY Deepest
      <3> HIDE DEF deepest
      <3> QED BY <1>3, <3>1, DepthAssumption DEF deepest
    <2> HIDE DEF marked, next
    <2>1. Within(marked, R)
      BY <1>1 DEF Onward
    <2>2. Onward(marked, bindParameters(n.args, p.funcs[n.fn].params, next, marked), R)
      BY <2>1, <2>3, ParametersWithin
    <2> QED BY <1>1, <2>2, OnwardAgain
  <1>4. \/ applyRule3(p, n, s) = s
        \/ applyRule3(p, n, s) = marked
        \/ ~(next > MaxDepth) /\ applyRule3(p, n, s) = bindParameters(n.args, p.funcs[n.fn].params, next, marked)
    BY DEF applyRule3
  <1> HIDE DEF marked, next
  <1> QED BY <1>1, <1>2, <1>3, <1>4

\* Expressions as the propagators read them.
LEMMA AnyArgWithin ==
    ASSUME NEW s, NEW R, Within(s, R), NEW es, \E i \in DOMAIN es : isArgTainted(es[i], s)
    PROVE  \E x \in ReadAll(es) : x \in R
  <1>1. PICK i \in DOMAIN es : isArgTainted(es[i], s)
    OBVIOUS
  <1>2. PICK x \in Read(es[i]) : x \in R
    BY <1>1, ExprWithin
  <1>3. x \in ReadAll(es)
    BY DEF ReadAll
  <1> QED BY <1>2, <1>3

\* The propagators of user input.
LEMMA PropagatedWithin ==
    ASSUME NEW p, NEW R, Covers(p, R), NEW n \in Nodes(p), n.op = "call", n.fn \in DOMAIN p.funcs,
           NEW s, Within(s, R)
    PROVE  Onward(s, propagateUserInput(p, n, s), R)
  <1> DEFINE kind == p.funcs[n.fn].kind
             argTainted == \E i \in DOMAIN n.args : isArgTainted(n.args[i], s)
             recvTainted == isArgTainted(n.recv, s)
  <1>1. Closed(CallFlow(p), R)
    BY DEF Covers
  <1>2. argTainted => \E x \in ReadAll(n.args) : x \in R
    BY AnyArgWithin
  <1>3. recvTainted => \E x \in Read(n.recv) : x \in R
    BY ExprWithin
  <1>4. Onward(s, s, R)
    BY DEF Onward
  <1>5. CASE kind = "through" /\ (argTainted \/ recvTainted)
    <2> DEFINE A == ReadAll(n.args) \cup Read(n.recv)
    <2>1. A \X {ResultOf(n.fn)} \subseteq CallFlow(p)
      <3>1. n \in Calls(p, {"through"})
        BY <1>5 DEF Calls
      <3> QED BY <3>1 DEF CallFlow
    <2>2. \E x \in A : x \in R
      BY <1>2, <1>3, <1>5
    <2> HIDE DEF A
    <2>3. {ResultOf(n.fn)} \subseteq R
      BY <1>1, <2>1, <2>2, ProductWithin
    <2>4. Onward(s, seedCallReturn(n, s), R)
      BY <2>3, ReturnWithin DEF seedCallReturn
    <2>5. propagateUserInput(p, n, s) = seedCallReturn(n, s)
      BY <1>5 DEF propagateUserInput
    <2> QED BY <2>4, <2>5
  <1>6. CASE kind = "into" /\ argTainted
    <2>1. ReadAll(n.args) \X n.to \subseteq CallFlow(p)
      <3>1. n \in Calls(p, {"into"})
        BY <1>6 DEF Calls
      <3> QED BY <3>1 DEF CallFlow
    <2>2. \E x \in ReadAll(n.args) : x \in R
      BY <1>2, <1>6
    <2>3. n.to \subseteq R
      BY <1>1, <2>1, <2>2, ProductWithin
    <2> DEFINE more == s.tainted \cup n.to
               t == [s EXCEPT !.tainted = more]
    <2>4. more \subseteq R /\ DOMAIN s = FlowFields /\ s.tainted \subseteq more
      BY <2>3 DEF Within
    <2>5. taintDestObject(n, s) = t
      BY DEF taintDestObject
    <2> HIDE DEF more
    <2>6. /\ DOMAIN t = FlowFields /\ t.tainted = more /\ t.returns = s.returns /\ t.depth = s.depth
          /\ t.src = s.src /\ t.file = s.file /\ t.worklist = s.worklist /\ t.hit = s.hit
      BY <2>4 DEF FlowFields
    <2> HIDE DEF t
    <2>7. Onward(s, t, R)
      BY <2>4, <2>6 DEF Onward, Within
    <2>8. propagateUserInput(p, n, s) = taintDestObject(n, s)
      BY <1>6 DEF propagateUserInput
    <2> QED BY <2>5, <2>7, <2>8
  <1>7. CASE ~(kind = "through" /\ (argTainted \/ recvTainted)) /\ ~(kind = "into" /\ argTainted)
    <2>1. propagateUserInput(p, n, s) = s
      BY <1>7 DEF propagateUserInput
    <2> QED BY <1>4, <2>1
  <1> QED BY <1>5, <1>6, <1>7

\* And its sources.
LEMMA UserInputWithin ==
    ASSUME NEW p, NEW R, Covers(p, R), NEW n \in Nodes(p), n.op = "call", n.fn \in DOMAIN p.funcs,
           NEW s, Within(s, R)
    PROVE  Onward(s, propagateUserInputCall(p, n, s), R)
  <1> DEFINE kind == p.funcs[n.fn].kind
  <1>1. UserInput(p) \subseteq R
    BY DEF Covers
  <1>2. CASE kind = "accessor"
    <2>1. ResultOf(n.fn) \in R
      <3>1. n \in Calls(p, {"accessor"})
        BY <1>2 DEF Calls
      <3> QED BY <1>1, <3>1 DEF UserInput
    <2>2. Onward(s, seedCallReturn(n, s), R)
      BY <2>1, ReturnWithin DEF seedCallReturn
    <2> QED BY <1>2, <2>2 DEF propagateUserInputCall
  <1>3. CASE kind = "decoder"
    <2>1. n.to \subseteq R
      <3>1. n \in Calls(p, {"decoder", "recovery"})
        BY <1>3 DEF Calls
      <3> QED BY <1>1, <3>1 DEF UserInput
    <2>2. Onward(s, seedBodyDecoderFields(n, s), R)
      BY <2>1, Surface, TaintWithin DEF seedBodyDecoderFields
    <2>3. propagateUserInputCall(p, n, s) = seedBodyDecoderFields(n, s)
      BY <1>3 DEF propagateUserInputCall
    <2> QED BY <2>2, <2>3
  <1>4. CASE kind # "accessor" /\ kind # "decoder"
    <2>1. propagateUserInputCall(p, n, s) = propagateUserInput(p, n, s)
      BY <1>4 DEF propagateUserInputCall
    <2> QED BY <2>1, PropagatedWithin
  <1> QED BY <1>2, <1>3, <1>4

\* A call: the recovered value, the propagators, R3.
LEMMA CallWithin ==
    ASSUME NEW p, NEW R, Covers(p, R), WellFormed(p), NEW n \in Nodes(p), n.op = "call", NEW s, Within(s, R)
    PROVE  Onward(s, visitCall(p, n, s), R)
  <1>1. CASE n.fn \notin DOMAIN p.funcs
    BY <1>1 DEF visitCall, Onward
  <1>2. CASE n.fn \in DOMAIN p.funcs
    <2> DEFINE found == RecognizeRecoveryCallback(p, n)
               t == Taint(s, found, 0)
               u == propagateUserInputCall(p, n, t)
    <2>1. found \subseteq R
      <3>1. CASE p.funcs[n.fn].kind = "recovery"
        <4>1. n \in Calls(p, {"decoder", "recovery"})
          BY <1>2, <3>1 DEF Calls
        <4>2. n.to \subseteq UserInput(p)
          BY <4>1 DEF UserInput
        <4> QED BY <3>1, <4>2 DEF RecognizeRecoveryCallback, Covers
      <3>2. CASE p.funcs[n.fn].kind # "recovery"
        BY <3>2 DEF RecognizeRecoveryCallback
      <3> QED BY <3>1, <3>2
    <2>2. visitCall(p, n, s) = applyRule3(p, n, u)
      BY <1>2 DEF visitCall
    <2>3. Onward(s, t, R)
      <3> HIDE DEF found
      <3> QED BY <2>1, Surface, TaintWithin
    <2>4. Within(t, R)
      <3> HIDE DEF t
      <3> QED BY <2>3 DEF Onward
    <2>5. Onward(t, u, R)
      <3> HIDE DEF t
      <3> QED BY <1>2, <2>4, UserInputWithin
    <2> HIDE DEF t, u
    <2>6. Onward(s, u, R)
      BY <2>3, <2>5, OnwardAgain
    <2>7. Within(u, R)
      BY <2>5 DEF Onward
    <2>8. Onward(u, applyRule3(p, n, u), R)
      BY <1>2, <2>7, Rule3Within
    <2> QED BY <2>2, <2>6, <2>8, OnwardAgain
  <1> QED BY <1>1, <1>2

\* A query that has marked nothing outside R, and has hit a sink only if
\* something of R is stored.
Justified(p, s, R) == Within(s, R) /\ (s.hit => R \cap Stored(p) # {})

\* The query after a node, which is still about the same field.
GoodVisit(p, w, q, R) ==
    /\ DOMAIN w = {"flow", "stack"} /\ w.stack = <<>>
    /\ Justified(p, w.flow, R) /\ q.tainted \subseteq w.flow.tainted
    /\ w.flow.src = q.src /\ w.flow.file = q.file /\ w.flow.worklist = q.worklist

\* Each kind of node keeps it; the stack stays empty, so R4 marks nothing.
LEMMA VisitJustified ==
    ASSUME NEW p, NEW R, Covers(p, R), WellFormed(p), NEW n \in Nodes(p), NEW q,
           NEW w, GoodVisit(p, w, q, R)
    PROVE  GoodVisit(p, visitNode(p, n, w), q, R)
  <1>1. CASE w.flow.hit
    BY <1>1 DEF visitNode
  <1>2. CASE ~w.flow.hit
    <2> DEFINE s == w.flow
    <2>1. /\ Within(s, R) /\ q.tainted \subseteq s.tainted
          /\ s.src = q.src /\ s.file = q.file /\ s.worklist = q.worklist
          /\ DOMAIN w = {"flow", "stack"} /\ w.stack = <<>>
      BY DEF GoodVisit, Justified
    <2>2. ASSUME NEW t, Onward(s, t, R)
          PROVE  GoodVisit(p, [w EXCEPT !.flow = t], q, R)
      <3> DEFINE v == [w EXCEPT !.flow = t]
      <3>1. DOMAIN v = {"flow", "stack"} /\ v.stack = <<>> /\ v.flow = t
        BY <2>1
      <3>2. /\ Within(t, R) /\ q.tainted \subseteq t.tainted
            /\ t.src = q.src /\ t.file = q.file /\ t.worklist = q.worklist /\ ~t.hit
        BY <1>2, <2>1, <2>2 DEF Onward
      <3> HIDE DEF v
      <3>3. GoodVisit(p, v, q, R)
        BY <3>1, <3>2 DEF GoodVisit, Justified
      <3> QED BY <3>3 DEF v
    <2> HIDE DEF s
    <2>3. n.op \in {"assign", "lit", "func", "return", "call"}
      BY DEF WellFormed
    <2>4. CASE n.op = "assign"
      <3>1. visitNode(p, n, w) = [w EXCEPT !.flow = applyRule1(n, s)]
        BY <1>2, <2>4 DEF visitNode, s
      <3>2. Onward(s, applyRule1(n, s), R)
        BY <2>1, <2>4, Rule1Within
      <3> QED BY <2>2, <3>1, <3>2
    <2>5. CASE n.op = "lit"
      <3>1. visitNode(p, n, w) = [w EXCEPT !.flow = applyRule2(n, s)]
        BY <1>2, <2>5 DEF visitNode, s
      <3>2. Onward(s, applyRule2(n, s), R)
        BY <2>1, <2>5, Rule2Within
      <3> QED BY <2>2, <3>1, <3>2
    <2>6. CASE n.op = "func"
      <3>1. visitNode(p, n, w) = [w EXCEPT !.stack = enclosingFunc(<<>>, n)]
        BY <1>2, <2>1, <2>6 DEF visitNode
      <3>2. enclosingFunc(<<>>, n) = <<>>
        <4>1. Append(<<>>, n.fn) = <<n.fn>>
          OBVIOUS
        <4>2. Front(<<n.fn>>) = <<>>
          BY DEF Front
        <4> QED BY <4>1, <4>2 DEF enclosingFunc
      <3> DEFINE v == [w EXCEPT !.stack = <<>>]
      <3>3. DOMAIN v = {"flow", "stack"} /\ v.stack = <<>> /\ v.flow = w.flow
        BY <2>1
      <3> HIDE DEF v
      <3>4. GoodVisit(p, v, q, R)
        BY <3>3 DEF GoodVisit
      <3> QED BY <3>1, <3>2, <3>4 DEF v
    <2>7. CASE n.op = "return"
      <3>1. visitNode(p, n, w) = [w EXCEPT !.flow = applyRule4(n, w.stack, s)]
        BY <1>2, <2>7 DEF visitNode, s
      <3>2. applyRule4(n, w.stack, s) = s
        BY <2>1 DEF applyRule4
      <3>3. Onward(s, s, R)
        BY <2>1 DEF Onward
      <3> QED BY <2>2, <3>1, <3>2, <3>3
    <2>8. CASE n.op = "call"
      <3>1. CASE checkSinkHit(p, n, s)
        <4>1. visitNode(p, n, w) = [w EXCEPT !.flow.hit = TRUE]
          BY <1>2, <2>8, <3>1 DEF visitNode, s
        <4> DEFINE t == [s EXCEPT !.hit = TRUE]
                   v == [w EXCEPT !.flow = t]
        <4>2. [w EXCEPT !.flow.hit = TRUE] = v
          BY DEF s
        <4>3. /\ t.tainted = s.tainted /\ t.depth = s.depth /\ t.returns = s.returns
              /\ t.src = s.src /\ t.file = s.file /\ t.worklist = s.worklist /\ t.hit /\ DOMAIN t = FlowFields
          BY <2>1 DEF FlowFields, Within
        <4> HIDE DEF t
        <4>4. DOMAIN v = {"flow", "stack"} /\ v.stack = <<>> /\ v.flow = t
          BY <2>1
        <4> HIDE DEF v
        <4>5. R \cap Stored(p) # {}
          <5>1. n.fn \in p.sinks /\ anyExprTainted(n.args, s)
            BY <3>1 DEF checkSinkHit
          <5>2. PICK x \in ReadAll(n.args) : x \in R
            BY <2>1, <5>1, AnyExprWithin
          <5>3. x \in Stored(p)
            BY <2>8, <5>1 DEF Stored
          <5> QED BY <5>2, <5>3
        <4>6. GoodVisit(p, v, q, R)
          BY <2>1, <4>3, <4>4, <4>5 DEF GoodVisit, Justified, Within
        <4> QED BY <4>1, <4>2, <4>6
      <3>2. CASE ~checkSinkHit(p, n, s)
        <4>1. visitNode(p, n, w) = [w EXCEPT !.flow = visitCall(p, n, s)]
          BY <1>2, <2>8, <3>2 DEF visitNode, s
        <4>2. Onward(s, visitCall(p, n, s), R)
          BY <2>1, <2>8, CallWithin
        <4> QED BY <2>2, <4>1, <4>2
      <3> QED BY <3>1, <3>2
    <2> QED BY <2>3, <2>4, <2>5, <2>6, <2>7, <2>8
  <1> QED BY <1>1, <1>2

\* Every node of a file.
LEMMA VisitsJustified ==
    ASSUME NEW p, NEW R, Covers(p, R), WellFormed(p), NEW file, NEW m \in Nat,
           \A i \in 1..m : file[i] \in Nodes(p),
           NEW s, Justified(p, s, R), NEW f, Visits(f, p, file, s, m)
    PROVE  \A i \in 0..m : GoodVisit(p, f[i], s, R)
  <1> DEFINE S == {i \in 0..m : GoodVisit(p, f[i], s, R)}
  <1>1. 0 \in S
    <2>1. f[0] = [flow |-> s, stack |-> <<>>]
      BY DEF Visits
    <2> QED BY <2>1 DEF GoodVisit
  <1>2. ASSUME NEW i \in 1..m, i - 1 \in S PROVE i \in S
    <2>1. GoodVisit(p, f[i - 1], s, R) /\ i \in 0..m
      BY <1>2
    <2>2. f[i] = visitNode(p, file[i], f[i - 1]) /\ file[i] \in Nodes(p)
      BY DEF Visits
    <2>3. GoodVisit(p, f[i], s, R)
      BY <2>1, <2>2, VisitJustified
    <2> QED BY <2>1, <2>3
  <1>3. S \in SUBSET (0..m)
    OBVIOUS
  <1> HIDE DEF S
  <1>4. \A i \in 0..m : i \in S
    BY <1>1, <1>2, <1>3, Climb
  <1> QED BY <1>4 DEF S

\* A sweep over one file: what s has become in t.
Swept(p, s, t, R) ==
    /\ Justified(p, t, R) /\ s.tainted \subseteq t.tainted
    /\ t.src = s.src /\ t.file = s.file /\ t.worklist = s.worklist

\* A file is a sequence of nodes.
LEMMA FileNodes ==
    ASSUME NEW p, WellFormed(p), NEW k \in DOMAIN p.files
    PROVE  /\ Len(p.files[k]) \in Nat /\ DOMAIN p.files[k] = 1..Len(p.files[k])
           /\ \A i \in 1..Len(p.files[k]) : p.files[k][i] \in Nodes(p)
  <1>1. p.files \in Seq(Seq(Nodes(p)))
    BY DEF WellFormed
  <1>2. p.files[k] \in Seq(Nodes(p))
    BY <1>1
  <1> QED BY <1>2

\* From the last of its nodes.
LEMMA FileJustified ==
    ASSUME NEW p, NEW R, Covers(p, R), WellFormed(p), NEW k \in DOMAIN p.files,
           NEW s, Justified(p, s, R)
    PROVE  Swept(p, s, propagateInFile(p, p.files[k], s), R)
  <1> DEFINE file == p.files[k]
             m == Len(file)
  <1>1. m \in Nat /\ \A i \in 1..m : file[i] \in Nodes(p)
    BY FileNodes
  <1> HIDE DEF file, m
  <1>2. PICK f : Visits(f, p, file, s, m) /\ propagateInFile(p, file, s) = f[m].flow
    BY <1>1, FileVisits DEF m
  <1>3. \A i \in 0..m : GoodVisit(p, f[i], s, R)
    BY <1>1, <1>2, VisitsJustified
  <1>4. GoodVisit(p, f[m], s, R)
    BY <1>1, <1>3
  <1>5. Swept(p, s, f[m].flow, R)
    BY <1>4 DEF GoodVisit, Swept
  <1> QED BY <1>2, <1>5 DEF file

\* The worklist and the position say nothing about marks.
LEMMA SweepJustified ==
    ASSUME NEW p, NEW R, Covers(p, R), WellFormed(p), NEW s, s.file \in DOMAIN p.files, Justified(p, s, R)
    PROVE  /\ Justified(p, SweepFile(p, s), R) /\ s.tainted \subseteq SweepFile(p, s).tainted
           /\ SweepFile(p, s).src = s.src /\ SweepFile(p, s).file = s.file + 1
           /\ SweepFile(p, s).hit = propagateInFile(p, p.files[s.file], s).hit
           /\ SweepFile(p, s).tainted = propagateInFile(p, p.files[s.file], s).tainted
           /\ SweepFile(p, s).worklist = Requeue(s, propagateInFile(p, p.files[s.file], s)).worklist
  <1> DEFINE t == propagateInFile(p, p.files[s.file], s)
             all == t.worklist \cup {o \in t.tainted : DepthOf(t, o) <= MaxDepth}
             r == [t EXCEPT !.worklist = all]
             u == Requeue(s, t)
             next == u.file + 1
             v == [u EXCEPT !.file = next]
  <1>1. Swept(p, s, t, R)
    BY FileJustified
  <1>2. SweepFile(p, s) = v
    BY DEF SweepFile
  <1>3. u = t \/ u = r
    BY DEF Requeue
  <1> HIDE DEF t, all, u, next
  <1>4. /\ DOMAIN r = FlowFields /\ r.tainted = t.tainted /\ r.depth = t.depth /\ r.returns = t.returns
        /\ r.src = t.src /\ r.file = t.file /\ r.hit = t.hit
    BY <1>1 DEF Swept, Justified, Within, FlowFields
  <1> HIDE DEF r
  <1>5. Justified(p, r, R)
    BY <1>1, <1>4 DEF Swept, Justified, Within
  <1>6. Justified(p, u, R) /\ u.tainted = t.tainted /\ u.src = s.src /\ u.file = s.file /\ u.hit = t.hit
    BY <1>1, <1>3, <1>4, <1>5 DEF Swept
  <1>7. /\ DOMAIN v = FlowFields /\ v.tainted = u.tainted /\ v.depth = u.depth /\ v.returns = u.returns
        /\ v.src = u.src /\ v.file = next /\ v.hit = u.hit /\ v.worklist = u.worklist
    BY <1>6 DEF Justified, Within, FlowFields
  <1> HIDE DEF v
  <1>8. Justified(p, v, R)
    BY <1>6, <1>7 DEF Justified, Within
  <1>9. s.tainted \subseteq v.tainted
    BY <1>1, <1>6, <1>7 DEF Swept
  <1>10. v.file = s.file + 1
    BY <1>6, <1>7 DEF next
  <1>11. v.src = s.src /\ v.hit = t.hit /\ v.tainted = t.tainted /\ v.worklist = u.worklist
    BY <1>6, <1>7
  <1> QED BY <1>2, <1>8, <1>9, <1>10, <1>11 DEF t, u

\* Taking an object from the worklist marks nothing.
LEMMA TakeJustified ==
    ASSUME NEW p, NEW R, NEW s, Justified(p, s, R), NEW obj
    PROVE  /\ Justified(p, TakeObject(s, obj), R) /\ TakeObject(s, obj).tainted = s.tainted
           /\ TakeObject(s, obj).src = s.src /\ TakeObject(s, obj).file = 1 /\ TakeObject(s, obj).hit = s.hit
  <1> DEFINE less == s.worklist \ {obj}
             v == [s EXCEPT !.worklist = less, !.file = 1]
  <1>1. TakeObject(s, obj) = v
    BY DEF TakeObject
  <1> HIDE DEF less
  <1>2. /\ DOMAIN v = FlowFields /\ v.tainted = s.tainted /\ v.depth = s.depth /\ v.returns = s.returns
        /\ v.src = s.src /\ v.file = 1 /\ v.hit = s.hit
    BY DEF Justified, Within, FlowFields
  <1> HIDE DEF v
  <1> QED BY <1>1, <1>2 DEF Justified, Within

------------------------------------------------------------------------------
(* The sweeps stop when nothing is left to mark.                           *)

\* Sets that only grow and end as they began are the same all along.
LEMMA Squeezed ==
    ASSUME NEW m \in Nat, NEW A, \A k \in 1..m : A[k - 1] \subseteq A[k], A[m] \subseteq A[0]
    PROVE  \A k \in 0..m : A[k] = A[0]
  <1> DEFINE S == {k \in 0..m : \A j \in 0..k : A[j] \subseteq A[k]}
  <1>1. 0 \in S
    OBVIOUS
  <1>2. ASSUME NEW k \in 1..m, k - 1 \in S PROVE k \in S
    <2>1. A[k - 1] \subseteq A[k] /\ \A j \in 0..(k - 1) : A[j] \subseteq A[k - 1]
      BY <1>2
    <2>2. ASSUME NEW j \in 0..k PROVE A[j] \subseteq A[k]
      <3>1. CASE j = k
        BY <3>1
      <3>2. CASE j # k
        <4>1. j \in 0..(k - 1)
          BY <3>2
        <4> QED BY <2>1, <4>1
      <3> QED BY <3>1, <3>2
    <2>3. k \in 0..m
      OBVIOUS
    <2> QED BY <2>2, <2>3
  <1>3. S \in SUBSET (0..m)
    OBVIOUS
  <1>4. \A k \in 0..m : k \in S
    <2> HIDE DEF S
    <2> QED BY <1>1, <1>2, <1>3, Climb
  <1>5. ASSUME NEW k \in 0..m PROVE A[k] = A[0]
    <2>1. A[0] \subseteq A[k]
      <3>1. k \in S /\ 0 \in 0..k
        BY <1>4
      <3> QED BY <3>1
    <2>2. A[k] \subseteq A[m]
      <3>1. m \in S
        BY <1>4
      <3> QED BY <3>1
    <2> QED BY <2>1, <2>2
  <1> QED BY <1>5

\* Reach stays in every set that no edge leaves.
LEMMA ReachLeast ==
    ASSUME NEW edges, IsFiniteSet(edges), NEW from, NEW C, from \subseteq C, Closed(edges, C)
    PROVE  Reach(edges, from) \subseteq C
  <1> DEFINE n == Cardinality(edges)
  <1>1. n \in Nat
    BY FS_CardinalityType
  <1> HIDE DEF n
  <1>2. PICK f : Hops(f, edges, from, n) /\ Reach(edges, from) = f[n]
    BY <1>1, ReachHops DEF n
  <1> DEFINE S == {k \in 0..n : f[k] \subseteq C}
  <1>3. 0 \in S
    BY <1>1, <1>2 DEF Hops
  <1>4. ASSUME NEW k \in 1..n, k - 1 \in S PROVE k \in S
    <2>1. f[k - 1] \subseteq C /\ k \in 0..n
      BY <1>1, <1>4
    <2>2. f[k] = OneHop(edges, f[k - 1])
      BY <1>2 DEF Hops
    <2>3. OneHop(edges, f[k - 1]) \subseteq C
      BY <2>1 DEF OneHop, Closed
    <2> QED BY <2>1, <2>2, <2>3
  <1>5. S \in SUBSET (0..n)
    OBVIOUS
  <1> HIDE DEF S
  <1>6. \A k \in 0..n : k \in S
    BY <1>1, <1>3, <1>4, <1>5, Climb
  <1>7. n \in S
    BY <1>1, <1>6
  <1> QED BY <1>2, <1>7 DEF S

\* Finitely many edges lead to finitely many objects.
LEMMA ReachFinite ==
    ASSUME NEW edges, IsFiniteSet(edges), NEW from, IsFiniteSet(from)
    PROVE  IsFiniteSet(Reach(edges, from))
  <1> DEFINE to == [e \in edges |-> e[2]]
             T == {to[e] : e \in edges}
             C == from \cup T
  <1>1. to \in Surjection(edges, T)
    BY DEF Surjection
  <1>2. IsFiniteSet(T)
    <2> HIDE DEF to, T
    <2> QED BY <1>1, FS_Surjection
  <1>3. IsFiniteSet(C)
    <2> HIDE DEF T
    <2> QED BY <1>2, FS_Union
  <1>4. from \subseteq C /\ Closed(edges, C)
    BY DEF Closed
  <1> HIDE DEF C
  <1>5. Reach(edges, from) \subseteq C
    BY <1>4, ReachLeast
  <1> QED BY <1>3, <1>5, FS_Subset

\* An expression that rules R1, R2 and R5 take for tainted by the objects T.
Touches(e, T) == (e.objs \cup e.index) \cap T # {}

\* Those rules add nothing to T at node n, and find no sink.
Settled(p, n, T) ==
    /\ n.op = "assign" /\ (\E i \in DOMAIN n.args : Touches(n.args[i], T)) => n.to \subseteq T
    /\ n.op = "lit" => \A i \in DOMAIN n.elts : Touches(n.elts[i][2], T) => n.elts[i][1] \in T
    /\ n.op = "call" /\ n.fn \in p.sinks => \A i \in DOMAIN n.args : ~Touches(n.args[i], T)

\* Nor at any node of a file.
FileSettled(p, k, T) == \A i \in DOMAIN p.files[k] : Settled(p, p.files[k][i], T)

\* What objects touch is tainted.
LEMMA TouchTaints ==
    ASSUME NEW s, NEW e, Touches(e, s.tainted)
    PROVE  isExprTainted(e, s)
  BY DEF Touches, isExprTainted

\* Marks are kept.
LEMMA TaintMarks ==
    ASSUME NEW s, DOMAIN s = FlowFields, NEW objs, NEW d
    PROVE  objs \subseteq Taint(s, objs, d).tainted
  <1> DEFINE more == s.tainted \cup objs
             depth == [o \in objs \cup DOMAIN s.depth |-> IF o \in objs THEN d ELSE s.depth[o]]
             t == [s EXCEPT !.tainted = more, !.depth = depth]
  <1>1. Taint(s, objs, d) = t
    BY DEF Taint
  <1> HIDE DEF more, depth
  <1>2. t.tainted = more
    BY DEF FlowFields
  <1> QED BY <1>1, <1>2 DEF more

\* R1 and R2 without an effect.
LEMMA Rule1Settled ==
    ASSUME NEW n, NEW s, DOMAIN s = FlowFields, applyRule1(n, s).tainted \subseteq s.tainted,
           NEW i \in DOMAIN n.args, Touches(n.args[i], s.tainted)
    PROVE  n.to \subseteq s.tainted
  <1>1. anyExprTainted(n.args, s)
    BY TouchTaints DEF anyExprTainted
  <1>2. applyRule1(n, s) = Taint(s, n.to, 0)
    BY <1>1 DEF applyRule1
  <1> QED BY <1>2, TaintMarks

\* The elements of a literal are set one after the other; none may add.
LEMMA Rule2Settled ==
    ASSUME NEW p, NEW R, Covers(p, R), WellFormed(p), NEW n \in Nodes(p), n.op = "lit",
           NEW s, Within(s, R), applyRule2(n, s).tainted \subseteq s.tainted,
           NEW i \in DOMAIN n.elts, Touches(n.elts[i][2], s.tainted)
    PROVE  n.elts[i][1] \in s.tainted
  <1> DEFINE m == Len(n.elts)
  <1>1. m \in Nat /\ DOMAIN n.elts = 1..m
    <2>1. n.elts \in Seq(Range(n.elts))
      BY DEF WellFormed
    <2> QED BY <2>1, Indexed
  <1> HIDE DEF m
  <1>2. PICK f : Settings(f, n.elts, s, m) /\ applyRule2(n, s) = f[m]
    BY <1>1, LiteralSettings DEF m
  <1> DEFINE S == {k \in 0..m : Within(f[k], R)}
             A == [k \in 0..m |-> f[k].tainted]
  <1>3. ASSUME NEW k \in 1..m, Within(f[k - 1], R)
        PROVE  Onward(f[k - 1], f[k], R)
    <2>1. f[k] = setElement(n.elts[k], f[k - 1])
      BY <1>2 DEF Settings
    <2>2. k \in DOMAIN n.elts
      BY <1>1
    <2> QED BY <1>3, <2>1, <2>2, ElementWithin
  <1>4. \A k \in 0..m : k \in S
    <2>1. 0 \in S
      BY <1>1, <1>2 DEF Settings
    <2>2. ASSUME NEW k \in 1..m, k - 1 \in S PROVE k \in S
      <3>1. Within(f[k - 1], R) /\ k \in 0..m
        BY <1>1, <2>2
      <3>2. Onward(f[k - 1], f[k], R)
        BY <1>3, <3>1
      <3> QED BY <3>1, <3>2 DEF Onward
    <2>3. S \in SUBSET (0..m)
      OBVIOUS
    <2> HIDE DEF S
    <2> QED BY <1>1, <2>1, <2>2, <2>3, Climb
  <1>5. \A k \in 1..m : A[k - 1] \subseteq A[k]
    <2> TAKE k \in 1..m
    <2>1. k \in 0..m /\ k - 1 \in 0..m
      BY <1>1
    <2>2. Within(f[k - 1], R)
      BY <1>4, <2>1
    <2>3. f[k - 1].tainted \subseteq f[k].tainted
      BY <1>3, <2>2 DEF Onward
    <2> QED BY <2>1, <2>3
  <1>6. A[m] \subseteq A[0] /\ A[0] = s.tainted
    <2>1. f[0] = s
      BY <1>2 DEF Settings
    <2> QED BY <1>1, <1>2, <2>1
  <1>7. \A k \in 0..m : A[k] = A[0]
    <2> HIDE DEF A
    <2> QED BY <1>1, <1>5, <1>6, Squeezed
  <1>8. i \in 0..m /\ i - 1 \in 0..m /\ i \in 1..m
    BY <1>1
  <1>9. f[i].tainted = s.tainted /\ f[i - 1].tainted = s.tainted
    BY <1>6, <1>7, <1>8
  <1> DEFINE kv == n.elts[i]
             t == f[i - 1]
  <1> HIDE DEF A, S
  <1>10. f[i] = setElement(kv, t) /\ Touches(kv[2], t.tainted) /\ DOMAIN t = FlowFields
    <2>1. Within(t, R)
      BY <1>4, <1>8 DEF S
    <2> QED BY <1>2, <1>8, <1>9, <2>1 DEF Settings, Within
  <1> HIDE DEF kv, t
  <1>11. f[i] = Taint(t, {kv[1]}, 0)
    BY <1>10, TouchTaints DEF setElement
  <1>12. kv[1] \in f[i].tainted
    BY <1>10, <1>11, TaintMarks
  <1> QED BY <1>9, <1>12 DEF kv

\* One node.
LEMMA NodeSettled ==
    ASSUME NEW p, NEW R, Covers(p, R), WellFormed(p), NEW n \in Nodes(p), NEW q,
           NEW w, GoodVisit(p, w, q, R), NEW v, v = visitNode(p, n, w),
           v.flow.tainted \subseteq w.flow.tainted, ~v.flow.hit
    PROVE  Settled(p, n, w.flow.tainted)
  <1> DEFINE s == w.flow
  <1>1. Within(s, R) /\ DOMAIN s = FlowFields /\ DOMAIN w = {"flow", "stack"}
    BY DEF GoodVisit, Justified, Within
  <1>2. ~s.hit
    BY DEF visitNode
  <1> HIDE DEF s
  <1>3. ASSUME n.op = "assign", NEW i \in DOMAIN n.args, Touches(n.args[i], s.tainted)
        PROVE  n.to \subseteq s.tainted
    <2>1. v = [w EXCEPT !.flow = applyRule1(n, s)]
      BY <1>2, <1>3 DEF visitNode, s
    <2>2. v.flow = applyRule1(n, s)
      BY <1>1, <2>1
    <2>3. applyRule1(n, s).tainted \subseteq s.tainted
      BY <2>2 DEF s
    <2> QED BY <1>1, <1>3, <2>3, Rule1Settled
  <1>4. ASSUME n.op = "lit", NEW i \in DOMAIN n.elts, Touches(n.elts[i][2], s.tainted)
        PROVE  n.elts[i][1] \in s.tainted
    <2>1. v = [w EXCEPT !.flow = applyRule2(n, s)]
      BY <1>2, <1>4 DEF visitNode, s
    <2>2. v.flow = applyRule2(n, s)
      BY <1>1, <2>1
    <2>3. applyRule2(n, s).tainted \subseteq s.tainted
      BY <2>2 DEF s
    <2> QED BY <1>1, <1>4, <2>3, Rule2Settled
  <1>5. ASSUME n.op = "call", n.fn \in p.sinks, NEW i \in DOMAIN n.args, Touches(n.args[i], s.tainted)
        PROVE  FALSE
    <2>1. checkSinkHit(p, n, s)
      BY <1>5, TouchTaints DEF checkSinkHit, anyExprTainted
    <2>2. v = [w EXCEPT !.flow.hit = TRUE]
      BY <1>2, <1>5, <2>1 DEF visitNode, s
    <2>3. v.flow.hit = TRUE
      BY <1>1, <2>2 DEF FlowFields, s
    <2> QED BY <2>3
  <1> QED BY <1>3, <1>4, <1>5 DEF Settled, s

\* One file.
LEMMA FileSettles ==
    ASSUME NEW p, NEW R, Covers(p, R), WellFormed(p), NEW k \in DOMAIN p.files,
           NEW s, Justified(p, s, R), NEW t, t = propagateInFile(p, p.files[k], s),
           t.tainted \subseteq s.tainted, ~t.hit
    PROVE  FileSettled(p, k, s.tainted)
  <1> DEFINE file == p.files[k]
             m == Len(file)
  <1>1. m \in Nat /\ DOMAIN file = 1..m /\ \A i \in 1..m : file[i] \in Nodes(p)
    BY FileNodes
  <1>2. t = propagateInFile(p, file, s)
    OBVIOUS
  <1> HIDE DEF file, m
  <1>3. PICK f : Visits(f, p, file, s, m) /\ t = f[m].flow
    BY <1>1, <1>2, FileVisits DEF m
  <1>4. \A i \in 0..m : GoodVisit(p, f[i], s, R)
    BY <1>1, <1>3, VisitsJustified
  <1>5. ASSUME NEW i \in 1..m
        PROVE  /\ GoodVisit(p, f[i - 1], s, R) /\ f[i] = visitNode(p, file[i], f[i - 1])
               /\ f[i - 1].flow.tainted \subseteq f[i].flow.tainted
               /\ f[i - 1].flow.hit => f[i].flow.hit
    <2>1. i - 1 \in 0..m
      BY <1>1
    <2>2. GoodVisit(p, f[i - 1], s, R)
      BY <1>4, <2>1
    <2>3. f[i] = visitNode(p, file[i], f[i - 1]) /\ file[i] \in Nodes(p)
      BY <1>1, <1>3 DEF Visits
    <2> DEFINE w == f[i - 1]
    <2> HIDE DEF w
    <2>4. GoodVisit(p, w, s, R) /\ f[i] = visitNode(p, file[i], w)
      BY <2>2, <2>3 DEF w
    <2>5. GoodVisit(p, w, w.flow, R)
      BY <2>4 DEF GoodVisit
    <2>6. GoodVisit(p, visitNode(p, file[i], w), w.flow, R)
      BY <2>3, <2>5, VisitJustified
    <2>7. w.flow.tainted \subseteq f[i].flow.tainted
      BY <2>4, <2>6 DEF GoodVisit
    <2>8. w.flow.hit => f[i].flow.hit
      BY <2>4 DEF visitNode
    <2> QED BY <2>2, <2>3, <2>7, <2>8 DEF w
  <1> DEFINE A == [i \in 0..m |-> f[i].flow.tainted]
             S == {i \in 0..m : \A j \in 0..i : f[j].flow.hit => f[i].flow.hit}
  <1>6. \A i \in 1..m : A[i - 1] \subseteq A[i]
    BY <1>1, <1>5
  <1>7. A[m] \subseteq A[0] /\ A[0] = s.tainted
    <2>1. f[0].flow = s
      BY <1>3 DEF Visits
    <2> QED BY <1>1, <1>3, <2>1
  <1>8. \A i \in 0..m : A[i] = A[0]
    <2> HIDE DEF A
    <2> QED BY <1>1, <1>6, <1>7, Squeezed
  <1>9. \A i \in 0..m : i \in S
    <2>1. 0 \in S
      BY <1>1
    <2>2. ASSUME NEW i \in 1..m, i - 1 \in S PROVE i \in S
      <3>1. \A j \in 0..(i - 1) : f[j].flow.hit => f[i - 1].flow.hit
        BY <2>2
      <3>2. ASSUME NEW j \in 0..i, f[j].flow.hit PROVE f[i].flow.hit
        <4>1. CASE j = i
          BY <3>2, <4>1
        <4>2. CASE j # i
          <5>1. j \in 0..(i - 1)
            BY <4>2
          <5> QED BY <1>5, <3>1, <3>2, <5>1
        <4> QED BY <4>1, <4>2
      <3> QED BY <1>1, <3>2
    <2>3. S \in SUBSET (0..m)
      OBVIOUS
    <2> HIDE DEF S
    <2> QED BY <1>1, <2>1, <2>2, <2>3, Climb
  <1>10. ASSUME NEW i \in 1..m PROVE Settled(p, file[i], s.tainted)
    <2> DEFINE w == f[i - 1]
               v == f[i]
    <2>1. i \in 0..m /\ i - 1 \in 0..m /\ m \in S
      BY <1>1, <1>9
    <2>2. ~v.flow.hit
      BY <1>3, <2>1
    <2>3. v.flow.tainted = s.tainted /\ w.flow.tainted = s.tainted
      BY <1>7, <1>8, <2>1
    <2>4. GoodVisit(p, w, s, R) /\ v = visitNode(p, file[i], w) /\ file[i] \in Nodes(p)
      BY <1>1, <1>5
    <2> HIDE DEF w, v
    <2>5. Settled(p, file[i], w.flow.tainted)
      BY <2>2, <2>3, <2>4, NodeSettled
    <2> QED BY <2>3, <2>5
  <1> QED BY <1>1, <1>10 DEF FileSettled, file

\* A sweep of a file that leaves the worklist empty found nothing to do.
LEMMA SweepSettles ==
    ASSUME NEW p, NEW R, Covers(p, R), IsFiniteSet(R), WellFormed(p),
           NEW s, s.file \in DOMAIN p.files, Justified(p, s, R), s.src \in s.tainted,
           NEW v, v = SweepFile(p, s), ~v.hit, v.worklist = {}
    PROVE  v.tainted = s.tainted /\ s.worklist = {} /\ FileSettled(p, s.file, v.tainted)
  <1> DEFINE k == s.file
             t == propagateInFile(p, p.files[k], s)
  <1>1. Swept(p, s, t, R)
    BY FileJustified
  <1>2. v.hit = t.hit /\ v.tainted = t.tainted /\ v.worklist = Requeue(s, t).worklist
    BY SweepJustified
  <1>3. t = propagateInFile(p, p.files[k], s) /\ k = s.file
    OBVIOUS
  <1> HIDE DEF t, k
  <1>4. /\ Justified(p, t, R) /\ Within(t, R) /\ s.tainted \subseteq t.tainted /\ t.worklist = s.worklist
        /\ t.src = s.src /\ Within(s, R)
    BY <1>1 DEF Swept, Justified
  <1>5. ~(Cardinality(t.tainted) > Cardinality(s.tainted))
    <2> SUFFICES ASSUME Cardinality(t.tainted) > Cardinality(s.tainted) PROVE FALSE
      OBVIOUS
    <2> DEFINE all == t.worklist \cup {o \in t.tainted : DepthOf(t, o) <= MaxDepth}
    <2>1. Requeue(s, t) = [t EXCEPT !.worklist = all]
      BY DEF Requeue
    <2>2. t.src \in all
      <3>1. t.src \in t.tainted
        BY <1>4
      <3>2. DepthOf(t, t.src) \in 0..MaxDepth
        BY <1>4, Surface DEF DepthOf, Within
      <3>3. DepthOf(t, t.src) <= MaxDepth
        BY <3>2, DepthAssumption
      <3> QED BY <3>1, <3>3
    <2> HIDE DEF all
    <2>3. [t EXCEPT !.worklist = all].worklist = all
      BY <1>4 DEF Within, FlowFields
    <2> QED BY <1>2, <2>1, <2>2, <2>3
  <1>6. Requeue(s, t) = t
    BY <1>5 DEF Requeue
  <1>7. t.tainted = s.tainted
    <2>1. IsFiniteSet(t.tainted)
      BY <1>4, FS_Subset DEF Within
    <2>2. s.tainted \in SUBSET t.tainted
      BY <1>4
    <2>3. IsFiniteSet(s.tainted) /\ Cardinality(s.tainted) <= Cardinality(t.tainted)
          /\ (Cardinality(t.tainted) = Cardinality(s.tainted) => t.tainted = s.tainted)
      BY <2>1, <2>2, FS_Subset
    <2>4. Cardinality(s.tainted) \in Nat /\ Cardinality(t.tainted) \in Nat
      BY <2>1, <2>3, FS_CardinalityType
    <2> QED BY <1>5, <2>3, <2>4
  <1>8. FileSettled(p, k, s.tainted)
    BY <1>2, <1>3, <1>7, FileSettles
  <1> QED BY <1>2, <1>3, <1>4, <1>6, <1>7, <1>8

\* When all files are settled, what is stored directly would have been seen.
LEMMA SettledMeansNotStored ==
    ASSUME NEW p, WellFormed(p), NEW src, Len(src) = 2, NEW T, src \in T, NoConcat(p),
           \A k \in DOMAIN p.files : FileSettled(p, k, T)
    PROVE  Reach(AssignFlow(p), {src}) \cap Stored(p) = {}
  <1> DEFINE C == {x \in T : Len(x) = 2}
  <1>1. \A n \in Nodes(p) : Settled(p, n, T)
    <2> TAKE n \in Nodes(p)
    <2>1. PICK k \in DOMAIN p.files : n \in Range(p.files[k])
      BY DEF Nodes
    <2>2. PICK i \in DOMAIN p.files[k] : n = p.files[k][i]
      BY <2>1 DEF Range
    <2> QED BY <2>2 DEF FileSettled
  <1>2. \A f : Len(ResultOf(f)) # 2
    BY DEF ResultOf
  <1>3. ASSUME NEW e, e.concat = {}, NEW x \in Read(e), x \in C PROVE Touches(e, T)
    <2>1. x \in e.objs \cup e.index
      BY <1>2, <1>3 DEF Read
    <2> QED BY <1>3, <2>1 DEF Touches
  <1>4. ASSUME NEW n \in Nodes(p), NEW x \in ReadAll(n.args), x \in C
        PROVE  \E i \in DOMAIN n.args : Touches(n.args[i], T)
    <2>1. PICK i \in DOMAIN n.args : x \in Read(n.args[i])
      BY <1>4 DEF ReadAll
    <2>2. n.args[i].concat = {}
      BY DEF NoConcat
    <2> QED BY <1>3, <1>4, <2>1, <2>2
  <1>5. Closed(AssignFlow(p), C)
    <2> SUFFICES ASSUME NEW e \in AssignFlow(p), e[1] \in C PROVE e[2] \in C
      BY DEF Closed
    <2>1. Len(e[2]) = 2
      BY DEF WellFormed
    <2>2. CASE e \in UNION {ReadAll(n.args) \X n.to : n \in {m \in Nodes(p) : m.op = "assign"}}
      <3>1. PICK n \in Nodes(p) : n.op = "assign" /\ e \in ReadAll(n.args) \X n.to
        BY <2>2
      <3>2. e[1] \in ReadAll(n.args) /\ e[2] \in n.to
        BY <3>1
      <3>3. \E i \in DOMAIN n.args : Touches(n.args[i], T)
        BY <1>4, <3>2
      <3>4. n.to \subseteq T
        BY <1>1, <3>1, <3>3 DEF Settled
      <3> QED BY <2>1, <3>2, <3>4
    <2>3. CASE e \in UNION {LiteralFlow(n) : n \in {m \in Nodes(p) : m.op = "lit"}}
      <3>1. PICK n \in Nodes(p) : n.op = "lit" /\ e \in LiteralFlow(n)
        BY <2>3
      <3>2. PICK i \in DOMAIN n.elts : e \in Read(n.elts[i][2]) \X {n.elts[i][1]}
        BY <3>1 DEF LiteralFlow
      <3>3. e[1] \in Read(n.elts[i][2]) /\ e[2] = n.elts[i][1]
        BY <3>2
      <3>4. n.elts[i][2].concat = {}
        BY DEF NoConcat
      <3>5. Touches(n.elts[i][2], T)
        BY <1>3, <3>3, <3>4
      <3>6. n.elts[i][1] \in T
        BY <1>1, <3>1, <3>5 DEF Settled
      <3> QED BY <2>1, <3>3, <3>6
    <2> QED BY <2>2, <2>3 DEF AssignFlow
  <1>6. Reach(AssignFlow(p), {src}) \subseteq C
    <2>1. {src} \subseteq C
      OBVIOUS
    <2>2. IsFiniteSet(AssignFlow(p))
      BY DEF WellFormed
    <2> HIDE DEF C
    <2> QED BY <1>5, <2>1, <2>2, ReachLeast
  <1>7. ASSUME NEW x \in Stored(p), x \in C PROVE FALSE
    <2>1. PICK n \in Nodes(p) : n.op = "call" /\ n.fn \in p.sinks /\ x \in ReadAll(n.args)
      BY DEF Stored
    <2>2. PICK i \in DOMAIN n.args : Touches(n.args[i], T)
      BY <1>4, <1>7, <2>1
    <2> QED BY <1>1, <2>1, <2>2 DEF Settled
  <1> QED BY <1>6, <1>7

------------------------------------------------------------------------------
(* The PAN scanner and its queries.                                        *)

\* Where a value of the field, or input of a user, can get to.
Reachable(p, src) == Reach(AssignFlow(p) \cup CallFlow(p), {src} \cup UserInput(p))

\* Reachable covers the program, and holds the field.
LEMMA ReachableCovers ==
    ASSUME NEW p, WellFormed(p), NEW src
    PROVE  Covers(p, Reachable(p, src)) /\ src \in Reachable(p, src)
  <1> DEFINE edges == AssignFlow(p) \cup CallFlow(p)
             from == {src} \cup UserInput(p)
  <1>1. IsFiniteSet(edges)
    BY FS_Union DEF WellFormed
  <1>2. edges = AssignFlow(p) \cup CallFlow(p) /\ from = {src} \cup UserInput(p) /\ Reachable(p, src) = Reach(edges, from)
    BY DEF Reachable
  <1> HIDE DEF edges, from
  <1>3. from \subseteq Reach(edges, from) /\ Closed(edges, Reach(edges, from))
    BY <1>1, ReachClosed
  <1> DEFINE R == Reach(edges, from)
  <1> HIDE DEF R
  <1>4. from \subseteq R /\ Closed(edges, R) /\ Reachable(p, src) = R
    BY <1>2, <1>3 DEF R
  <1>5. Closed(AssignFlow(p), R) /\ Closed(CallFlow(p), R)
    BY <1>2, <1>4 DEF Closed
  <1> QED BY <1>2, <1>4, <1>5 DEF Covers

\* A query that begins.
LEMMA NewJustified ==
    ASSUME NEW p, WellFormed(p), NEW src
    PROVE  Justified(p, NewFlow(src), Reachable(p, src)) /\ NewFlow(src).src = src /\ NewFlow(src).file = 1
  <1>1. src \in Reachable(p, src)
    BY ReachableCovers
  <1>2. /\ DOMAIN NewFlow(src) = FlowFields /\ NewFlow(src).tainted = {src} /\ NewFlow(src).returns = {}
        /\ DOMAIN NewFlow(src).depth = {} /\ NewFlow(src).hit = FALSE /\ NewFlow(src).src = src /\ NewFlow(src).file = 1
    BY DEF NewFlow, FlowFields
  <1> QED BY <1>1, <1>2 DEF Justified, Within

\* The query at hand marks and hits what its field reaches.
FlowJustified ==
    /\ work.flow.file \in Nat \ {0}
    /\ Justified(project.program, work.flow, Reachable(project.program, work.flow.src))

\* It goes on to sweep as long as something is left to mark.
FlowSettled ==
    LET p == project.program
        s == work.flow
        all == \A k \in DOMAIN p.files : FileSettled(p, k, s.tainted)
    IN  /\ pc \in {"query", "sweep"} => ~s.hit /\ s.src \in s.tainted /\ Len(s.src) = 2
        /\ pc = "query" /\ s.worklist = {} => all
        /\ pc = "sweep" /\ s.worklist = {} =>
              \A k \in DOMAIN p.files : k < s.file => FileSettled(p, k, s.tainted)
        /\ pc = "answer" =>
              s.hit \/ ~Answerable(p, s.src) \/ (all /\ s.src \in s.tainted /\ Len(s.src) = 2)

\* The fields of the scan.
PanFields == {"file", "findings", "sources", "at", "flow"}

\* The inductive invariant of the queries.
PanFlowInv ==
    scanner = "pan" =>
        project \in PanSources /\ DOMAIN work = PanFields /\ FlowJustified /\ FlowSettled

\* It holds before the first query.
LEMMA PanFlowInitially ==
    ASSUME Init PROVE PanFlowInv
  <1> SUFFICES ASSUME scanner = "pan" PROVE PanFlowInv
    BY DEF PanFlowInv
  <1>1. project \in PanSources /\ work = PanIdle /\ pc = "start"
    BY DEF Init, SqlInit, AuditInit, AuthInit, PanInit, Called
  <1> DEFINE none == ""
  <1>2. DOMAIN work = PanFields /\ work.flow = NewFlow(none)
    BY <1>1 DEF PanIdle, PanFields
  <1> HIDE DEF none
  <1>3. WellFormed(project.program)
    BY <1>1, PanSourcesAssumption
  <1>4. FlowJustified
    <2> DEFINE p == project.program
    <2>1. /\ Justified(p, NewFlow(none), Reachable(p, none))
          /\ NewFlow(none).src = none /\ NewFlow(none).file = 1
      BY <1>3, NewJustified
    <2>2. work.flow.src = none /\ work.flow.file \in Nat \ {0}
      BY <1>2, <2>1
    <2> QED BY <1>2, <2>1, <2>2 DEF FlowJustified
  <1> QED BY <1>1, <1>2, <1>4 DEF PanFlowInv, FlowSettled

\* Steps that leave the query alone and come from or go to no query.
LEMMA FlowLeftAlone ==
    ASSUME FlowJustified, project' = project, work'.flow = work.flow
    PROVE  FlowJustified'
  BY DEF FlowJustified

\* Reachable holds finitely many objects.
LEMMA ReachableFinite ==
    ASSUME NEW p, WellFormed(p), NEW src
    PROVE  IsFiniteSet(Reachable(p, src))
  <1>1. IsFiniteSet(AssignFlow(p) \cup CallFlow(p))
    BY FS_Union DEF WellFormed
  <1>2. IsFiniteSet({src} \cup UserInput(p))
    <2>1. IsFiniteSet(UserInput(p))
      BY DEF WellFormed
    <2>2. IsFiniteSet({src})
      BY FS_Singleton
    <2> QED BY <2>1, <2>2, FS_Union
  <1> QED BY <1>1, <1>2, ReachFinite DEF Reachable

\* A step of the engine.
LEMMA FlowStepSettled ==
    ASSUME PanFlowInv, scanner = "pan", FlowSteps("pan")
    PROVE  DOMAIN work' = PanFields /\ FlowJustified' /\ FlowSettled' /\ project' = project
  <1> DEFINE p == project.program
             s == work.flow
             R == Reachable(p, s.src)
  <1>1. /\ project \in PanSources /\ DOMAIN work = PanFields
        /\ s.file \in Nat \ {0} /\ Justified(p, s, R) /\ FlowJustified /\ FlowSettled
    BY DEF PanFlowInv, FlowJustified
  <1>2. WellFormed(p)
    BY <1>1, PanSourcesAssumption
  <1>3. Covers(p, R) /\ IsFiniteSet(R)
    BY <1>2, ReachableCovers, ReachableFinite
  <1>4. DOMAIN p.files = 1..Len(p.files) /\ Len(p.files) \in Nat
    <2>1. p.files \in Seq(Seq(Nodes(p)))
      BY <1>2 DEF WellFormed
    <2> HIDE DEF p
    <2> QED BY <2>1, Indexed
  <1>5. pc \in {"query", "sweep"} /\ ~s.hit /\ s.src \in s.tainted /\ Len(s.src) = 2
    BY <1>1 DEF FlowSettled, FlowSteps
  <1>6. ASSUME NEW t, work' = [work EXCEPT !.flow = t], project' = project,
               t.file \in Nat \ {0}, t.src = s.src, Justified(p, t, R)
        PROVE  DOMAIN work' = PanFields /\ FlowJustified' /\ project' = project /\ work'.flow = t
    <2>1. DOMAIN work' = PanFields /\ work'.flow = t
      BY <1>1, <1>6 DEF PanFields
    <2>2. Justified(project'.program, t, Reachable(project'.program, t.src))
      BY <1>6
    <2> QED BY <1>6, <2>1, <2>2 DEF FlowJustified
  <1>7. CASE /\ pc = "query"
             /\ \E obj \in work.flow.worklist :
                    Pass("pan", "query", "sweep", [work EXCEPT !.flow = TakeObject(@, obj)])
    <2>1. PICK obj : Pass("pan", "query", "sweep", [work EXCEPT !.flow = TakeObject(@, obj)])
      BY <1>7
    <2> DEFINE t == TakeObject(s, obj)
    <2>2. work' = [work EXCEPT !.flow = t] /\ project' = project /\ pc' = "sweep"
      BY <2>1 DEF Pass
    <2> HIDE DEF s, R, p
    <2>3. Justified(p, t, R) /\ t.tainted = s.tainted /\ t.src = s.src /\ t.file = 1 /\ t.hit = s.hit
      BY <1>1, TakeJustified
    <2> HIDE DEF t
    <2>4. DOMAIN work' = PanFields /\ FlowJustified' /\ project' = project /\ work'.flow = t
      BY <1>6, <2>2, <2>3
    <2>5. \A k \in DOMAIN p.files : ~(k < 1)
      BY <1>4
    <2>6. FlowSettled'
      BY <1>5, <2>2, <2>3, <2>4, <2>5 DEF FlowSettled, p
    <2> QED BY <2>4, <2>6
  <1>8. CASE /\ pc = "query" /\ work.flow.worklist = {} /\ Pass("pan", "query", "answer", work)
    <2>1. work' = work /\ project' = project /\ pc' = "answer"
      BY <1>8 DEF Pass
    <2>2. FlowSettled'
      BY <1>1, <1>5, <1>8, <2>1 DEF FlowSettled
    <2> QED BY <1>1, <2>1, <2>2, FlowLeftAlone
  <1>9. CASE /\ pc = "sweep" /\ s.file <= Len(p.files)
             /\ Pass("pan", "sweep", IF SweepFile(p, s).hit THEN "answer" ELSE "sweep",
                     [work EXCEPT !.flow = SweepFile(p, s)])
    <2> DEFINE t == SweepFile(p, s)
    <2>1. /\ work' = [work EXCEPT !.flow = t] /\ project' = project /\ s.file <= Len(p.files)
          /\ (t.hit /\ pc' = "answer") \/ (~t.hit /\ pc' = "sweep")
      BY <1>9 DEF Pass
    <2> HIDE DEF s, R, p
    <2>2. s.file \in DOMAIN p.files
      BY <1>1, <1>4, <2>1
    <2>3. Justified(p, t, R) /\ t.src = s.src /\ t.file = s.file + 1 /\ s.tainted \subseteq t.tainted
      BY <1>1, <1>2, <1>3, <2>2, SweepJustified
    <2>4. t.file \in Nat \ {0}
      BY <1>1, <2>3
    <2>5. t = SweepFile(p, s)
      OBVIOUS
    <2> HIDE DEF t
    <2>6. DOMAIN work' = PanFields /\ FlowJustified' /\ project' = project /\ work'.flow = t
      BY <1>6, <2>1, <2>3, <2>4
    <2>7. CASE t.hit
      <3>1. pc' = "answer"
        BY <2>1, <2>7
      <3>2. FlowSettled'
        BY <2>6, <2>7, <3>1 DEF FlowSettled
      <3> QED BY <2>6, <3>2
    <2>8. CASE ~t.hit
      <3>1. pc' = "sweep"
        BY <2>1, <2>8
      <3>2. ASSUME t.worklist = {}, NEW k \in DOMAIN p.files, k < t.file
            PROVE  FileSettled(p, k, t.tainted)
        <4>1. t.tainted = s.tainted /\ s.worklist = {} /\ FileSettled(p, s.file, t.tainted)
          BY <1>1, <1>2, <1>3, <1>5, <2>2, <2>5, <2>8, <3>2, SweepSettles
        <4>2. CASE k = s.file
          BY <4>1, <4>2
        <4>3. CASE k # s.file
          <5>1. k < s.file
            BY <1>1, <1>4, <2>3, <3>2, <4>3
          <5>2. FileSettled(p, k, s.tainted)
            BY <1>1, <1>9, <4>1, <5>1 DEF FlowSettled, p, s
          <5> QED BY <4>1, <5>2
        <4> QED BY <4>2, <4>3
      <3>3. t.src \in t.tainted /\ Len(t.src) = 2
        BY <1>5, <2>3
      <3>4. FlowSettled'
        BY <2>6, <2>8, <3>1, <3>2, <3>3 DEF FlowSettled, p
      <3> QED BY <2>6, <3>4
    <2> QED BY <2>7, <2>8
  <1>10. CASE /\ pc = "sweep" /\ s.file > Len(p.files) /\ Pass("pan", "sweep", "query", work)
    <2>1. work' = work /\ project' = project /\ pc' = "query"
      BY <1>10 DEF Pass
    <2>2. \A k \in DOMAIN p.files : k < s.file
      BY <1>1, <1>4, <1>10
    <2>3. s.worklist = {} => \A k \in DOMAIN p.files : FileSettled(p, k, s.tainted)
      BY <1>1, <1>10, <2>2 DEF FlowSettled
    <2>4. FlowSettled'
      BY <1>5, <2>1, <2>3 DEF FlowSettled
    <2> QED BY <1>1, <2>1, <2>4, FlowLeftAlone
  <1> QED BY <1>7, <1>8, <1>9, <1>10 DEF FlowSteps

\* No step breaks it.
LEMMA PanFlowInductive ==
    ASSUME PanFlowInv, [Next]_callVars
    PROVE  PanFlowInv'
  <1> SUFFICES ASSUME scanner' = "pan" PROVE PanFlowInv'
    BY DEF PanFlowInv
  <1>1. scanner = "pan"
    BY ScannerStays
  <1>2. project \in PanSources /\ DOMAIN work = PanFields /\ FlowJustified /\ FlowSettled
    BY <1>1 DEF PanFlowInv
  <1>3. ASSUME project' = project, DOMAIN work' = PanFields, work'.flow = work.flow,
               pc' \in {"start", "failed", "bridge", "done"}
        PROVE  PanFlowInv'
    <2>1. FlowSettled'
      BY <1>3 DEF FlowSettled
    <2> QED BY <1>2, <1>3, <2>1, FlowLeftAlone DEF PanFlowInv
  <1>4. CASE PanNext
    <2>1. CASE PanScanFile
      <3>1. /\ project' = project /\ pc' \in {"start", "failed"}
            /\ \/ work' = work
               \/ work' = ScannedGo(work, project.files[work.file])
               \/ work' = ScannedEnv(work, project.files[work.file])
        BY <2>1 DEF PanScanFile, Pass
      <3>2. \A file : /\ DOMAIN ScannedGo(work, file) = DOMAIN work /\ ScannedGo(work, file).flow = work.flow
                      /\ DOMAIN ScannedEnv(work, file) = DOMAIN work /\ ScannedEnv(work, file).flow = work.flow
        BY <1>2 DEF ScannedGo, ScannedEnv, PanFields
      <3> QED BY <1>2, <1>3, <3>1, <3>2
    <2>2. CASE PanCancel \/ PanScanned
      BY <1>2, <1>3, <2>2 DEF PanCancel, PanScanned, Pass
    <2>3. CASE adjustSeverityByTaint
      <3>1. CASE project' = project /\ pc' = "bridge" /\ work' = [work EXCEPT !.at = @ + 1]
        BY <1>2, <1>3, <3>1 DEF PanFields
      <3>2. CASE /\ project' = project /\ work' = [work EXCEPT !.flow = NewFlow(AskedOf(work.at))]
                 /\ pc' = IF Answerable(project.program, AskedOf(work.at)) THEN "query" ELSE "answer"
        <4> DEFINE src == AskedOf(work.at)
        <4>1. work'.flow = NewFlow(src) /\ DOMAIN work' = PanFields
          BY <1>2, <3>2 DEF PanFields
        <4>2. Len(src) = 2
          BY DEF AskedOf
        <4>3. \/ pc' = "query"
              \/ pc' = "answer" /\ ~Answerable(project.program, src)
          BY <3>2
        <4> HIDE DEF src
        <4>4. WellFormed(project.program)
          BY <1>2, PanSourcesAssumption
        <4>5. /\ Justified(project.program, NewFlow(src), Reachable(project.program, src))
              /\ NewFlow(src).src = src /\ NewFlow(src).file = 1
          BY <4>4, NewJustified
        <4>6. FlowJustified'
          BY <3>2, <4>1, <4>5 DEF FlowJustified
        <4>7. ~NewFlow(src).hit /\ src \in NewFlow(src).tainted /\ NewFlow(src).worklist # {}
          BY DEF NewFlow
        <4>8. FlowSettled'
          BY <3>2, <4>1, <4>2, <4>3, <4>5, <4>7 DEF FlowSettled
        <4> QED BY <1>2, <3>2, <4>1, <4>6, <4>8 DEF PanFlowInv
      <3> QED BY <2>3, <3>1, <3>2 DEF adjustSeverityByTaint, Pass
    <2>4. CASE FlowSteps("pan")
      BY <1>1, <1>2, <2>4, FlowStepSettled DEF PanFlowInv
    <2>5. CASE PanAnswer
      <3>1. /\ project' = project /\ pc' = "bridge"
            /\ work' = [work EXCEPT !.findings[work.at] = Adjusted(@, work.at, work.flow.hit), !.at = @ + 1]
        BY <2>5 DEF PanAnswer, Pass
      <3> QED BY <1>2, <1>3, <3>1 DEF PanFields
    <2>6. CASE PanBridged
      <3>1. project' = project /\ pc' = "done" /\ work' = [work EXCEPT !.findings = removeSuppressed(@)]
        BY <2>6 DEF PanBridged, Pass
      <3> QED BY <1>2, <1>3, <3>1 DEF PanFields
    <2> QED BY <1>4, <2>1, <2>2, <2>3, <2>4, <2>5, <2>6 DEF PanNext
  <1>5. CASE UNCHANGED callVars
    <2>1. project' = project /\ work' = work /\ pc' = pc
      BY <1>5 DEF callVars
    <2>2. FlowSettled'
      BY <1>2, <2>1 DEF FlowSettled
    <2> QED BY <1>2, <2>1, <2>2, FlowLeftAlone DEF PanFlowInv
  <1> QED BY <1>1, <1>4, <1>5 DEF Next, Returned

(* PanFlowInv holds of every call of the PAN scanner on every project,     *)
(* through every query of the bridge.                                      *)
THEOREM PanFlowInvariant == Spec => []PanFlowInv
  <1>1. Init => PanFlowInv
    BY PanFlowInitially
  <1>2. PanFlowInv /\ [Next]_callVars => PanFlowInv'
    BY PanFlowInductive
  <1> QED BY <1>1, <1>2, PTL DEF Spec

(* FlowsTo is sound on every program: it says yes only if a value of the   *)
(* field, or input of a user, can get into an argument of a sink along     *)
(* assignments, literals, bound parameters and the user-input tables.      *)
THEOREM TaintHitAlwaysJustified == Spec => []TaintHitJustified
  <1>1. PanFlowInv => TaintHitJustified
    BY DEF PanFlowInv, FlowJustified, Justified, TaintHitJustified, Answered, Reachable
  <1> QED BY <1>1, PanFlowInvariant, PTL

(* FlowsTo is complete for direct flows on every program: if assignments   *)
(* and struct literals alone lead from the field to a sink, in whatever    *)
(* order of files, it says yes.  The worklist is empty only after a sweep  *)
(* of all files that marked nothing, since a file that marks an object     *)
(* puts the field itself back on it.                                       *)
THEOREM TaintDirectAlwaysFound == Spec => []TaintDirectFound
  <1>1. PanFlowInv => TaintDirectFound
    <2> SUFFICES ASSUME PanFlowInv, Answered("pan"), StoredDirectly(project.program, work.flow.src), ~work.flow.hit
                 PROVE  FALSE
      BY DEF TaintDirectFound
    <2> DEFINE p == project.program
               src == work.flow.src
               T == work.flow.tainted
    <2>1. project \in PanSources /\ FlowSettled /\ pc = "answer"
      BY DEF PanFlowInv, Answered
    <2>2. Answerable(p, src) /\ NoConcat(p) /\ Reach(AssignFlow(p), {src}) \cap Stored(p) # {}
      BY DEF StoredDirectly
    <2>3. (\A k \in DOMAIN p.files : FileSettled(p, k, T)) /\ src \in T /\ Len(src) = 2
      BY <2>1, <2>2 DEF FlowSettled
    <2>4. WellFormed(p)
      BY <2>1, PanSourcesAssumption
    <2> HIDE DEF p, src, T
    <2> QED BY <2>2, <2>3, <2>4, SettledMeansNotStored
  <1> QED BY <1>1, PanFlowInvariant, PTL

------------------------------------------------------------------------------
(* Lists, whatever they hold.                                              *)

\* The indices of a list.
LEMMA ListFacts ==
    ASSUME NEW s, IsList(s)
    PROVE  s \in Seq(Range(s)) /\ Len(s) \in Nat /\ DOMAIN s = 1..Len(s)
  BY DEF IsList, Range

\* A function on 1..n is one.
LEMMA FunctionIsList ==
    ASSUME NEW n \in Nat, NEW g, DOMAIN g = 1..n, g = [i \in DOMAIN g |-> g[i]]
    PROVE  IsList(g) /\ Len(g) = n
  <1> DEFINE R == Range(g)
  <1>1. \A i \in 1..n : g[i] \in R
    BY DEF Range
  <1> HIDE DEF R
  <1>2. g \in [1..n -> R]
    BY <1>1
  <1>3. g \in Seq(R) /\ Len(g) = n
    BY <1>2, FunctionIsSequence
  <1> QED BY <1>3 DEF IsList, R

\* So is a sequence.
LEMMA SequenceIsList ==
    ASSUME NEW V, NEW s \in Seq(V)
    PROVE  IsList(s)
  <1>1. Len(s) \in Nat /\ DOMAIN s = 1..Len(s) /\ s = [i \in DOMAIN s |-> s[i]]
    OBVIOUS
  <1> QED BY <1>1, FunctionIsList

\* No element, or one.
LEMMA ShortLists ==
    ASSUME NEW e
    PROVE  /\ IsList(<<>>) /\ DOMAIN <<>> = {}
           /\ IsList(<<e>>) /\ DOMAIN <<e>> = {1} /\ <<e>>[1] = e
  <1>1. <<>> \in Seq({e}) /\ <<e>> \in Seq({e})
    OBVIOUS
  <1>2. IsList(<<>>) /\ IsList(<<e>>)
    BY <1>1, SequenceIsList
  <1>3. DOMAIN <<>> = {} /\ DOMAIN <<e>> = {1} /\ <<e>>[1] = e
    OBVIOUS
  <1> QED BY <1>2, <1>3

\* One list after another.
LEMMA ListJoin ==
    ASSUME NEW s, NEW t, IsList(s), IsList(t)
    PROVE  /\ IsList(s \o t)
           /\ Len(s \o t) = Len(s) + Len(t)
           /\ \A k \in DOMAIN s : k \in DOMAIN (s \o t) /\ (s \o t)[k] = s[k]
           /\ \A k \in DOMAIN t : Len(s) + k \in DOMAIN (s \o t) /\ (s \o t)[Len(s) + k] = t[k]
           /\ \A k \in DOMAIN (s \o t) :
                 \/ k \in DOMAIN s /\ (s \o t)[k] = s[k]
                 \/ k - Len(s) \in DOMAIN t /\ (s \o t)[k] = t[k - Len(s)]
  <1> DEFINE V == Range(s) \cup Range(t)
  <1>1. s \in Seq(Range(s)) /\ t \in Seq(Range(t))
    BY DEF IsList, Range
  <1>2. s \in Seq(V) /\ t \in Seq(V)
    BY <1>1
  <1> HIDE DEF V
  <1>3. s \o t \in Seq(V) /\ Len(s) \in Nat /\ Len(t) \in Nat /\ Len(s \o t) = Len(s) + Len(t)
        /\ DOMAIN s = 1..Len(s) /\ DOMAIN t = 1..Len(t) /\ DOMAIN (s \o t) = 1..(Len(s) + Len(t))
    BY <1>2
  <1>4. IsList(s \o t)
    BY <1>3, SequenceIsList
  <1>5. \A k \in 1..(Len(s) + Len(t)) : (s \o t)[k] = IF k <= Len(s) THEN s[k] ELSE t[k - Len(s)]
    BY <1>2, <1>3
  <1>6. \A k \in DOMAIN s : k \in DOMAIN (s \o t) /\ (s \o t)[k] = s[k]
    BY <1>3, <1>5
  <1>7. \A k \in DOMAIN t : Len(s) + k \in DOMAIN (s \o t) /\ (s \o t)[Len(s) + k] = t[k]
    <2> SUFFICES ASSUME NEW k \in DOMAIN t
                 PROVE  Len(s) + k \in DOMAIN (s \o t) /\ (s \o t)[Len(s) + k] = t[k]
      OBVIOUS
    <2>1. Len(s) + k \in 1..(Len(s) + Len(t)) /\ ~(Len(s) + k <= Len(s)) /\ (Len(s) + k) - Len(s) = k
      BY <1>3
    <2>2. (s \o t)[Len(s) + k] = t[(Len(s) + k) - Len(s)]
      BY <2>1, <1>5
    <2> QED BY <1>3, <2>1, <2>2
  <1>8. ASSUME NEW k \in DOMAIN (s \o t)
        PROVE  \/ k \in DOMAIN s /\ (s \o t)[k] = s[k]
               \/ k - Len(s) \in DOMAIN t /\ (s \o t)[k] = t[k - Len(s)]
    <2>1. CASE k <= Len(s)
      <3>1. k \in DOMAIN s
        BY <2>1, <1>3
      <3> QED BY <3>1, <1>6
    <2>2. CASE ~(k <= Len(s))
      <3>1. k - Len(s) \in DOMAIN t
        BY <2>2, <1>3
      <3>2. (s \o t)[k] = t[k - Len(s)]
        BY <2>2, <1>3, <1>5
      <3> QED BY <3>1, <3>2
    <2> QED BY <2>1, <2>2
  <1> QED BY <1>3, <1>4, <1>6, <1>7, <1>8

\* u is s followed by t, by what it holds at each place.
Follows(u, s, t) ==
    /\ IsList(u)
    /\ \A i \in DOMAIN s : i \in DOMAIN u /\ u[i] = s[i]
    /\ \A i \in DOMAIN t : Len(s) + i \in DOMAIN u /\ u[Len(s) + i] = t[i]
    /\ \A i \in DOMAIN u :
          \/ i \in DOMAIN s /\ u[i] = s[i]
          \/ i - Len(s) \in DOMAIN t /\ u[i] = t[i - Len(s)]

\* Concatenation is that.
LEMMA JoinFollows ==
    ASSUME NEW s, NEW t, IsList(s), IsList(t)
    PROVE  Follows(s \o t, s, t)
  <1> DEFINE u == s \o t
  <1>1. IsList(u)
    BY ListJoin
  <1>2. \A i \in DOMAIN s : i \in DOMAIN u /\ u[i] = s[i]
    BY ListJoin
  <1>3. \A i \in DOMAIN t : Len(s) + i \in DOMAIN u /\ u[Len(s) + i] = t[i]
    BY ListJoin
  <1>4. \A i \in DOMAIN u :
          \/ i \in DOMAIN s /\ u[i] = s[i]
          \/ i - Len(s) \in DOMAIN t /\ u[i] = t[i - Len(s)]
    BY ListJoin
  <1> HIDE DEF u
  <1>5. Follows(u, s, t)
    BY <1>1, <1>2, <1>3, <1>4 DEF Follows
  <1> QED BY <1>5 DEF u

\* A list of lists, joined.
LEMMA ListFlatten ==
    ASSUME NEW seqs, IsList(seqs), \A i \in DOMAIN seqs : IsList(seqs[i])
    PROVE  /\ IsList(FlattenSeq(seqs))
           /\ \A k \in DOMAIN FlattenSeq(seqs) :
                \E i \in DOMAIN seqs : \E j \in DOMAIN seqs[i] : FlattenSeq(seqs)[k] = seqs[i][j]
           /\ \A i \in DOMAIN seqs : \A j \in DOMAIN seqs[i] :
                \E k \in DOMAIN FlattenSeq(seqs) : FlattenSeq(seqs)[k] = seqs[i][j]
  <1> DEFINE V == UNION {Range(seqs[i]) : i \in DOMAIN seqs}
  <1>1. \A i \in DOMAIN seqs : seqs[i] \in Seq(V)
    <2> SUFFICES ASSUME NEW i \in DOMAIN seqs PROVE seqs[i] \in Seq(V)
      OBVIOUS
    <2>1. seqs[i] \in Seq(Range(seqs[i])) /\ Range(seqs[i]) \subseteq V
      BY DEF IsList, Range
    <2> QED BY <2>1
  <1> HIDE DEF V
  <1>2. Len(seqs) \in Nat /\ DOMAIN seqs = 1..Len(seqs) /\ seqs = [i \in DOMAIN seqs |-> seqs[i]]
    BY ListFacts
  <1>3. seqs \in [1..Len(seqs) -> Seq(V)]
    BY <1>1, <1>2
  <1>4. seqs \in Seq(Seq(V))
    BY <1>2, <1>3, FunctionIsSequence
  <1>5. FlattenSeq(seqs) \in Seq(V)
    BY <1>4, FlattenElements
  <1>6. IsList(FlattenSeq(seqs))
    BY <1>5, SequenceIsList
  <1>7. /\ \A k \in DOMAIN FlattenSeq(seqs) :
             \E i \in DOMAIN seqs : \E j \in DOMAIN seqs[i] : FlattenSeq(seqs)[k] = seqs[i][j]
        /\ \A i \in DOMAIN seqs : \A j \in DOMAIN seqs[i] :
             \E k \in DOMAIN FlattenSeq(seqs) : FlattenSeq(seqs)[k] = seqs[i][j]
    BY <1>4, FlattenElements
  <1> QED BY <1>6, <1>7

\* Some elements of a list.
LEMMA ListWhere ==
    ASSUME NEW s, IsList(s), NEW S \in SUBSET DOMAIN s
    PROVE  /\ IsList(Where(s, S))
           /\ \A k \in DOMAIN Where(s, S) : \E i \in S : Where(s, S)[k] = s[i]
           /\ \A i \in S : \E k \in DOMAIN Where(s, S) : Where(s, S)[k] = s[i]
  <1>1. s \in Seq(Range(s))
    BY DEF IsList, Range
  <1> DEFINE V == Range(s)
  <1> HIDE DEF V
  <1>2. s \in Seq(V)
    BY <1>1 DEF V
  <1>3. S \in SUBSET Int /\ IsFiniteSet(S) /\ \A i \in S : s[i] \in V
    BY <1>2, PickedIndices
  <1>4. Where(s, S) \in Seq(V)
    BY <1>3, WhereType
  <1>5. IsList(Where(s, S))
    BY <1>4, SequenceIsList
  <1> QED BY <1>3, <1>5, WhereElements

------------------------------------------------------------------------------
(* The findings of a Go file.                                              *)

\* Entry e is about name n of field f of struct st, at severity sev.
FieldEntry(e, rule, sev, st, f, n) ==
    e = Entry(Finding(rule, sev, f.line, "field", n), SourceOf(st, n))

\* It is the finding of rule that the field must have.
Emitted(e, rule, st, f, n) ==
    \/ rule = "PAN-KEYWORD" /\ FieldEntry(e, rule, KeywordSeverity(st, n), st, f, n)
    \/ rule = "PAN-TYPE" /\ FieldEntry(e, rule, "MEDIUM", st, f, n)

\* Rules that field f gives to a name.
FieldRules(f) == {"PAN-KEYWORD"} \cup {r \in {"PAN-TYPE"} : f.type = "string"}

\* The names of a field.
LEMMA FieldEmits ==
    ASSUME NEW st, NEW f, IsList(f.names)
    PROVE  /\ IsList(emitFieldFindings(st, f))
           /\ \A k \in DOMAIN emitFieldFindings(st, f) :
                 \E rule, sev, n : FieldEntry(emitFieldFindings(st, f)[k], rule, sev, st, f, n)
           /\ \A n \in Range(f.names) : \A rule \in FieldRules(f) : IsSensitiveKeyword(n) =>
                 \E k \in DOMAIN emitFieldFindings(st, f) : Emitted(emitFieldFindings(st, f)[k], rule, st, f, n)
  <1> DEFINE key(n) == Entry(Finding("PAN-KEYWORD", KeywordSeverity(st, n), f.line, "field", n), SourceOf(st, n))
             typ(n) == Entry(Finding("PAN-TYPE", "MEDIUM", f.line, "field", n), SourceOf(st, n))
             more(n) == IF f.type = "string" THEN <<typ(n)>> ELSE <<>>
             of(n) == IF ~IsSensitiveKeyword(n) THEN <<>> ELSE <<key(n)>> \o more(n)
             seqs == [i \in DOMAIN f.names |-> of(f.names[i])]
  <1>1. emitFieldFindings(st, f) = FlattenSeq(seqs)
    BY DEF emitFieldFindings
  <1>2. ASSUME NEW n
        PROVE  /\ IsList(of(n))
               /\ \A j \in DOMAIN of(n) : \E rule, sev : FieldEntry(of(n)[j], rule, sev, st, f, n)
               /\ IsSensitiveKeyword(n) => \A rule \in FieldRules(f) :
                     \E j \in DOMAIN of(n) : Emitted(of(n)[j], rule, st, f, n)
    <2>1. FieldEntry(key(n), "PAN-KEYWORD", KeywordSeverity(st, n), st, f, n) /\ Emitted(key(n), "PAN-KEYWORD", st, f, n)
      BY DEF FieldEntry, Emitted
    <2>2. FieldEntry(typ(n), "PAN-TYPE", "MEDIUM", st, f, n) /\ Emitted(typ(n), "PAN-TYPE", st, f, n)
      BY DEF FieldEntry, Emitted
    <2> HIDE DEF key, typ
    <2>3. CASE ~IsSensitiveKeyword(n)
      BY <2>3, ShortLists
    <2>4. CASE IsSensitiveKeyword(n)
      <3>1. of(n) = <<key(n)>> \o more(n)
        BY <2>4
      <3>2. IsList(more(n)) /\ \A j \in DOMAIN more(n) : f.type = "string" /\ more(n)[j] = typ(n)
        BY ShortLists
      <3>3. f.type = "string" => \E j \in DOMAIN more(n) : more(n)[j] = typ(n)
        BY ShortLists
      <3>4. IsList(<<key(n)>>) /\ DOMAIN <<key(n)>> = {1} /\ <<key(n)>>[1] = key(n)
        BY ShortLists
      <3> DEFINE a == <<key(n)>>
                 b == more(n)
      <3> HIDE DEF a, b, of, more
      <3>5. of(n) = a \o b /\ IsList(a) /\ IsList(b) /\ DOMAIN a = {1} /\ a[1] = key(n)
            /\ (\A j \in DOMAIN b : b[j] = typ(n)) /\ (f.type = "string" => \E j \in DOMAIN b : b[j] = typ(n))
        BY <3>1, <3>2, <3>3, <3>4 DEF a, b
      <3>6. /\ IsList(a \o b)
            /\ \A k \in DOMAIN a : k \in DOMAIN (a \o b) /\ (a \o b)[k] = a[k]
            /\ \A k \in DOMAIN b : Len(a) + k \in DOMAIN (a \o b) /\ (a \o b)[Len(a) + k] = b[k]
            /\ \A k \in DOMAIN (a \o b) :
                  \/ k \in DOMAIN a /\ (a \o b)[k] = a[k]
                  \/ k - Len(a) \in DOMAIN b /\ (a \o b)[k] = b[k - Len(a)]
        <4>1. IsList(a) /\ IsList(b)
          BY <3>5
        <4> QED BY ONLY <4>1, ListJoin
      <3>7. \A j \in DOMAIN of(n) : of(n)[j] = key(n) \/ of(n)[j] = typ(n)
        BY <3>5, <3>6
      <3>8. \E j \in DOMAIN of(n) : of(n)[j] = key(n)
        BY <3>5, <3>6
      <3>9. f.type = "string" => \E j \in DOMAIN of(n) : of(n)[j] = typ(n)
        BY <3>5, <3>6
      <3>10. \A rule \in FieldRules(f) : rule = "PAN-KEYWORD" \/ (rule = "PAN-TYPE" /\ f.type = "string")
        BY DEF FieldRules
      <3>11. \A rule \in FieldRules(f) : \E j \in DOMAIN of(n) : Emitted(of(n)[j], rule, st, f, n)
        BY <2>1, <2>2, <3>8, <3>9, <3>10
      <3> QED BY <2>1, <2>2, <3>5, <3>6, <3>7, <3>11
    <2> QED BY <2>3, <2>4
  <1> HIDE DEF of
  <1>3. Len(f.names) \in Nat /\ DOMAIN f.names = 1..Len(f.names)
    BY ListFacts
  <1>4. DOMAIN seqs = DOMAIN f.names /\ \A i \in DOMAIN f.names : seqs[i] = of(f.names[i])
    OBVIOUS
  <1>5. IsList(seqs)
    BY <1>3, FunctionIsList
  <1> HIDE DEF seqs
  <1>6. \A i \in DOMAIN seqs : IsList(seqs[i])
    BY <1>2, <1>4
  <1>7. IsList(FlattenSeq(seqs))
    BY <1>5, <1>6, ListFlatten
  <1>8. \A k \in DOMAIN FlattenSeq(seqs) :
           \E i \in DOMAIN seqs : \E j \in DOMAIN seqs[i] : FlattenSeq(seqs)[k] = seqs[i][j]
    BY <1>5, <1>6, ListFlatten
  <1>9. \A i \in DOMAIN seqs : \A j \in DOMAIN seqs[i] :
           \E k \in DOMAIN FlattenSeq(seqs) : FlattenSeq(seqs)[k] = seqs[i][j]
    BY <1>5, <1>6, ListFlatten
  <1> DEFINE t == FlattenSeq(seqs)
  <1> HIDE DEF t
  <1>10. ASSUME NEW k \in DOMAIN t PROVE \E rule, sev, n : FieldEntry(t[k], rule, sev, st, f, n)
    <2>1. PICK i \in DOMAIN seqs : \E j \in DOMAIN seqs[i] : t[k] = seqs[i][j]
      BY <1>8 DEF t
    <2>2. PICK j \in DOMAIN seqs[i] : t[k] = seqs[i][j]
      BY <2>1
    <2> QED BY <1>2, <1>4, <2>1, <2>2
  <1>11. ASSUME NEW n \in Range(f.names), NEW rule \in FieldRules(f), IsSensitiveKeyword(n)
         PROVE  \E k \in DOMAIN t : Emitted(t[k], rule, st, f, n)
    <2>1. PICK i \in DOMAIN f.names : f.names[i] = n
      BY DEF Range
    <2>2. PICK j \in DOMAIN of(n) : Emitted(of(n)[j], rule, st, f, n)
      BY <1>2, <1>11
    <2>3. i \in DOMAIN seqs /\ seqs[i] = of(n)
      BY <1>4, <2>1
    <2>4. \E k \in DOMAIN t : t[k] = seqs[i][j]
      BY <1>9, <2>2, <2>3 DEF t
    <2> QED BY <2>2, <2>3, <2>4
  <1> QED BY <1>1, <1>7, <1>10, <1>11 DEF t

\* Entry e comes from the json tag of field f of struct st.
TagEntry(e, st, f) ==
    \E n, field : e = Entry(Finding("PAN-KEYWORD", "HIGH", f.line, "tag", n), SourceOf(st, field))

\* The tag of a field.
LEMMA TagEmits ==
    ASSUME NEW st, NEW f
    PROVE  /\ IsList(emitJSONTagFindings(st, f))
           /\ \A k \in DOMAIN emitJSONTagFindings(st, f) : TagEntry(emitJSONTagFindings(st, f)[k], st, f)
  <1> DEFINE none == f.json \in {"none", "-"} \/ ~IsSensitiveKeyword(f.json)
             e == Entry(Finding("PAN-KEYWORD", "HIGH", f.line, "tag", f.json),
                        SourceOf(st, IF f.names = <<>> THEN f.json ELSE f.names[1]))
  <1>1. emitJSONTagFindings(st, f) = IF none THEN <<>> ELSE <<e>>
    BY DEF emitJSONTagFindings
  <1>2. TagEntry(e, st, f)
    BY DEF TagEntry
  <1> HIDE DEF e, none
  <1>3. CASE none
    BY <1>1, <1>3, ShortLists
  <1>4. CASE ~none
    BY <1>1, <1>2, <1>4, ShortLists
  <1> QED BY <1>3, <1>4

\* Entry e comes from a struct of the file.
FromField(e, st, f) == TagEntry(e, st, f) \/ \E rule, sev, n : FieldEntry(e, rule, sev, st, f, n)

\* Name and tag of a field.
OfField(st, f) == emitFieldFindings(st, f) \o emitJSONTagFindings(st, f)

\* They are about that field, and no sensitive name of it is missing.
LEMMA FieldEntries ==
    ASSUME NEW st, NEW f, IsList(f.names)
    PROVE  /\ IsList(OfField(st, f))
           /\ \A k \in DOMAIN OfField(st, f) : FromField(OfField(st, f)[k], st, f)
           /\ \A n \in Range(f.names) : \A rule \in FieldRules(f) : IsSensitiveKeyword(n) =>
                 \E k \in DOMAIN OfField(st, f) : Emitted(OfField(st, f)[k], rule, st, f, n)
  <1> DEFINE a == emitFieldFindings(st, f)
             b == emitJSONTagFindings(st, f)
  <1>1. /\ IsList(a)
        /\ \A k \in DOMAIN a : \E rule, sev, n : FieldEntry(a[k], rule, sev, st, f, n)
        /\ \A n \in Range(f.names) : \A rule \in FieldRules(f) : IsSensitiveKeyword(n) =>
                 \E k \in DOMAIN a : Emitted(a[k], rule, st, f, n)
    BY FieldEmits
  <1>2. IsList(b) /\ \A k \in DOMAIN b : TagEntry(b[k], st, f)
    BY TagEmits
  <1>3. OfField(st, f) = a \o b
    BY DEF OfField
  <1> HIDE DEF a, b
  <1>4. /\ IsList(a \o b)
        /\ \A k \in DOMAIN a : k \in DOMAIN (a \o b) /\ (a \o b)[k] = a[k]
        /\ \A k \in DOMAIN (a \o b) :
              \/ k \in DOMAIN a /\ (a \o b)[k] = a[k]
              \/ k - Len(a) \in DOMAIN b /\ (a \o b)[k] = b[k - Len(a)]
    <2>1. IsList(a) /\ IsList(b)
      BY <1>1, <1>2
    <2> QED BY ONLY <2>1, ListJoin
  <1>5. \A k \in DOMAIN (a \o b) : FromField((a \o b)[k], st, f)
    BY <1>1, <1>2, <1>4 DEF FromField
  <1>6. ASSUME NEW n \in Range(f.names), NEW rule \in FieldRules(f), IsSensitiveKeyword(n)
        PROVE  \E k \in DOMAIN (a \o b) : Emitted((a \o b)[k], rule, st, f, n)
    <2>1. PICK k \in DOMAIN a : Emitted(a[k], rule, st, f, n)
      BY <1>1, <1>6
    <2> QED BY <1>4, <2>1
  <1> QED BY <1>3, <1>4, <1>5, <1>6

\* The fields of a struct.
OfStruct(st) == FlattenSeq([j \in DOMAIN st.fields |-> OfField(st, st.fields[j])])

\* They are about its fields, and no sensitive name of one is missing.
LEMMA StructEntries ==
    ASSUME NEW st, IsList(st.fields), \A f \in Range(st.fields) : IsList(f.names)
    PROVE  /\ IsList(OfStruct(st))
           /\ \A k \in DOMAIN OfStruct(st) : \E f \in Range(st.fields) : FromField(OfStruct(st)[k], st, f)
           /\ \A f \in Range(st.fields) : \A n \in Range(f.names) : \A rule \in FieldRules(f) : IsSensitiveKeyword(n) =>
                 \E k \in DOMAIN OfStruct(st) : Emitted(OfStruct(st)[k], rule, st, f, n)
  <1> DEFINE seqs == [j \in DOMAIN st.fields |-> OfField(st, st.fields[j])]
             t == FlattenSeq(seqs)
  <1>1. OfStruct(st) = t
    BY DEF OfStruct
  <1>2. Len(st.fields) \in Nat /\ DOMAIN st.fields = 1..Len(st.fields) /\ \A j \in DOMAIN st.fields : st.fields[j] \in Range(st.fields)
    BY ListFacts DEF Range
  <1>3. DOMAIN seqs = DOMAIN st.fields /\ \A j \in DOMAIN st.fields : seqs[j] = OfField(st, st.fields[j])
    OBVIOUS
  <1>4. IsList(seqs)
    BY <1>2, FunctionIsList
  <1> HIDE DEF seqs
  <1>5. \A j \in DOMAIN seqs : IsList(seqs[j])
    BY <1>2, <1>3, FieldEntries
  <1>6. IsList(t)
    BY <1>4, <1>5, ListFlatten
  <1>7. \A k \in DOMAIN t : \E i \in DOMAIN seqs : \E j \in DOMAIN seqs[i] : t[k] = seqs[i][j]
    BY <1>4, <1>5, ListFlatten
  <1>8. \A i \in DOMAIN seqs : \A j \in DOMAIN seqs[i] : \E k \in DOMAIN t : t[k] = seqs[i][j]
    BY <1>4, <1>5, ListFlatten
  <1> HIDE DEF t
  <1>9. ASSUME NEW k \in DOMAIN t PROVE \E f \in Range(st.fields) : FromField(t[k], st, f)
    <2>1. PICK i \in DOMAIN seqs : \E j \in DOMAIN seqs[i] : t[k] = seqs[i][j]
      BY <1>7
    <2>2. PICK j \in DOMAIN seqs[i] : t[k] = seqs[i][j]
      BY <2>1
    <2>3. seqs[i] = OfField(st, st.fields[i]) /\ st.fields[i] \in Range(st.fields)
      BY <1>2, <1>3
    <2>4. FromField(seqs[i][j], st, st.fields[i])
      BY <2>2, <2>3, FieldEntries
    <2> QED BY <2>2, <2>3, <2>4
  <1>10. ASSUME NEW f \in Range(st.fields), NEW n \in Range(f.names), NEW rule \in FieldRules(f), IsSensitiveKeyword(n)
         PROVE  \E k \in DOMAIN t : Emitted(t[k], rule, st, f, n)
    <2>1. PICK i \in DOMAIN st.fields : st.fields[i] = f
      BY DEF Range
    <2>2. PICK j \in DOMAIN OfField(st, f) : Emitted(OfField(st, f)[j], rule, st, f, n)
      BY <1>10, FieldEntries
    <2>3. i \in DOMAIN seqs /\ seqs[i] = OfField(st, f)
      BY <1>3, <2>1
    <2>4. \E k \in DOMAIN t : t[k] = seqs[i][j]
      BY <1>8, <2>2, <2>3
    <2> QED BY <2>2, <2>3, <2>4
  <1> QED BY <1>1, <1>6, <1>9, <1>10

\* The structs of a file.
LEMMA FileStructs ==
    ASSUME NEW file, WellFormedFile(file)
    PROVE  /\ IsList(scanStructFields(file))
           /\ \A k \in DOMAIN scanStructFields(file) :
                 \E st \in Range(file.structs) : \E f \in Range(st.fields) : FromField(scanStructFields(file)[k], st, f)
           /\ \A st \in Range(file.structs) : \A f \in Range(st.fields) :
                 \A n \in Range(f.names) : \A rule \in FieldRules(f) : IsSensitiveKeyword(n) =>
                    \E k \in DOMAIN scanStructFields(file) : Emitted(scanStructFields(file)[k], rule, st, f, n)
  <1> DEFINE seqs == [i \in DOMAIN file.structs |-> OfStruct(file.structs[i])]
             t == FlattenSeq(seqs)
  <1>1. scanStructFields(file) = t
    BY DEF scanStructFields, OfStruct, OfField
  <1>2. Len(file.structs) \in Nat /\ DOMAIN file.structs = 1..Len(file.structs)
        /\ \A j \in DOMAIN file.structs : file.structs[j] \in Range(file.structs)
    BY ListFacts DEF Range, WellFormedFile
  <1>3. DOMAIN seqs = DOMAIN file.structs /\ \A j \in DOMAIN file.structs : seqs[j] = OfStruct(file.structs[j])
    OBVIOUS
  <1>4. IsList(seqs)
    BY <1>2, FunctionIsList
  <1> HIDE DEF seqs
  <1>5. \A st \in Range(file.structs) : IsList(st.fields) /\ \A f \in Range(st.fields) : IsList(f.names)
    BY DEF WellFormedFile
  <1>6. \A j \in DOMAIN seqs : IsList(seqs[j])
    BY <1>2, <1>3, <1>5, StructEntries
  <1>7. IsList(t)
    BY <1>4, <1>6, ListFlatten
  <1>8. \A k \in DOMAIN t : \E i \in DOMAIN seqs : \E j \in DOMAIN seqs[i] : t[k] = seqs[i][j]
    BY <1>4, <1>6, ListFlatten
  <1>9. \A i \in DOMAIN seqs : \A j \in DOMAIN seqs[i] : \E k \in DOMAIN t : t[k] = seqs[i][j]
    BY <1>4, <1>6, ListFlatten
  <1> HIDE DEF t
  <1>10. ASSUME NEW k \in DOMAIN t
         PROVE  \E st \in Range(file.structs) : \E f \in Range(st.fields) : FromField(t[k], st, f)
    <2>1. PICK i \in DOMAIN seqs : \E j \in DOMAIN seqs[i] : t[k] = seqs[i][j]
      BY <1>8
    <2>2. PICK j \in DOMAIN seqs[i] : t[k] = seqs[i][j]
      BY <2>1
    <2> DEFINE st == file.structs[i]
    <2>3. seqs[i] = OfStruct(st) /\ st \in Range(file.structs)
      BY <1>2, <1>3
    <2> HIDE DEF st
    <2>4. \E f \in Range(st.fields) : FromField(seqs[i][j], st, f)
      BY <1>5, <2>2, <2>3, StructEntries
    <2> QED BY <2>2, <2>3, <2>4
  <1>11. ASSUME NEW st \in Range(file.structs), NEW f \in Range(st.fields), NEW n \in Range(f.names),
                NEW rule \in FieldRules(f), IsSensitiveKeyword(n)
         PROVE  \E k \in DOMAIN t : Emitted(t[k], rule, st, f, n)
    <2>1. PICK i \in DOMAIN file.structs : file.structs[i] = st
      BY DEF Range
    <2>2. PICK j \in DOMAIN OfStruct(st) : Emitted(OfStruct(st)[j], rule, st, f, n)
      BY <1>5, <1>11, StructEntries
    <2>3. i \in DOMAIN seqs /\ seqs[i] = OfStruct(st)
      BY <1>3, <2>1
    <2>4. \E k \in DOMAIN t : t[k] = seqs[i][j]
      BY <1>9, <2>2, <2>3
    <2> QED BY <2>2, <2>3, <2>4
  <1> QED BY <1>1, <1>7, <1>10, <1>11

\* What is merged: two findings of a line, of which the first is about a name
\* and the second about a tag.
LEMMA MergePairs ==
    ASSUME NEW entries, IsList(entries), NEW m \in Merges(entries)
    PROVE  /\ m[1] \in DOMAIN entries /\ m[2] \in DOMAIN entries
           /\ entries[m[1]].finding.how = "field" /\ entries[m[2]].finding.how = "tag"
           /\ entries[m[1]].finding.line = entries[m[2]].finding.line
  <1> DEFINE fd(i) == entries[i].finding
             on(line, how) == {i \in DOMAIN entries : fd(i).rule = "PAN-KEYWORD" /\ fd(i).line = line /\ fd(i).how = how}
  <1>1. PICK l : on(l, "field") # {} /\ on(l, "tag") # {} /\ m = <<Max(on(l, "field")), Max(on(l, "tag"))>>
    BY DEF Merges
  <1>2. ASSUME NEW S \in SUBSET DOMAIN entries, S # {} PROVE Max(S) \in S
    <2>1. entries \in Seq(Range(entries))
      BY ListFacts
    <2>2. S \in SUBSET Int /\ IsFiniteSet(S)
      BY <2>1, PickedIndices
    <2>3. \E k \in S : \A j \in S : j <= k
      BY <1>2, <2>2, GreatestMember
    <2>4. \E k \in S : \A j \in S : k >= j
      BY <2>2, <2>3
    <2> QED BY <2>4 DEF Max
  <1>3. Max(on(l, "field")) \in on(l, "field")
    <2>1. on(l, "field") \in SUBSET DOMAIN entries
      OBVIOUS
    <2> HIDE DEF on
    <2> QED BY <1>1, <1>2, <2>1
  <1>4. Max(on(l, "tag")) \in on(l, "tag")
    <2>1. on(l, "tag") \in SUBSET DOMAIN entries
      OBVIOUS
    <2> HIDE DEF on
    <2> QED BY <1>1, <1>2, <2>1
  <1>5. m[1] \in on(l, "field") /\ m[2] \in on(l, "tag")
    <2> HIDE DEF on
    <2> QED BY <1>1, <1>3, <1>4
  <1> QED BY <1>5

\* The same finding at another severity.
LEMMA OtherSeverity ==
    ASSUME NEW rule, NEW sev, NEW file, NEW line, NEW how, NEW name, NEW digits, NEW note, NEW s
    PROVE  [[rule |-> rule, sev |-> sev, file |-> file, line |-> line, how |-> how, name |-> name,
             digits |-> digits, note |-> note] EXCEPT !.sev = s]
           = [rule |-> rule, sev |-> s, file |-> file, line |-> line, how |-> how, name |-> name,
              digits |-> digits, note |-> note]
  OBVIOUS

\* Entry e reports this, of source src.
Reports(e, rule, sev, line, how, n, src) == e = Entry(Finding(rule, sev, line, how, n), src)

\* So does e after merging with the tag: at one of the two severities, and of
\* the tag's source if it had no type.
MergesTo(e, rule, sev, line, how, n, src, tag) ==
    \E s \in {sev, tag.finding.sev} : \E from \in {src, tag.source} :
        /\ Reports(e, rule, s, line, how, n, from)
        /\ from # src => src.type = "" /\ tag.source.type # ""

\* Merging takes the tag's severity if that is higher, and its source if the
\* entry has no type.
LEMMA MergedIs ==
    ASSUME NEW rule, NEW sev, NEW line, NEW how, NEW n, NEW src, NEW tag,
           NEW e, Reports(e, rule, sev, line, how, n, src)
    PROVE  MergesTo(MergedEntry(e, tag), rule, sev, line, how, n, src, tag)
  <1> DEFINE s == IF severityHigher(tag.finding.sev, sev) THEN tag.finding.sev ELSE sev
             from == IF src.type = "" /\ tag.source.type # "" THEN tag.source ELSE src
  <1>1. MergedEntry(e, tag) = Entry(Finding(rule, s, line, how, n), from)
    <2>1. e.finding = Finding(rule, sev, line, how, n) /\ e.source = src
      BY DEF Entry, Reports
    <2>2. Finding(rule, sev, line, how, n).sev = sev
      BY DEF Finding
    <2> HIDE DEF s, from
    <2>3. MergedEntry(e, tag) = Entry([e.finding EXCEPT !.sev = s], from)
      BY <2>1, <2>2 DEF MergedEntry, s, from
    <2>4. [Finding(rule, sev, line, how, n) EXCEPT !.sev = s] = Finding(rule, s, line, how, n)
      <3> DEFINE zero == 0
                 none == <<>>
                 blank == ""
                 rec(x) == [rule |-> rule, sev |-> x, file |-> zero, line |-> line, how |-> how, name |-> n,
                            digits |-> none, note |-> blank]
      <3>1. Finding(rule, sev, line, how, n) = rec(sev) /\ Finding(rule, s, line, how, n) = rec(s)
        BY DEF Finding
      <3> HIDE DEF zero, none, blank
      <3>2. [rec(sev) EXCEPT !.sev = s] = rec(s)
        BY OtherSeverity
      <3> HIDE DEF rec
      <3> QED BY <3>1, <3>2
    <2> QED BY <2>1, <2>3, <2>4
  <1>2. s \in {sev, tag.finding.sev} /\ from \in {src, tag.source} /\ (from # src => src.type = "" /\ tag.source.type # "")
    OBVIOUS
  <1> HIDE DEF s, from
  <1> QED BY <1>1, <1>2 DEF Reports, MergesTo

\* The fields of a finding.
FindingFields == {"rule", "sev", "file", "line", "how", "name", "digits", "note"}

\* A finding that is not about a card number.
Plain(e) == \E rule, sev, line, n, src : \E how \in {"field", "tag", "parameter", "logger", "local"} :
    Reports(e, rule, sev, line, how, n, src)

\* A finding about a literal has the digits of a valid card number.
Checked(f) == f.how = "literal" => LuhnValid(f.digits) /\ f.digits \in Seq(0..9)

\* What can be said of every finding of a file.
GoodFinding(f) == DOMAIN f = FindingFields /\ Checked(f)

\* Entry e shows name n of field f of struct st, not as INFO unless it is a
\* bank account.
Shown(e, rule, st, f, n) ==
    \E sev : FieldEntry(e, rule, sev, st, f, n) /\ (sev # "INFO" \/ IsBankingContext(st))

\* It is as good as any.
LEMMA PlainIsGood ==
    ASSUME NEW e, Plain(e)
    PROVE  GoodFinding(e.finding)
  <1>1. PICK rule, sev, line, n, src : \E how \in {"field", "tag", "parameter", "logger", "local"} :
              Reports(e, rule, sev, line, how, n, src)
    BY DEF Plain
  <1>2. PICK how \in {"field", "tag", "parameter", "logger", "local"} : Reports(e, rule, sev, line, how, n, src)
    BY <1>1
  <1>3. DOMAIN e.finding = FindingFields /\ e.finding.how = how
    BY <1>2 DEF Reports, Entry, Finding, FindingFields
  <1>4. how # "literal"
    BY <1>2
  <1> QED BY <1>3, <1>4 DEF GoodFinding, Checked

\* Entries of a struct, seen as findings.
LEMMA FromFieldIs ==
    ASSUME NEW e, NEW st, NEW f, FromField(e, st, f)
    PROVE  /\ Plain(e) /\ e.finding.line = f.line /\ e.source.type = st.name
           /\ e.finding.how \in {"field", "tag"}
           /\ e.finding.how = "tag" => e.finding.sev = "HIGH"
  <1>1. ASSUME NEW x, NEW n PROVE SourceOf(x, n).type = x.name
    BY DEF SourceOf
  <1>2. CASE TagEntry(e, st, f)
    <2>1. PICK n, field : Reports(e, "PAN-KEYWORD", "HIGH", f.line, "tag", n, SourceOf(st, field))
      BY <1>2 DEF TagEntry, Reports
    <2>2. e.finding.sev = "HIGH" /\ e.finding.line = f.line /\ e.finding.how = "tag" /\ e.source = SourceOf(st, field)
      BY <2>1 DEF Reports, Entry, Finding
    <2>3. Plain(e)
      BY <2>1 DEF Plain
    <2> QED BY <1>1, <2>2, <2>3
  <1>3. CASE \E rule, sev, n : FieldEntry(e, rule, sev, st, f, n)
    <2>1. PICK rule, sev, n : Reports(e, rule, sev, f.line, "field", n, SourceOf(st, n))
      BY <1>3 DEF FieldEntry, Reports
    <2>2. e.finding.line = f.line /\ e.finding.how = "field" /\ e.source = SourceOf(st, n)
      BY <2>1 DEF Reports, Entry, Finding
    <2>3. Plain(e)
      BY <2>1 DEF Plain
    <2> QED BY <1>1, <2>2, <2>3
  <1> QED BY <1>2, <1>3 DEF FromField

\* A field's finding is not INFO, but for bank accounts.
LEMMA EmittedShown ==
    ASSUME NEW e, NEW rule, NEW st, NEW f, NEW n, Emitted(e, rule, st, f, n)
    PROVE  Shown(e, rule, st, f, n)
  <1>1. KeywordSeverity(st, n) # "INFO" \/ IsBankingContext(st)
    BY DEF KeywordSeverity
  <1>2. "MEDIUM" # "INFO"
    OBVIOUS
  <1> QED BY <1>1, <1>2 DEF Emitted, Shown

\* Merging with the tag of its line leaves it so.
LEMMA MergedShown ==
    ASSUME NEW file, NEW st, NEW f, OwnLine(file, st, f), NEW e, NEW rule, NEW n, Shown(e, rule, st, f, n),
           NEW st2 \in Range(file.structs), NEW f2 \in Range(st2.fields), NEW tag, FromField(tag, st2, f2),
           tag.finding.how = "tag", tag.finding.line = f.line
    PROVE  Shown(MergedEntry(e, tag), rule, st, f, n)
  <1>1. tag.finding.sev = "HIGH" /\ tag.source.type = st2.name /\ f2.line = f.line
    BY FromFieldIs
  <1>2. PICK sev : FieldEntry(e, rule, sev, st, f, n) /\ (sev # "INFO" \/ IsBankingContext(st))
    BY DEF Shown
  <1> DEFINE src == SourceOf(st, n)
  <1>3. Reports(e, rule, sev, f.line, "field", n, src)
    BY <1>2 DEF FieldEntry, Reports
  <1>4. src.type = st.name
    BY DEF SourceOf
  <1> HIDE DEF src
  <1>5. PICK s \in {sev, tag.finding.sev} : \E from \in {src, tag.source} :
              /\ Reports(MergedEntry(e, tag), rule, s, f.line, "field", n, from)
              /\ from # src => src.type = "" /\ tag.source.type # ""
    <2> DEFINE fld == "field"
               line == f.line
    <2>1. Reports(e, rule, sev, line, fld, n, src)
      BY <1>3
    <2> HIDE DEF fld, line
    <2>2. MergesTo(MergedEntry(e, tag), rule, sev, line, fld, n, src, tag)
      BY ONLY <2>1, MergedIs
    <2> QED BY <2>2 DEF fld, line, MergesTo
  <1>6. PICK from \in {src, tag.source} :
              /\ Reports(MergedEntry(e, tag), rule, s, f.line, "field", n, from)
              /\ from # src => src.type = "" /\ tag.source.type # ""
    BY <1>5
  <1>7. from = src
    <2> SUFFICES ASSUME from # src PROVE FALSE
      OBVIOUS
    <2>1. st.name = "" /\ st2.name # ""
      BY <1>1, <1>4, <1>6
    <2> QED BY <1>1, <2>1 DEF OwnLine
  <1>8. s # "INFO" \/ IsBankingContext(st)
    BY <1>1, <1>2, <1>5
  <1>9. FieldEntry(MergedEntry(e, tag), rule, s, st, f, n)
    BY <1>6, <1>7 DEF FieldEntry, Reports, src
  <1> QED BY <1>8, <1>9 DEF Shown

\* Merging an entry leaves its place and kind alone.
LEMMA MergedPlain ==
    ASSUME NEW e, Plain(e), NEW tag
    PROVE  Plain(MergedEntry(e, tag))
  <1>1. PICK rule, sev, line, n, src : \E how \in {"field", "tag", "parameter", "logger", "local"} :
              Reports(e, rule, sev, line, how, n, src)
    BY DEF Plain
  <1>2. PICK how \in {"field", "tag", "parameter", "logger", "local"} : Reports(e, rule, sev, line, how, n, src)
    BY <1>1
  <1>3. \E s, from : Reports(MergedEntry(e, tag), rule, s, line, how, n, from)
    <2>1. MergesTo(MergedEntry(e, tag), rule, sev, line, how, n, src, tag)
      BY <1>2, MergedIs
    <2> QED BY <2>1 DEF MergesTo
  <1> QED BY <1>3, <1>2 DEF Plain

\* The entries of the structs of file.
OfStructs(file, entries) ==
    \A k \in DOMAIN entries : \E st \in Range(file.structs) : \E f \in Range(st.fields) : FromField(entries[k], st, f)

\* No field loses its findings to the merging of names and tags.
LEMMA Deduplicated ==
    ASSUME NEW file, NEW entries, IsList(entries), OfStructs(file, entries)
    PROVE  LET d == deduplicateStructFindings(entries)
           IN  /\ IsList(d) /\ \A k \in DOMAIN d : Plain(d[k])
               /\ \A st \in Range(file.structs) : \A f \in Range(st.fields) : \A n, rule :
                     OwnLine(file, st, f) /\ (\E k \in DOMAIN entries : Emitted(entries[k], rule, st, f, n))
                        => \E k \in DOMAIN d : Shown(d[k], rule, st, f, n)
  <1> DEFINE merges == Merges(entries)
             has(i) == \E m \in merges : m[1] = i
             pair(i) == CHOOSE m \in merges : m[1] = i
             merged == [i \in DOMAIN entries |->
                          IF has(i) THEN MergedEntry(entries[i], entries[pair(i)[2]]) ELSE entries[i]]
             gone == {m[2] : m \in merges}
             S == DOMAIN merged \ gone
             d == Where(merged, S)
  <1>1. deduplicateStructFindings(entries) = d
    BY DEF deduplicateStructFindings, Without
  <1>2. Len(entries) \in Nat /\ DOMAIN entries = 1..Len(entries)
    BY ListFacts
  <1>3. ASSUME NEW m \in merges
        PROVE  /\ m[1] \in DOMAIN entries /\ m[2] \in DOMAIN entries
               /\ entries[m[1]].finding.how = "field" /\ entries[m[2]].finding.how = "tag"
               /\ entries[m[1]].finding.line = entries[m[2]].finding.line
    BY MergePairs
  <1> HIDE DEF merges
  <1>4. \A i : has(i) => pair(i) \in merges /\ pair(i)[1] = i
    OBVIOUS
  <1> HIDE DEF has, pair
  <1>5. /\ DOMAIN merged = DOMAIN entries
        /\ \A i \in DOMAIN entries :
              merged[i] = IF has(i) THEN MergedEntry(entries[i], entries[pair(i)[2]]) ELSE entries[i]
    OBVIOUS
  <1>6. IsList(merged)
    BY <1>2, FunctionIsList
  <1> HIDE DEF merged
  <1>7. /\ IsList(d)
        /\ \A k \in DOMAIN d : \E i \in S : d[k] = merged[i]
        /\ \A i \in S : \E k \in DOMAIN d : d[k] = merged[i]
    <2>1. S \in SUBSET DOMAIN merged
      OBVIOUS
    <2> HIDE DEF S
    <2> QED BY <1>6, <2>1, ListWhere
  <1>8. ASSUME NEW i \in DOMAIN entries PROVE Plain(merged[i])
    <2>1. Plain(entries[i])
      BY FromFieldIs DEF OfStructs
    <2>2. Plain(MergedEntry(entries[i], entries[pair(i)[2]]))
      BY <2>1, MergedPlain
    <2> QED BY <1>5, <2>1, <2>2
  <1>9. ASSUME NEW st \in Range(file.structs), NEW f \in Range(st.fields), NEW n, NEW rule, OwnLine(file, st, f),
               NEW i \in DOMAIN entries, Emitted(entries[i], rule, st, f, n)
        PROVE  i \in S /\ Shown(merged[i], rule, st, f, n)
    <2> DEFINE e == entries[i]
    <2>1. Shown(e, rule, st, f, n)
      BY <1>9, EmittedShown
    <2>2. PICK sev : Reports(e, rule, sev, f.line, "field", n, SourceOf(st, n))
      BY <2>1 DEF Shown, FieldEntry, Reports
    <2>3. e.finding.how = "field" /\ e.finding.line = f.line
      <3> HIDE DEF e
      <3> QED BY <2>2 DEF Reports, Entry, Finding
    <2>4. i \in S
      BY <1>3, <1>5, <2>3
    <2>5. CASE ~has(i)
      BY <1>5, <2>1, <2>4, <2>5
    <2>6. CASE has(i)
      <3> DEFINE tag == entries[pair(i)[2]]
      <3>1. pair(i)[2] \in DOMAIN entries /\ tag.finding.how = "tag" /\ tag.finding.line = f.line
        BY <1>3, <1>4, <2>3, <2>6
      <3>2. PICK st2 \in Range(file.structs) : \E f2 \in Range(st2.fields) : FromField(tag, st2, f2)
        BY <3>1 DEF OfStructs
      <3>3. PICK f2 \in Range(st2.fields) : FromField(tag, st2, f2)
        BY <3>2
      <3> HIDE DEF tag, e
      <3>4. Shown(MergedEntry(e, tag), rule, st, f, n)
        BY <1>9, <2>1, <3>1, <3>2, <3>3, MergedShown
      <3> QED BY <1>5, <2>4, <2>6, <3>4 DEF tag, e
    <2> QED BY <2>5, <2>6
  <1>10. \A k \in DOMAIN d : Plain(d[k])
    BY <1>5, <1>7, <1>8
  <1>11. ASSUME NEW st \in Range(file.structs), NEW f \in Range(st.fields), NEW n, NEW rule, OwnLine(file, st, f),
                \E i \in DOMAIN entries : Emitted(entries[i], rule, st, f, n)
         PROVE  \E k \in DOMAIN d : Shown(d[k], rule, st, f, n)
    <2>1. PICK i \in DOMAIN entries : Emitted(entries[i], rule, st, f, n)
      BY <1>11
    <2>2. i \in S /\ Shown(merged[i], rule, st, f, n)
      BY <1>9, <1>11, <2>1
    <2> HIDE DEF d, S
    <2> QED BY <1>7, <2>2
  <1> HIDE DEF d
  <1> QED BY <1>1, <1>7, <1>10, <1>11

\* Grouping takes parameters only.
LEMMA Grouped ==
    ASSUME NEW entries, IsList(entries)
    PROVE  LET g == groupParameterFindings(entries)
           IN  /\ IsList(g)
               /\ \A k \in DOMAIN g : \E i \in DOMAIN entries : g[k] = entries[i]
               /\ \A i \in DOMAIN entries : entries[i].finding.how # "parameter" =>
                     \E k \in DOMAIN g : g[k] = entries[i]
  <1> DEFINE isParam(i) == entries[i].finding.how = "parameter"
             gone == {i \in DOMAIN entries :
                        isParam(i) /\ \E j \in 1..i - 1 : isParam(j) /\ entries[j].finding.name = entries[i].finding.name}
             S == DOMAIN entries \ gone
  <1>1. groupParameterFindings(entries) = Where(entries, S)
    BY DEF groupParameterFindings, Without
  <1>2. S \in SUBSET DOMAIN entries /\ \A i \in DOMAIN entries : entries[i].finding.how # "parameter" => i \in S
    OBVIOUS
  <1> HIDE DEF S
  <1>3. /\ IsList(Where(entries, S))
        /\ \A k \in DOMAIN Where(entries, S) : \E i \in S : Where(entries, S)[k] = entries[i]
        /\ \A i \in S : \E k \in DOMAIN Where(entries, S) : Where(entries, S)[k] = entries[i]
    BY <1>2, ListWhere
  <1> QED BY <1>1, <1>2, <1>3

\* Lists of good findings, with and without sources.
GoodEntries(es) == IsList(es) /\ \A k \in DOMAIN es : GoodFinding(es[k].finding)
GoodFindings(fs) == IsList(fs) /\ \A k \in DOMAIN fs : GoodFinding(fs[k])

\* One after the other.
LEMMA GoodJoin ==
    ASSUME NEW a, NEW b, GoodEntries(a), GoodEntries(b)
    PROVE  GoodEntries(a \o b) /\ \A k \in DOMAIN a : k \in DOMAIN (a \o b) /\ (a \o b)[k] = a[k]
  <1>1. IsList(a) /\ IsList(b)
    BY DEF GoodEntries
  <1>2. /\ IsList(a \o b)
        /\ \A k \in DOMAIN a : k \in DOMAIN (a \o b) /\ (a \o b)[k] = a[k]
        /\ \A k \in DOMAIN (a \o b) :
              \/ k \in DOMAIN a /\ (a \o b)[k] = a[k]
              \/ k - Len(a) \in DOMAIN b /\ (a \o b)[k] = b[k - Len(a)]
    BY ONLY <1>1, ListJoin
  <1>3. \A k \in DOMAIN (a \o b) : GoodFinding((a \o b)[k].finding)
    BY <1>2 DEF GoodEntries
  <1> QED BY <1>2, <1>3 DEF GoodEntries

\* The sensitive ones of a list of names.
LEMMA SensitiveList ==
    ASSUME NEW names, IsList(names)
    PROVE  IsList(Sensitive(names))
  <1> DEFINE S == {i \in DOMAIN names : IsSensitiveKeyword(names[i])}
  <1>1. S \in SUBSET DOMAIN names
    OBVIOUS
  <1>2. Sensitive(names) = Where(names, S)
    BY DEF Sensitive
  <1> HIDE DEF S
  <1> QED BY <1>1, <1>2, ListWhere

\* A finding for each name of a list.
Each(names, rule, sev, how) == [i \in DOMAIN names |-> Other(Finding(rule, sev, 0, how, names[i]))]

\* They are good findings: none is about a literal.
LEMMA EachGood ==
    ASSUME NEW names, IsList(names), NEW rule, NEW sev, NEW how \in {"parameter", "logger", "local"}
    PROVE  GoodEntries(Each(names, rule, sev, how))
  <1> DEFINE g == Each(names, rule, sev, how)
  <1>1. DOMAIN g = DOMAIN names /\ g = [i \in DOMAIN g |-> g[i]]
        /\ \A i \in DOMAIN names : g[i] = Other(Finding(rule, sev, 0, how, names[i]))
    BY DEF Each
  <1>2. Len(names) \in Nat /\ DOMAIN names = 1..Len(names)
    BY ListFacts
  <1> HIDE DEF g
  <1>3. IsList(g)
    BY <1>1, <1>2, FunctionIsList
  <1>4. ASSUME NEW i \in DOMAIN g PROVE GoodFinding(g[i].finding)
    <2>1. Reports(g[i], rule, sev, 0, how, names[i], NoField)
      BY <1>1 DEF Reports, Other
    <2>2. Plain(g[i])
      BY <2>1 DEF Plain
    <2> QED BY <2>2, PlainIsGood
  <1> QED BY <1>3, <1>4 DEF GoodEntries, g

\* Parameters.
LEMMA ParamEntries ==
    ASSUME NEW file, WellFormedFile(file)
    PROVE  GoodEntries(scanFunctionParams(file))
  <1> DEFINE how == "parameter"
             rule == "PAN-TYPE"
             sev == "MEDIUM"
             names == Sensitive(file.params)
  <1>1. IsList(file.params)
    BY DEF WellFormedFile
  <1>2. IsList(names)
    BY <1>1, SensitiveList
  <1>3. scanFunctionParams(file) = Each(names, rule, sev, how)
    BY DEF scanFunctionParams, Each
  <1>4. how \in {"parameter", "logger", "local"}
    OBVIOUS
  <1> HIDE DEF how, rule, sev, names
  <1> QED BY <1>2, <1>3, <1>4, EachGood

\* Arguments of loggers.
LEMMA LoggerEntries ==
    ASSUME NEW file, WellFormedFile(file)
    PROVE  GoodEntries(scanLoggerCalls(file))
  <1> DEFINE how == "logger"
             rule == "PAN-LOGGER"
             sev == "CRITICAL"
             names == Sensitive(file.logged)
  <1>1. IsList(file.logged)
    BY DEF WellFormedFile
  <1>2. IsList(names)
    BY <1>1, SensitiveList
  <1>3. scanLoggerCalls(file) = Each(names, rule, sev, how)
    BY DEF scanLoggerCalls, Each
  <1>4. how \in {"parameter", "logger", "local"}
    OBVIOUS
  <1> HIDE DEF how, rule, sev, names
  <1> QED BY <1>2, <1>3, <1>4, EachGood

\* Local variables that are not zeroed.
LEMMA LocalEntries ==
    ASSUME NEW file, WellFormedFile(file)
    PROVE  GoodEntries(scanLocalByteZeroing(file))
  <1> DEFINE how == "local"
             rule == "PAN-ZEROING"
             sev == "MEDIUM"
             found(b) == collectLocalSensitiveByteVars(file, b)
             kept(b) == {i \in DOMAIN found(b) : ~hasZeroingPattern(file, b, found(b)[i])}
             seqs == [b \in DOMAIN file.bodies |-> Each(Where(found(b), kept(b)), rule, sev, how)]
             t == FlattenSeq(seqs)
  <1>1. IsList(file.bodies) /\ \A c \in DOMAIN file.bodies : IsList(file.bodies[c].bytes)
    BY DEF WellFormedFile, Range
  <1>2. Len(file.bodies) \in Nat /\ DOMAIN file.bodies = 1..Len(file.bodies)
    BY <1>1, ListFacts
  <1>3. scanLocalByteZeroing(file) = t
    BY DEF scanLocalByteZeroing, Each
  <1>4. how \in {"parameter", "logger", "local"}
    OBVIOUS
  <1> HIDE DEF how, rule, sev
  <1>5. ASSUME NEW b PROVE IsList(found(b))
    <2> DEFINE parts == [c \in DOMAIN file.bodies |-> IF c \in Inside(file, b) THEN file.bodies[c].bytes ELSE <<>>]
    <2>1. found(b) = Sensitive(FlattenSeq(parts))
      BY DEF collectLocalSensitiveByteVars
    <2>2. DOMAIN parts = DOMAIN file.bodies /\ \A c \in DOMAIN parts : parts[c] = file.bodies[c].bytes \/ parts[c] = <<>>
      OBVIOUS
    <2>3. IsList(parts)
      BY <1>2, FunctionIsList
    <2> HIDE DEF parts
    <2>4. \A c \in DOMAIN parts : IsList(parts[c])
      BY <1>1, <2>2, ShortLists
    <2>5. IsList(FlattenSeq(parts))
      BY <2>3, <2>4, ListFlatten
    <2> QED BY <2>1, <2>5, SensitiveList
  <1> HIDE DEF found
  <1>6. ASSUME NEW b PROVE IsList(Where(found(b), kept(b)))
    <2>1. kept(b) \in SUBSET DOMAIN found(b)
      OBVIOUS
    <2> HIDE DEF kept
    <2> QED BY <1>5, <2>1, ListWhere
  <1> HIDE DEF kept
  <1>7. ASSUME NEW b PROVE GoodEntries(Each(Where(found(b), kept(b)), rule, sev, how))
    BY <1>4, <1>6, EachGood
  <1>8. DOMAIN seqs = DOMAIN file.bodies /\ \A b \in DOMAIN seqs : seqs[b] = Each(Where(found(b), kept(b)), rule, sev, how)
    OBVIOUS
  <1>9. IsList(seqs)
    BY <1>2, FunctionIsList
  <1> HIDE DEF seqs
  <1>10. \A b \in DOMAIN seqs : GoodEntries(seqs[b])
    BY <1>7, <1>8
  <1>11. \A b \in DOMAIN seqs : IsList(seqs[b])
    BY <1>10 DEF GoodEntries
  <1>12. IsList(t) /\ \A k \in DOMAIN t : \E i \in DOMAIN seqs : \E j \in DOMAIN seqs[i] : t[k] = seqs[i][j]
    BY <1>9, <1>11, ListFlatten
  <1> HIDE DEF t
  <1>13. \A k \in DOMAIN t : GoodFinding(t[k].finding)
    BY <1>10, <1>12 DEF GoodEntries
  <1> QED BY <1>3, <1>12, <1>13 DEF GoodEntries

\* A finding about a card number.
LEMMA CardNumberIs ==
    ASSUME NEW sev, NEW line, NEW how, NEW digits
    PROVE  /\ DOMAIN CardNumber(sev, line, how, digits) = FindingFields
           /\ CardNumber(sev, line, how, digits).how = how
           /\ CardNumber(sev, line, how, digits).digits = digits
  <1> DEFINE f == Finding("PAN-LITERAL", sev, line, how, "")
  <1>1. DOMAIN f = FindingFields /\ f.how = how
    BY DEF Finding, FindingFields
  <1>2. CardNumber(sev, line, how, digits) = [f EXCEPT !.digits = digits]
    BY DEF CardNumber
  <1> HIDE DEF f
  <1>3. "how" \in FindingFields /\ "digits" \in FindingFields
    BY DEF FindingFields
  <1> QED BY <1>1, <1>2, <1>3

\* String literals.
LEMMA LiteralEntries ==
    ASSUME NEW file, WellFormedFile(file)
    PROVE  GoodEntries(scanStringLiteralPANs(file))
  <1> DEFINE S == {i \in DOMAIN file.literals : IsLikelyPAN(file.literals[i].digits)}
             pans == Where(file.literals, S)
             g == [i \in DOMAIN pans |-> Other(CardNumber(classifyLiteralPAN(file, pans[i]), pans[i].line, "literal", pans[i].digits))]
  <1>1. scanStringLiteralPANs(file) = g
    BY DEF scanStringLiteralPANs
  <1>2. IsList(file.literals) /\ \A i \in DOMAIN file.literals : file.literals[i].digits \in Seq(0..9)
    BY DEF WellFormedFile, Range
  <1>3. \A i \in S : LuhnValid(file.literals[i].digits) /\ file.literals[i].digits \in Seq(0..9)
    BY <1>2 DEF IsLikelyPAN
  <1>4. IsList(pans) /\ \A k \in DOMAIN pans : \E i \in S : pans[k] = file.literals[i]
    <2>1. S \in SUBSET DOMAIN file.literals
      OBVIOUS
    <2> HIDE DEF S
    <2> QED BY <1>2, <2>1, ListWhere
  <1>5. \A k \in DOMAIN pans : LuhnValid(pans[k].digits) /\ pans[k].digits \in Seq(0..9)
    BY <1>3, <1>4
  <1>6. Len(pans) \in Nat /\ DOMAIN pans = 1..Len(pans)
    BY <1>4, ListFacts
  <1> HIDE DEF pans
  <1>7. DOMAIN g = DOMAIN pans
        /\ \A i \in DOMAIN g : g[i] = Other(CardNumber(classifyLiteralPAN(file, pans[i]), pans[i].line, "literal", pans[i].digits))
    OBVIOUS
  <1>8. IsList(g)
    BY <1>6, FunctionIsList
  <1> HIDE DEF g
  <1>9. ASSUME NEW i \in DOMAIN g PROVE GoodFinding(g[i].finding)
    <2> DEFINE how == "literal"
               sev == classifyLiteralPAN(file, pans[i])
               line == pans[i].line
               digits == pans[i].digits
               c == CardNumber(sev, line, how, digits)
    <2>1. g[i].finding = c
      BY <1>7 DEF Other, Entry
    <2>2. DOMAIN c = FindingFields /\ c.digits = digits
      <3> HIDE DEF how, sev, line, digits
      <3> QED BY CardNumberIs
    <2>3. LuhnValid(digits) /\ digits \in Seq(0..9)
      BY <1>5, <1>7
    <2> HIDE DEF c, digits
    <2> QED BY <2>1, <2>2, <2>3 DEF GoodFinding, Checked
  <1> QED BY <1>1, <1>8, <1>9 DEF GoodEntries

\* The field of an entry is no parameter.
LEMMA ShownHow ==
    ASSUME NEW e, NEW rule, NEW st, NEW f, NEW n, Shown(e, rule, st, f, n)
    PROVE  e.finding.how = "field"
  <1>1. PICK sev : Reports(e, rule, sev, f.line, "field", n, SourceOf(st, n))
    BY DEF Shown, FieldEntry, Reports
  <1> QED BY <1>1 DEF Reports, Entry, Finding

\* What a Go file gives, if it is not generated code.
Written(file) ==
    groupParameterFindings(deduplicateStructFindings(scanStructFields(file)) \o scanFunctionParams(file))
      \o scanStringLiteralPANs(file) \o scanLoggerCalls(file) \o scanLocalByteZeroing(file)

\* Every sensitive field of a file is among its entries.
AllShown(file, es) ==
    \A st \in Range(file.structs) : \A f \in Range(st.fields) : \A n \in Range(f.names) : \A rule \in FieldRules(f) :
        IsSensitiveKeyword(n) /\ OwnLine(file, st, f) => \E k \in DOMAIN es : Shown(es[k], rule, st, f, n)

\* More entries after them show them still.
LEMMA ShownJoin ==
    ASSUME NEW file, NEW a, NEW b, GoodEntries(a), GoodEntries(b), AllShown(file, a)
    PROVE  GoodEntries(a \o b) /\ AllShown(file, a \o b)
  <1> DEFINE c == a \o b
  <1>1. GoodEntries(c) /\ \A k \in DOMAIN a : k \in DOMAIN c /\ c[k] = a[k]
    BY GoodJoin
  <1> HIDE DEF c
  <1>2. AllShown(file, c)
    <2> SUFFICES ASSUME NEW st \in Range(file.structs), NEW f \in Range(st.fields), NEW n \in Range(f.names),
                        NEW rule \in FieldRules(f), IsSensitiveKeyword(n), OwnLine(file, st, f)
                 PROVE  \E k \in DOMAIN c : Shown(c[k], rule, st, f, n)
      BY DEF AllShown
    <2>1. PICK k \in DOMAIN a : Shown(a[k], rule, st, f, n)
      BY DEF AllShown
    <2> QED BY <1>1, <2>1
  <1> QED BY <1>1, <1>2 DEF c

\* The entries of a Go file that someone wrote.
LEMMA WrittenEntries ==
    ASSUME NEW file, WellFormedFile(file)
    PROVE  GoodEntries(Written(file)) /\ AllShown(file, Written(file))
  <1> DEFINE t == scanStructFields(file)
             d == deduplicateStructFindings(t)
             b == scanFunctionParams(file)
             j == d \o b
             g == groupParameterFindings(j)
             l == scanStringLiteralPANs(file)
             o == scanLoggerCalls(file)
             z == scanLocalByteZeroing(file)
  <1>1. /\ IsList(t) /\ OfStructs(file, t)
        /\ \A st \in Range(file.structs) : \A f \in Range(st.fields) :
              \A n \in Range(f.names) : \A rule \in FieldRules(f) : IsSensitiveKeyword(n) =>
                 \E k \in DOMAIN t : Emitted(t[k], rule, st, f, n)
    BY FileStructs DEF OfStructs
  <1>2. GoodEntries(b) /\ GoodEntries(l) /\ GoodEntries(o) /\ GoodEntries(z)
    BY ParamEntries, LiteralEntries, LoggerEntries, LocalEntries
  <1> HIDE DEF t, b, l, o, z
  <1>3. /\ IsList(d) /\ \A k \in DOMAIN d : Plain(d[k])
        /\ \A st \in Range(file.structs) : \A f \in Range(st.fields) : \A n, rule :
              OwnLine(file, st, f) /\ (\E k \in DOMAIN t : Emitted(t[k], rule, st, f, n))
                 => \E k \in DOMAIN d : Shown(d[k], rule, st, f, n)
    BY <1>1, Deduplicated
  <1> HIDE DEF d
  <1>4. GoodEntries(d) /\ AllShown(file, d)
    <2>1. GoodEntries(d)
      BY <1>3, PlainIsGood DEF GoodEntries
    <2>2. AllShown(file, d)
      BY <1>1, <1>3 DEF AllShown
    <2> QED BY <2>1, <2>2
  <1>5. GoodEntries(j) /\ AllShown(file, j)
    BY <1>2, <1>4, ShownJoin
  <1> HIDE DEF j
  <1>6. /\ IsList(g)
        /\ \A k \in DOMAIN g : \E i \in DOMAIN j : g[k] = j[i]
        /\ \A i \in DOMAIN j : j[i].finding.how # "parameter" => \E k \in DOMAIN g : g[k] = j[i]
    <2>1. IsList(j)
      BY <1>5 DEF GoodEntries
    <2> QED BY <2>1, Grouped
  <1> HIDE DEF g
  <1>7. GoodEntries(g)
    BY <1>5, <1>6 DEF GoodEntries
  <1>8. AllShown(file, g)
    <2> SUFFICES ASSUME NEW st \in Range(file.structs), NEW f \in Range(st.fields), NEW n \in Range(f.names),
                        NEW rule \in FieldRules(f), IsSensitiveKeyword(n), OwnLine(file, st, f)
                 PROVE  \E k \in DOMAIN g : Shown(g[k], rule, st, f, n)
      BY DEF AllShown
    <2>1. PICK i \in DOMAIN j : Shown(j[i], rule, st, f, n)
      BY <1>5 DEF AllShown
    <2>2. j[i].finding.how = "field"
      BY <2>1, ShownHow
    <2>3. PICK k \in DOMAIN g : g[k] = j[i]
      BY <1>6, <2>2
    <2> QED BY <2>1, <2>3
  <1>9. GoodEntries(g \o l) /\ AllShown(file, g \o l)
    BY <1>2, <1>7, <1>8, ShownJoin
  <1>10. GoodEntries((g \o l) \o o) /\ AllShown(file, (g \o l) \o o)
    <2> DEFINE x == g \o l
    <2>1. GoodEntries(x) /\ AllShown(file, x)
      BY <1>9
    <2> HIDE DEF x
    <2>2. GoodEntries(x \o o) /\ AllShown(file, x \o o)
      BY <1>2, <2>1, ShownJoin
    <2> QED BY <2>2 DEF x
  <1>11. GoodEntries(((g \o l) \o o) \o z) /\ AllShown(file, ((g \o l) \o o) \o z)
    <2> DEFINE x == (g \o l) \o o
    <2>1. GoodEntries(x) /\ AllShown(file, x)
      BY <1>10
    <2> HIDE DEF x
    <2>2. GoodEntries(x \o z) /\ AllShown(file, x \o z)
      BY <1>2, <2>1, ShownJoin
    <2> QED BY <2>2 DEF x
  <1>12. Written(file) = ((g \o l) \o o) \o z
    BY DEF Written, g, j, d, t, b, l, o, z
  <1> QED BY <1>11, <1>12

\* The entries of any Go file.
LEMMA GoFileEntries ==
    ASSUME NEW file, WellFormedFile(file)
    PROVE  GoodEntries(scanGoFile(file)) /\ (~file.generated => AllShown(file, scanGoFile(file)))
  <1>1. CASE file.generated
    <2>1. scanGoFile(file) = <<>>
      BY <1>1 DEF scanGoFile
    <2>2. IsList(<<>>) /\ DOMAIN <<>> = {}
      BY ShortLists
    <2> QED BY <1>1, <2>1, <2>2 DEF GoodEntries
  <1>2. CASE ~file.generated
    <2>1. scanGoFile(file) = Written(file)
      BY <1>2 DEF scanGoFile, Written
    <2> QED BY <2>1, WrittenEntries
  <1> QED BY <1>1, <1>2

\* Findings one after the other.
LEMMA FindingsJoin ==
    ASSUME NEW a, NEW b, GoodFindings(a), GoodFindings(b)
    PROVE  GoodFindings(a \o b) /\ Len(a \o b) = Len(a) + Len(b)
           /\ (\A k \in DOMAIN a : k \in DOMAIN (a \o b) /\ (a \o b)[k] = a[k])
           /\ (\A k \in DOMAIN b : Len(a) + k \in DOMAIN (a \o b) /\ (a \o b)[Len(a) + k] = b[k])
  <1>1. IsList(a) /\ IsList(b)
    BY DEF GoodFindings
  <1>2. /\ IsList(a \o b) /\ Len(a \o b) = Len(a) + Len(b)
        /\ \A k \in DOMAIN a : k \in DOMAIN (a \o b) /\ (a \o b)[k] = a[k]
        /\ \A k \in DOMAIN b : Len(a) + k \in DOMAIN (a \o b) /\ (a \o b)[Len(a) + k] = b[k]
        /\ \A k \in DOMAIN (a \o b) :
              \/ k \in DOMAIN a /\ (a \o b)[k] = a[k]
              \/ k - Len(a) \in DOMAIN b /\ (a \o b)[k] = b[k - Len(a)]
    BY ONLY <1>1, ListJoin
  <1>3. \A k \in DOMAIN (a \o b) : GoodFinding((a \o b)[k])
    BY <1>2 DEF GoodFindings
  <1> QED BY <1>2, <1>3 DEF GoodFindings

\* One finding, or none.
LEMMA ShortFindings ==
    ASSUME NEW f, GoodFinding(f)
    PROVE  GoodFindings(<<f>>)
  <1>1. IsList(<<f>>) /\ DOMAIN <<f>> = {1} /\ <<f>>[1] = f
    BY ShortLists
  <1> QED BY <1>1 DEF GoodFindings

\* No findings at all.
LEMMA NoFindings == GoodFindings(<<>>)
  BY ShortLists DEF GoodFindings

\* The findings of an .env file.
LEMMA EnvFileFindings ==
    ASSUME NEW file, WellFormedFile(file)
    PROVE  GoodFindings(scanEnvFile(file))
  <1> DEFINE number(i) == IF IsLikelyPAN(file.entries[i].digits)
                          THEN <<CardNumber("CRITICAL", i, "env", file.entries[i].digits)>> ELSE <<>>
             key(i) == IF IsSensitiveKeyword(file.entries[i].key) /\ ~file.entries[i].empty
                       THEN <<Finding("PAN-KEYWORD", "HIGH", i, "env", file.entries[i].key)>> ELSE <<>>
             seqs == [i \in DOMAIN file.entries |-> number(i) \o key(i)]
             t == FlattenSeq(seqs)
  <1>1. scanEnvFile(file) = t
    BY DEF scanEnvFile
  <1>2. Len(file.entries) \in Nat /\ DOMAIN file.entries = 1..Len(file.entries)
    BY ListFacts DEF WellFormedFile
  <1>3. "env" # "literal"
    OBVIOUS
  <1>4. ASSUME NEW i PROVE GoodFindings(number(i))
    <2> DEFINE how == "env"
               sev == "CRITICAL"
               digits == file.entries[i].digits
               c == CardNumber(sev, i, how, digits)
    <2>1. how # "literal"
      BY <1>3
    <2>2. number(i) = <<c>> \/ number(i) = <<>>
      OBVIOUS
    <2> HIDE DEF how, sev, digits
    <2>3. DOMAIN c = FindingFields /\ c.how = how
      BY CardNumberIs
    <2> HIDE DEF c
    <2>4. GoodFinding(c)
      BY <2>1, <2>3 DEF GoodFinding, Checked
    <2>5. GoodFindings(<<c>>)
      BY <2>4, ShortFindings
    <2> HIDE DEF number
    <2> QED BY <2>2, <2>5, NoFindings
  <1>5. ASSUME NEW i PROVE GoodFindings(key(i))
    <2> DEFINE c == Finding("PAN-KEYWORD", "HIGH", i, "env", file.entries[i].key)
    <2>1. key(i) = <<c>> \/ key(i) = <<>>
      OBVIOUS
    <2>2. DOMAIN c = FindingFields /\ c.how = "env"
      BY DEF Finding, FindingFields
    <2> HIDE DEF c
    <2>3. GoodFinding(c)
      BY <1>3, <2>2 DEF GoodFinding, Checked
    <2>4. GoodFindings(<<c>>)
      BY <2>3, ShortFindings
    <2> HIDE DEF key
    <2> QED BY <2>1, <2>4, NoFindings
  <1> HIDE DEF number, key
  <1>6. DOMAIN seqs = DOMAIN file.entries /\ \A i \in DOMAIN seqs : seqs[i] = number(i) \o key(i)
    OBVIOUS
  <1>7. IsList(seqs)
    BY <1>2, FunctionIsList
  <1> HIDE DEF seqs
  <1>8. \A i \in DOMAIN seqs : GoodFindings(seqs[i])
    <2> SUFFICES ASSUME NEW i \in DOMAIN seqs PROVE GoodFindings(seqs[i])
      OBVIOUS
    <2> DEFINE a == number(i)
               b == key(i)
    <2>1. GoodFindings(a) /\ GoodFindings(b)
      BY <1>4, <1>5
    <2>2. seqs[i] = a \o b
      BY <1>6
    <2> HIDE DEF a, b
    <2>3. GoodFindings(a \o b)
      BY <2>1, FindingsJoin
    <2> QED BY <2>2, <2>3
  <1>9. \A i \in DOMAIN seqs : IsList(seqs[i])
    BY <1>8 DEF GoodFindings
  <1>10. IsList(t) /\ \A k \in DOMAIN t : \E i \in DOMAIN seqs : \E m \in DOMAIN seqs[i] : t[k] = seqs[i][m]
    BY <1>7, <1>9, ListFlatten
  <1> HIDE DEF t
  <1>11. \A k \in DOMAIN t : GoodFinding(t[k])
    BY <1>8, <1>10 DEF GoodFindings
  <1> QED BY <1>1, <1>10, <1>11 DEF GoodFindings

------------------------------------------------------------------------------
(* Findings and the sources that are keyed by where they stand.            *)

\* Findings with the number of their file.
LEMMA InFileGood ==
    ASSUME NEW fs, GoodFindings(fs), NEW n
    PROVE  GoodFindings(InFile(fs, n)) /\ DOMAIN InFile(fs, n) = DOMAIN fs
           /\ \A k \in DOMAIN fs : InFile(fs, n)[k] = [fs[k] EXCEPT !.file = n]
  <1> DEFINE g == InFile(fs, n)
  <1>1. IsList(fs) /\ \A k \in DOMAIN fs : GoodFinding(fs[k])
    BY DEF GoodFindings
  <1>2. Len(fs) \in Nat /\ DOMAIN fs = 1..Len(fs)
    BY <1>1, ListFacts
  <1>3. DOMAIN g = DOMAIN fs /\ g = [i \in DOMAIN g |-> g[i]] /\ \A k \in DOMAIN fs : g[k] = [fs[k] EXCEPT !.file = n]
    BY DEF InFile
  <1> HIDE DEF g
  <1>4. IsList(g)
    BY <1>2, <1>3, FunctionIsList
  <1>5. ASSUME NEW k \in DOMAIN g PROVE GoodFinding(g[k])
    <2> DEFINE f == fs[k]
    <2>1. g[k] = [f EXCEPT !.file = n] /\ DOMAIN f = FindingFields /\ Checked(f)
      BY <1>1, <1>3 DEF GoodFinding
    <2> HIDE DEF f
    <2>2. "how" \in FindingFields /\ "digits" \in FindingFields
      BY DEF FindingFields
    <2>3. DOMAIN g[k] = FindingFields /\ g[k].how = f.how /\ g[k].digits = f.digits
      BY <2>1, <2>2
    <2> QED BY <2>1, <2>3 DEF GoodFinding, Checked
  <1> QED BY <1>3, <1>4, <1>5 DEF GoodFindings, g

\* The findings of a list of entries.
FindingsOf(es) == [i \in DOMAIN es |-> es[i].finding]

\* They are as good as the entries, and in step with them.
LEMMA FindingsOfGood ==
    ASSUME NEW es, GoodEntries(es)
    PROVE  GoodFindings(FindingsOf(es)) /\ DOMAIN FindingsOf(es) = DOMAIN es
           /\ \A k \in DOMAIN es : FindingsOf(es)[k] = es[k].finding
  <1> DEFINE g == FindingsOf(es)
  <1>1. IsList(es) /\ \A k \in DOMAIN es : GoodFinding(es[k].finding)
    BY DEF GoodEntries
  <1>2. Len(es) \in Nat /\ DOMAIN es = 1..Len(es)
    BY <1>1, ListFacts
  <1>3. DOMAIN g = DOMAIN es /\ g = [i \in DOMAIN g |-> g[i]] /\ \A k \in DOMAIN es : g[k] = es[k].finding
    BY DEF FindingsOf
  <1> HIDE DEF g
  <1>4. IsList(g)
    BY <1>2, <1>3, FunctionIsList
  <1> QED BY <1>1, <1>3, <1>4 DEF GoodFindings, g

\* The findings so far and the sources they are keyed with.
Keyed(w) == GoodFindings(w.findings) /\ DOMAIN w.sources \subseteq DOMAIN w.findings

\* w goes on to v: it keeps its findings and sources where they are.
Extends(w, v) ==
    \A k \in DOMAIN w.findings :
        /\ k \in DOMAIN v.findings /\ v.findings[k] = w.findings[k]
        /\ k \in DOMAIN v.sources => k \in DOMAIN w.sources /\ v.sources[k] = w.sources[k]

\* Entry e of file i stands in w at k.
Stands(w, k, i, e) ==
    /\ k \in DOMAIN w.findings /\ w.findings[k] = [e.finding EXCEPT !.file = i]
    /\ k \in DOMAIN w.sources => w.sources[k] = e.source

\* The sources of a file do not move those of the files before it.
LEMMA KeyedSourcesAre ==
    ASSUME NEW sources, NEW es, NEW base \in Nat, DOMAIN sources \subseteq 1..base, DOMAIN es \subseteq Nat \ {0}
    PROVE  LET s == KeyedSources(sources, es, base)
           IN  /\ DOMAIN s \subseteq DOMAIN sources \cup {base + j : j \in DOMAIN es}
               /\ \A k \in 1..base : k \in DOMAIN s => k \in DOMAIN sources /\ s[k] = sources[k]
               /\ \A j \in DOMAIN es : base + j \in DOMAIN s => s[base + j] = es[j].source
  <1> DEFINE named == {j \in DOMAIN es : es[j].source.type # "" /\ es[j].source.field # ""}
             D == DOMAIN sources \cup {base + j : j \in named}
             s == [k \in D |-> IF k \in DOMAIN sources THEN sources[k] ELSE es[k - base].source]
  <1>1. KeyedSources(sources, es, base) = s
    BY DEF KeyedSources
  <1>2. named \subseteq DOMAIN es
    OBVIOUS
  <1> HIDE DEF named
  <1>3. D \subseteq DOMAIN sources \cup {base + j : j \in DOMAIN es}
    BY <1>2
  <1>4. \A k \in 1..base : k \in D => k \in DOMAIN sources
    <2> SUFFICES ASSUME NEW k \in 1..base, NEW j \in named, k = base + j PROVE FALSE
      OBVIOUS
    <2>1. j \in Nat \ {0}
      BY <1>2
    <2> QED BY <2>1
  <1>5. \A j \in DOMAIN es : base + j \notin DOMAIN sources /\ (base + j) - base = j
    <2> SUFFICES ASSUME NEW j \in DOMAIN es PROVE base + j \notin DOMAIN sources /\ (base + j) - base = j
      OBVIOUS
    <2>1. j \in Nat \ {0}
      OBVIOUS
    <2>2. base + j \notin 1..base /\ (base + j) - base = j
      BY <2>1
    <2> QED BY <2>2
  <1> HIDE DEF D
  <1>6. DOMAIN s = D /\ \A k \in D : s[k] = IF k \in DOMAIN sources THEN sources[k] ELSE es[k - base].source
    OBVIOUS
  <1> HIDE DEF s
  <1> QED BY <1>1, <1>3, <1>4, <1>5, <1>6

\* Scanning a Go file.
LEMMA ScannedGoIs ==
    ASSUME NEW w, DOMAIN w = PanFields, Keyed(w), NEW file, WellFormedFile(file)
    PROVE  LET v == ScannedGo(w, file)
           IN  /\ v.file = w.file + 1 /\ v.at = w.at /\ Keyed(v) /\ Extends(w, v)
               /\ \A j \in DOMAIN scanGoFile(file) : \E k \in DOMAIN v.findings : Stands(v, k, w.file, scanGoFile(file)[j])
  <1> DEFINE es == scanGoFile(file)
             a == w.findings
             b == InFile(FindingsOf(es), w.file)
             base == Len(a)
             src == IF project.taint THEN KeyedSources(w.sources, es, base) ELSE w.sources
             v == ScannedGo(w, file)
  <1>1. GoodEntries(es)
    BY GoFileEntries
  <1>2. /\ v = [w EXCEPT !.file = @ + 1, !.findings = @ \o b, !.sources = src]
    BY DEF ScannedGo, FindingsOf
  <1> HIDE DEF es
  <1>3. GoodFindings(FindingsOf(es)) /\ DOMAIN FindingsOf(es) = DOMAIN es
        /\ \A k \in DOMAIN es : FindingsOf(es)[k] = es[k].finding
    BY <1>1, FindingsOfGood
  <1>4. GoodFindings(b) /\ DOMAIN b = DOMAIN es /\ \A k \in DOMAIN es : b[k] = [es[k].finding EXCEPT !.file = w.file]
    BY <1>3, InFileGood
  <1> HIDE DEF b
  <1>5. GoodFindings(a) /\ DOMAIN w.sources \subseteq DOMAIN a
    BY DEF Keyed
  <1>6. /\ v.file = w.file + 1 /\ v.at = w.at /\ v.findings = a \o b /\ v.sources = src
    <2> HIDE DEF src, v
    <2> QED BY <1>2 DEF PanFields
  <1>7. base \in Nat /\ DOMAIN a = 1..base
    BY <1>5, ListFacts DEF GoodFindings
  <1>8. DOMAIN es \subseteq Nat \ {0}
    <2>1. Len(es) \in Nat /\ DOMAIN es = 1..Len(es)
      BY <1>1, ListFacts DEF GoodEntries
    <2> QED BY <2>1
  <1> HIDE DEF a, v
  <1>9. GoodFindings(a \o b)
        /\ (\A k \in DOMAIN a : k \in DOMAIN (a \o b) /\ (a \o b)[k] = a[k])
        /\ (\A k \in DOMAIN b : base + k \in DOMAIN (a \o b) /\ (a \o b)[base + k] = b[k])
    BY <1>4, <1>5, FindingsJoin
  <1> HIDE DEF base
  <1>10. /\ DOMAIN src \subseteq DOMAIN w.sources \cup {base + j : j \in DOMAIN es}
         /\ \A k \in 1..base : k \in DOMAIN src => k \in DOMAIN w.sources /\ src[k] = w.sources[k]
         /\ \A j \in DOMAIN es : base + j \in DOMAIN src => src[base + j] = es[j].source
    <2>1. CASE project.taint
      <3> DEFINE s == KeyedSources(w.sources, es, base)
                 old == w.sources
      <3>1. src = s
        BY <2>1
      <3>2. DOMAIN old \subseteq 1..base
        BY <1>5, <1>7
      <3> HIDE DEF old
      <3>3. LET t == KeyedSources(old, es, base)
            IN  /\ DOMAIN t \subseteq DOMAIN old \cup {base + j : j \in DOMAIN es}
                /\ \A k \in 1..base : k \in DOMAIN t => k \in DOMAIN old /\ t[k] = old[k]
                /\ \A j \in DOMAIN es : base + j \in DOMAIN t => t[base + j] = es[j].source
        BY <1>7, <1>8, <3>2, KeyedSourcesAre
      <3> HIDE DEF src
      <3> QED BY <3>1, <3>3 DEF old
    <2>2. CASE ~project.taint
      <3>1. src = w.sources
        BY <2>2
      <3> HIDE DEF src
      <3>2. \A j \in DOMAIN es : base + j \notin 1..base
        BY <1>7, <1>8
      <3> QED BY <1>5, <1>7, <3>1, <3>2
    <2> QED BY <2>1, <2>2
  <1> HIDE DEF src
  <1>11. Keyed(v)
    <2>1. DOMAIN src \subseteq DOMAIN (a \o b)
      BY <1>4, <1>5, <1>9, <1>10
    <2> QED BY <1>6, <1>9, <2>1 DEF Keyed
  <1>12. Extends(w, v)
    BY <1>6, <1>7, <1>9, <1>10 DEF Extends, a
  <1>13. ASSUME NEW j \in DOMAIN es PROVE \E k \in DOMAIN v.findings : Stands(v, k, w.file, es[j])
    <2>1. base + j \in DOMAIN v.findings /\ v.findings[base + j] = [es[j].finding EXCEPT !.file = w.file]
      BY <1>4, <1>6, <1>9
    <2>2. Stands(v, base + j, w.file, es[j])
      BY <1>6, <1>10, <2>1 DEF Stands
    <2> QED BY <2>1, <2>2
  <1> QED BY <1>6, <1>11, <1>12, <1>13 DEF es, v

\* Scanning an .env file.
LEMMA ScannedEnvIs ==
    ASSUME NEW w, DOMAIN w = PanFields, Keyed(w), NEW file, WellFormedFile(file)
    PROVE  LET v == ScannedEnv(w, file)
           IN  v.file = w.file + 1 /\ v.at = w.at /\ Keyed(v) /\ Extends(w, v)
  <1> DEFINE a == w.findings
             b == InFile(scanEnvFile(file), w.file)
             v == ScannedEnv(w, file)
  <1>1. GoodFindings(scanEnvFile(file))
    BY EnvFileFindings
  <1>2. GoodFindings(b)
    BY <1>1, InFileGood
  <1>3. v = [w EXCEPT !.file = @ + 1, !.findings = @ \o b]
    BY DEF ScannedEnv
  <1>4. GoodFindings(a) /\ DOMAIN w.sources \subseteq DOMAIN a
    BY DEF Keyed
  <1> HIDE DEF b, v
  <1>5. v.file = w.file + 1 /\ v.at = w.at /\ v.findings = a \o b /\ v.sources = w.sources
    BY <1>3 DEF PanFields
  <1> HIDE DEF a
  <1>6. GoodFindings(a \o b) /\ (\A k \in DOMAIN a : k \in DOMAIN (a \o b) /\ (a \o b)[k] = a[k])
    BY <1>2, <1>4, FindingsJoin
  <1>7. Keyed(v)
    BY <1>4, <1>5, <1>6 DEF Keyed
  <1>8. Extends(w, v)
    BY <1>5, <1>6 DEF Extends, a
  <1> QED BY <1>5, <1>7, <1>8 DEF v

------------------------------------------------------------------------------
(* What the scan keeps, from its first file to its last verdict.           *)

\* Finding g of file i shows name n of field f of struct st, and no verdict of
\* the bridge has taken it for data in transit.
Kept(g, i, rule, st, f, n) ==
    /\ g.rule = rule /\ g.file = i /\ g.line = f.line /\ g.how = "field" /\ g.name = n
    /\ g.note # "transit" /\ (g.sev # "INFO" \/ IsBankingContext(st))

\* It is at k of w, and the bridge will ask for that field if for any.
KeptAt(w, keyed, k, i, rule, st, f, n) ==
    /\ k \in DOMAIN w.findings /\ Kept(w.findings[k], i, rule, st, f, n)
    /\ keyed /\ k \in DOMAIN w.sources => w.sources[k] = SourceOf(st, n)

\* Name n of field f is due: it is sensitive, and stored.
Due(p, file, st, f, n) ==
    /\ IsSensitiveKeyword(n) /\ OwnLine(file, st, f)
    /\ StoredDirectly(p, <<st.name, n>>) \/ classifyStructTags(st).db

\* All that is due of file i is kept.
FileKept(p, file, i, w, keyed) ==
    \A st \in Range(file.structs) : \A f \in Range(st.fields) : \A n \in Range(f.names) : \A rule \in FieldRules(f) :
        Due(p, file, st, f, n) => \E k \in DOMAIN w.findings : KeptAt(w, keyed, k, i, rule, st, f, n)

\* So it is for every file scanned so far.
AllKept(q, w, keyed) ==
    \A i \in DOMAIN q.files :
        i < w.file /\ q.files[i].kind = "go" /\ ~q.files[i].generated => FileKept(q.program, q.files[i], i, w, keyed)

\* Keeping what is there keeps what is due.
LEMMA KeptIfExtended ==
    ASSUME NEW p, NEW file, NEW i, NEW w, NEW v, Extends(w, v), FileKept(p, file, i, w, TRUE)
    PROVE  FileKept(p, file, i, v, TRUE)
  <1> SUFFICES ASSUME NEW st \in Range(file.structs), NEW f \in Range(st.fields), NEW n \in Range(f.names),
                      NEW rule \in FieldRules(f), Due(p, file, st, f, n)
               PROVE  \E k \in DOMAIN v.findings : KeptAt(v, TRUE, k, i, rule, st, f, n)
    BY DEF FileKept
  <1>1. PICK k \in DOMAIN w.findings : KeptAt(w, TRUE, k, i, rule, st, f, n)
    BY DEF FileKept
  <1>2. /\ k \in DOMAIN v.findings /\ v.findings[k] = w.findings[k]
        /\ k \in DOMAIN v.sources => k \in DOMAIN w.sources /\ v.sources[k] = w.sources[k]
    BY <1>1 DEF Extends
  <1>3. KeptAt(v, TRUE, k, i, rule, st, f, n)
    BY <1>1, <1>2 DEF KeptAt
  <1> QED BY <1>2, <1>3

\* An entry that shows a field is a finding that keeps it.
LEMMA ShownIsKept ==
    ASSUME NEW e, NEW rule, NEW st, NEW f, NEW n, Shown(e, rule, st, f, n), NEW i
    PROVE  Kept([e.finding EXCEPT !.file = i], i, rule, st, f, n) /\ e.source = SourceOf(st, n)
  <1>1. PICK sev : Reports(e, rule, sev, f.line, "field", n, SourceOf(st, n)) /\ (sev # "INFO" \/ IsBankingContext(st))
    BY DEF Shown, FieldEntry, Reports
  <1> DEFINE g == e.finding
  <1>2. /\ DOMAIN g = FindingFields /\ g.rule = rule /\ g.sev = sev /\ g.line = f.line /\ g.how = "field"
        /\ g.name = n /\ g.note = "" /\ e.source = SourceOf(st, n)
    BY <1>1 DEF Reports, Entry, Finding, FindingFields
  <1> HIDE DEF g
  <1> DEFINE h == [g EXCEPT !.file = i]
  <1>3. /\ h.rule = g.rule /\ h.sev = g.sev /\ h.line = g.line /\ h.how = g.how /\ h.name = g.name /\ h.note = g.note
        /\ h.file = i
    BY <1>2 DEF FindingFields
  <1> HIDE DEF h
  <1>4. Kept(h, i, rule, st, f, n)
    BY <1>1, <1>2, <1>3 DEF Kept
  <1> QED BY <1>2, <1>4 DEF g, h

\* A Go file that has just been scanned.
LEMMA KeptWhenScanned ==
    ASSUME NEW p, NEW file, WellFormedFile(file), ~file.generated, NEW i, NEW w,
           \A j \in DOMAIN scanGoFile(file) : \E k \in DOMAIN w.findings : Stands(w, k, i, scanGoFile(file)[j])
    PROVE  FileKept(p, file, i, w, TRUE)
  <1> SUFFICES ASSUME NEW st \in Range(file.structs), NEW f \in Range(st.fields), NEW n \in Range(f.names),
                      NEW rule \in FieldRules(f), Due(p, file, st, f, n)
               PROVE  \E k \in DOMAIN w.findings : KeptAt(w, TRUE, k, i, rule, st, f, n)
    BY DEF FileKept
  <1>1. AllShown(file, scanGoFile(file))
    BY GoFileEntries
  <1>2. PICK j \in DOMAIN scanGoFile(file) : Shown(scanGoFile(file)[j], rule, st, f, n)
    BY <1>1 DEF AllShown, Due
  <1>3. PICK k \in DOMAIN w.findings : Stands(w, k, i, scanGoFile(file)[j])
    BY <1>2
  <1> DEFINE e == scanGoFile(file)[j]
  <1>4. Kept([e.finding EXCEPT !.file = i], i, rule, st, f, n) /\ e.source = SourceOf(st, n)
    BY <1>2, ShownIsKept
  <1>5. /\ w.findings[k] = [e.finding EXCEPT !.file = i]
        /\ k \in DOMAIN w.sources => w.sources[k] = e.source
    BY <1>3 DEF Stands
  <1> HIDE DEF e
  <1>6. KeptAt(w, TRUE, k, i, rule, st, f, n)
    BY <1>4, <1>5 DEF KeptAt
  <1> QED BY <1>6

\* The inductive invariant of the scan and its bridge.
PanScanInv ==
    scanner = "pan" =>
        /\ GoodFindings(work.findings)
        /\ work.file \in Nat \ {0} /\ work.at \in Nat \ {0}
        /\ pc # "done" => DOMAIN work.sources \subseteq DOMAIN work.findings
        /\ pc \notin {"start", "failed"} => work.file > Len(project.files)
        /\ pc \in {"query", "sweep", "answer"} =>
              work.at \in DOMAIN work.findings /\ Asked(work.at) /\ work.flow.src = AskedOf(work.at)
        /\ AllKept(project, work, pc # "done")

\* It holds before the first file.
LEMMA PanScanInitially ==
    ASSUME Init PROVE PanScanInv
  <1> SUFFICES ASSUME scanner = "pan" PROVE PanScanInv
    BY DEF PanScanInv
  <1>1. project \in PanSources /\ work = PanIdle /\ pc = "start"
    BY DEF Init, SqlInit, AuditInit, AuthInit, PanInit, Called
  <1>2. work.findings = <<>> /\ work.sources = <<>> /\ work.file = 1 /\ work.at = 1
    BY <1>1 DEF PanIdle
  <1>3. GoodFindings(<<>>) /\ DOMAIN <<>> = {}
    BY NoFindings, ShortLists
  <1>4. IsList(project.files)
    BY <1>1, PanSourcesAssumption
  <1>5. Len(project.files) \in Nat /\ DOMAIN project.files = 1..Len(project.files)
    BY <1>4, ListFacts
  <1>6. \A i \in DOMAIN project.files : ~(i < work.file)
    BY <1>2, <1>5
  <1>7. AllKept(project, work, TRUE)
    BY <1>6 DEF AllKept
  <1>8. AllKept(project, work, pc # "done")
    <2>1. (pc # "done") = TRUE
      BY <1>1
    <2> QED BY <1>7, <2>1
  <1>9. DOMAIN work.sources \subseteq DOMAIN work.findings /\ GoodFindings(work.findings)
    BY <1>2, <1>3
  <1>10. work.file \in Nat \ {0} /\ work.at \in Nat \ {0}
    BY <1>2
  <1>11. pc \in {"start", "failed"} /\ pc \notin {"query", "sweep", "answer"}
    BY <1>1
  <1> QED BY <1>8, <1>9, <1>10, <1>11 DEF PanScanInv

\* A step that leaves the findings, their sources and the place alone.
LEMMA PanLeftAlone ==
    ASSUME PanScanInv, scanner = "pan", pc # "done", project' = project, work'.findings = work.findings,
           work'.sources = work.sources, work'.file = work.file, work'.at \in Nat \ {0},
           pc' \notin {"start", "failed"} => work.file > Len(project.files),
           pc' \in {"query", "sweep", "answer"} =>
              work'.at \in DOMAIN work.findings /\ Asked(work.at)' /\ work'.flow.src = AskedOf(work.at)'
    PROVE  PanScanInv'
  <1>1. \A keyed \in BOOLEAN : AllKept(project, work, TRUE) => AllKept(project', work', keyed)
    <2> SUFFICES ASSUME NEW keyed \in BOOLEAN, AllKept(project, work, TRUE), NEW i \in DOMAIN project.files, i < work.file,
                        project.files[i].kind = "go", ~project.files[i].generated
                 PROVE  FileKept(project.program, project.files[i], i, work', keyed)
      BY DEF AllKept
    <2>1. FileKept(project.program, project.files[i], i, work, TRUE)
      BY DEF AllKept
    <2>2. \A k, rule, st, f, n : KeptAt(work, TRUE, k, i, rule, st, f, n) => KeptAt(work', keyed, k, i, rule, st, f, n)
      BY DEF KeptAt
    <2>3. DOMAIN work'.findings = DOMAIN work.findings
      OBVIOUS
    <2> QED BY <2>1, <2>2, <2>3 DEF FileKept
  <1>2. /\ GoodFindings(work.findings) /\ work.file \in Nat \ {0} /\ DOMAIN work.sources \subseteq DOMAIN work.findings
        /\ AllKept(project, work, TRUE)
    BY DEF PanScanInv
  <1>3. AllKept(project', work', pc' # "done")
    BY <1>1, <1>2
  <1> QED BY <1>2, <1>3 DEF PanScanInv

\* A step of the engine changes its query only, and not what it is about.
LEMMA FlowStepIs ==
    ASSUME PanFlowInv, scanner = "pan", FlowSteps("pan")
    PROVE  /\ project' = project /\ pc \in {"query", "sweep"} /\ pc' \in {"query", "sweep", "answer"}
           /\ work'.findings = work.findings /\ work'.sources = work.sources
           /\ work'.file = work.file /\ work'.at = work.at /\ work'.flow.src = work.flow.src
  <1> DEFINE p == project.program
             s == work.flow
             R == Reachable(p, s.src)
  <1>1. /\ project \in PanSources /\ DOMAIN work = PanFields
        /\ s.file \in Nat \ {0} /\ Justified(p, s, R)
    BY DEF PanFlowInv, FlowJustified
  <1>2. WellFormed(p)
    BY <1>1, PanSourcesAssumption
  <1>3. Covers(p, R) /\ IsFiniteSet(R)
    BY <1>2, ReachableCovers, ReachableFinite
  <1>4. DOMAIN p.files = 1..Len(p.files) /\ Len(p.files) \in Nat
    <2>1. p.files \in Seq(Seq(Nodes(p)))
      BY <1>2 DEF WellFormed
    <2> HIDE DEF p
    <2> QED BY <2>1, Indexed
  <1>5. ASSUME NEW t, work' = [work EXCEPT !.flow = t], t.src = s.src
        PROVE  /\ work'.findings = work.findings /\ work'.sources = work.sources
               /\ work'.file = work.file /\ work'.at = work.at /\ work'.flow.src = work.flow.src
    BY <1>1, <1>5 DEF PanFields
  <1>6. CASE /\ pc = "query"
             /\ \E obj \in work.flow.worklist :
                    Pass("pan", "query", "sweep", [work EXCEPT !.flow = TakeObject(@, obj)])
    <2>1. PICK obj : Pass("pan", "query", "sweep", [work EXCEPT !.flow = TakeObject(@, obj)])
      BY <1>6
    <2> DEFINE t == TakeObject(s, obj)
    <2>2. work' = [work EXCEPT !.flow = t] /\ project' = project /\ pc' = "sweep"
      BY <2>1 DEF Pass
    <2> HIDE DEF s, R, p
    <2>3. t.src = s.src
      BY <1>1, TakeJustified
    <2> HIDE DEF t
    <2> QED BY <1>5, <1>6, <2>2, <2>3
  <1>7. CASE \/ pc = "query" /\ Pass("pan", "query", "answer", work)
             \/ pc = "sweep" /\ Pass("pan", "sweep", "query", work)
    BY <1>7 DEF Pass
  <1>8. CASE /\ pc = "sweep" /\ s.file <= Len(p.files)
             /\ Pass("pan", "sweep", IF SweepFile(p, s).hit THEN "answer" ELSE "sweep",
                     [work EXCEPT !.flow = SweepFile(p, s)])
    <2> DEFINE t == SweepFile(p, s)
    <2>1. /\ work' = [work EXCEPT !.flow = t] /\ project' = project /\ s.file <= Len(p.files)
          /\ pc' \in {"answer", "sweep"}
      BY <1>8 DEF Pass
    <2> HIDE DEF s, R, p
    <2>2. s.file \in DOMAIN p.files
      BY <1>1, <1>4, <2>1
    <2>3. t.src = s.src
      BY <1>1, <1>2, <1>3, <2>2, SweepJustified
    <2> HIDE DEF t
    <2> QED BY <1>5, <1>8, <2>1, <2>3
  <1> QED BY <1>6, <1>7, <1>8 DEF FlowSteps

\* The next file.
LEMMA PanFileKept ==
    ASSUME PanFlowInv, PanScanInv, scanner = "pan", PanScanFile
    PROVE  PanScanInv'
  <1> DEFINE m == work.file
             file == project.files[m]
             v == IF file.kind = "go" THEN ScannedGo(work, file) ELSE ScannedEnv(work, file)
  <1>1. /\ GoodFindings(work.findings) /\ m \in Nat \ {0} /\ work.at \in Nat \ {0}
        /\ pc = "start" /\ m <= Len(project.files) /\ project' = project
        /\ DOMAIN work.sources \subseteq DOMAIN work.findings
        /\ project \in PanSources /\ DOMAIN work = PanFields
    BY DEF PanScanInv, PanFlowInv, PanScanFile, Pass
  <1>2. IsList(project.files) /\ \A x \in Range(project.files) : WellFormedFile(x)
    BY <1>1, PanSourcesAssumption
  <1>3. Len(project.files) \in Nat /\ DOMAIN project.files = 1..Len(project.files)
    BY <1>2, ListFacts
  <1>4. m \in DOMAIN project.files
    BY <1>1, <1>3
  <1>5. WellFormedFile(file)
    BY <1>2, <1>4 DEF Range
  <1>6. CASE work' = work /\ pc' = "failed"
    BY <1>1, <1>6, PanLeftAlone
  <1>7. CASE work' = v /\ pc' = "start"
    <2>1. Keyed(work)
      BY <1>1 DEF Keyed
    <2>2. v.file = m + 1 /\ v.at = work.at /\ Keyed(v) /\ Extends(work, v)
      <3>1. CASE file.kind = "go"
        <4>1. v = ScannedGo(work, file)
          BY <3>1
        <4> HIDE DEF v, file
        <4> QED BY <1>1, <1>5, <2>1, <4>1, ScannedGoIs
      <3>2. CASE file.kind # "go"
        <4>1. v = ScannedEnv(work, file)
          BY <3>2
        <4> HIDE DEF v, file
        <4> QED BY <1>1, <1>5, <2>1, <4>1, ScannedEnvIs
      <3> QED BY <3>1, <3>2
    <2>3. ASSUME file.kind = "go", ~file.generated PROVE FileKept(project.program, file, m, v, TRUE)
      <3>1. v = ScannedGo(work, file)
        BY <2>3
      <3> HIDE DEF v, file
      <3>2. \A j \in DOMAIN scanGoFile(file) : \E k \in DOMAIN v.findings : Stands(v, k, m, scanGoFile(file)[j])
        BY <1>1, <1>5, <2>1, <3>1, ScannedGoIs
      <3> HIDE DEF m
      <3> QED BY <1>5, <2>3, <3>2, KeptWhenScanned
    <2>4. AllKept(project, v, TRUE)
      <3> SUFFICES ASSUME NEW i \in DOMAIN project.files, i < v.file,
                          project.files[i].kind = "go", ~project.files[i].generated
                   PROVE  FileKept(project.program, project.files[i], i, v, TRUE)
        BY DEF AllKept
      <3>1. CASE i = m
        BY <2>3, <3>1
      <3>2. CASE i # m
        <4>1. i < m
          BY <1>1, <1>3, <2>2, <3>2
        <4>2. AllKept(project, work, TRUE)
          BY <1>1 DEF PanScanInv
        <4>3. FileKept(project.program, project.files[i], i, work, TRUE)
          BY <4>1, <4>2 DEF AllKept
        <4> HIDE DEF v, file
        <4> QED BY <2>2, <4>3, KeptIfExtended
      <3> QED BY <3>1, <3>2
    <2> HIDE DEF v
    <2>5. AllKept(project', work', pc' # "done")
      <3>1. (pc' # "done") = TRUE
        BY <1>7
      <3> QED BY <1>1, <1>7, <2>4, <3>1
    <2>6. /\ GoodFindings(work'.findings) /\ DOMAIN work'.sources \subseteq DOMAIN work'.findings
          /\ work'.file \in Nat \ {0} /\ work'.at \in Nat \ {0}
      BY <1>1, <1>7, <2>2 DEF Keyed
    <2>7. pc' \in {"start", "failed"} /\ pc' \notin {"query", "sweep", "answer"}
      BY <1>7
    <2> QED BY <2>5, <2>6, <2>7 DEF PanScanInv
  <1> QED BY <1>6, <1>7 DEF PanScanFile, Pass

\* Verdicts of the bridge leave a good finding good.
LEMMA AdjustedGood ==
    ASSUME NEW f, GoodFinding(f), NEW i, NEW stored
    PROVE  GoodFinding(Adjusted(f, i, stored))
  <1>1. DOMAIN f = FindingFields /\ Checked(f)
    BY DEF GoodFinding
  <1> DEFINE a == [f EXCEPT !.note = "stored"]
             b == [f EXCEPT !.rule = "suppressed"]
             c == [f EXCEPT !.sev = "INFO", !.note = "transit"]
  <1>2. Adjusted(f, i, stored) \in {a, b, c, f}
    BY DEF Adjusted
  <1>3. /\ DOMAIN a = FindingFields /\ a.how = f.how /\ a.digits = f.digits
        /\ DOMAIN b = FindingFields /\ b.how = f.how /\ b.digits = f.digits
        /\ DOMAIN c = FindingFields /\ c.how = f.how /\ c.digits = f.digits
    BY <1>1 DEF FindingFields
  <1> HIDE DEF a, b, c
  <1>4. \A g \in {a, b, c, f} : DOMAIN g = FindingFields /\ g.how = f.how /\ g.digits = f.digits
    BY <1>1, <1>3
  <1>5. \A g \in {a, b, c, f} : GoodFinding(g)
    BY <1>1, <1>4 DEF GoodFinding, Checked
  <1> QED BY <1>2, <1>5

\* A field that is stored keeps its finding.
LEMMA AdjustedKept ==
    ASSUME NEW f, GoodFinding(f), NEW at, NEW stored, stored \/ ~TransitOnly(at),
           NEW i, NEW rule, NEW st, NEW fd, NEW n, Kept(f, i, rule, st, fd, n)
    PROVE  Kept(Adjusted(f, at, stored), i, rule, st, fd, n)
  <1>1. DOMAIN f = FindingFields
    BY DEF GoodFinding
  <1>2. CASE stored
    <2> DEFINE a == [f EXCEPT !.note = "stored"]
    <2>1. Adjusted(f, at, stored) = a
      BY <1>2 DEF Adjusted
    <2>2. /\ a.rule = f.rule /\ a.file = f.file /\ a.line = f.line /\ a.how = f.how /\ a.name = f.name
          /\ a.sev = f.sev /\ a.note = "stored"
      BY <1>1 DEF FindingFields
    <2> HIDE DEF a
    <2> QED BY <2>1, <2>2 DEF Kept
  <1>3. CASE ~stored
    <2>1. Adjusted(f, at, stored) = f
      BY <1>3 DEF Adjusted
    <2> QED BY <2>1
  <1> QED BY <1>2, <1>3

\* The bridge takes no stored field for data in transit.
LEMMA StoredVerdict ==
    ASSUME PanFlowInv, PanScanInv, TaintDirectFound, scanner = "pan", pc = "answer",
           NEW st, NEW n, work.sources[work.at] = SourceOf(st, n),
           StoredDirectly(project.program, <<st.name, n>>) \/ classifyStructTags(st).db
    PROVE  work.flow.hit \/ ~TransitOnly(work.at)
  <1> DEFINE src == work.sources[work.at]
  <1>1. src.type = st.name /\ src.field = n /\ src.db = classifyStructTags(st).db
    BY DEF SourceOf
  <1>2. work.flow.src = <<src.type, src.field>>
    BY DEF PanScanInv, AskedOf
  <1>3. CASE classifyStructTags(st).db
    <2>1. structTagClassification(src) = "storage"
      BY <1>1, <1>3 DEF structTagClassification
    <2> QED BY <2>1 DEF TransitOnly
  <1>4. CASE StoredDirectly(project.program, <<st.name, n>>)
    <2>1. StoredDirectly(project.program, work.flow.src)
      BY <1>1, <1>2, <1>4
    <2> QED BY <2>1 DEF TaintDirectFound, Answered
  <1> QED BY <1>3, <1>4

\* The engine has answered.
LEMMA PanAnswerKept ==
    ASSUME PanFlowInv, PanScanInv, TaintDirectFound, scanner = "pan", PanAnswer
    PROVE  PanScanInv'
  <1> DEFINE at == work.at
             fs == work.findings
             new == Adjusted(fs[at], at, work.flow.hit)
  <1>1. /\ pc = "answer" /\ pc' = "bridge" /\ project' = project /\ DOMAIN work = PanFields
        /\ work' = [work EXCEPT !.findings[work.at] = Adjusted(@, work.at, work.flow.hit), !.at = @ + 1]
    BY DEF PanAnswer, Pass, PanFlowInv
  <1>2. /\ GoodFindings(fs) /\ at \in DOMAIN fs /\ at \in Nat \ {0} /\ work.file \in Nat \ {0}
        /\ DOMAIN work.sources \subseteq DOMAIN fs /\ work.file > Len(project.files)
    BY <1>1 DEF PanScanInv
  <1>3. /\ work'.findings = [fs EXCEPT ![at] = new] /\ work'.at = at + 1
        /\ work'.sources = work.sources /\ work'.file = work.file
    BY <1>1 DEF PanFields
  <1>5. IsList(fs) /\ \A k \in DOMAIN fs : GoodFinding(fs[k])
    BY <1>2 DEF GoodFindings
  <1>6. GoodFinding(new)
    BY <1>2, <1>5, AdjustedGood
  <1>7. Len(fs) \in Nat /\ DOMAIN fs = 1..Len(fs)
    BY <1>5, ListFacts
  <1> DEFINE gs == work'.findings
  <1>8. /\ DOMAIN gs = DOMAIN fs /\ gs[at] = new /\ \A k \in DOMAIN fs : k # at => gs[k] = fs[k]
        /\ gs = [k \in DOMAIN gs |-> gs[k]]
    <2> HIDE DEF new
    <2> QED BY <1>2, <1>3
  <1> HIDE DEF gs
  <1>9. GoodFindings(gs)
    <2>1. IsList(gs)
      BY <1>7, <1>8, FunctionIsList
    <2> HIDE DEF new
    <2>2. \A k \in DOMAIN gs : GoodFinding(gs[k])
      BY <1>5, <1>6, <1>8
    <2> QED BY <2>1, <2>2 DEF GoodFindings
  <1>10. ASSUME NEW i \in DOMAIN project.files, i < work.file, project.files[i].kind = "go", ~project.files[i].generated
         PROVE  FileKept(project.program, project.files[i], i, work', TRUE)
    <2> DEFINE file == project.files[i]
    <2>1. FileKept(project.program, file, i, work, TRUE)
      <3>1. (pc # "done") = TRUE
        BY <1>1
      <3>2. AllKept(project, work, TRUE)
        BY <3>1 DEF PanScanInv
      <3> QED BY <1>10, <3>2 DEF AllKept
    <2> HIDE DEF file
    <2> SUFFICES ASSUME NEW st \in Range(file.structs), NEW f \in Range(st.fields), NEW n \in Range(f.names),
                        NEW rule \in FieldRules(f), Due(project.program, file, st, f, n)
                 PROVE  \E k \in DOMAIN gs : KeptAt(work', TRUE, k, i, rule, st, f, n)
      BY DEF FileKept, file, gs
    <2>2. PICK k \in DOMAIN fs : KeptAt(work, TRUE, k, i, rule, st, f, n)
      BY <2>1 DEF FileKept
    <2>3. Kept(fs[k], i, rule, st, f, n) /\ (k \in DOMAIN work.sources => work.sources[k] = SourceOf(st, n))
      BY <2>2 DEF KeptAt
    <2>4. Kept(gs[k], i, rule, st, f, n)
      <3>1. CASE k # at
        BY <1>8, <2>3, <3>1
      <3>2. CASE k = at
        <4>1. at \in DOMAIN work.sources
          BY <1>1 DEF PanScanInv, Asked
        <4>2. work.sources[work.at] = SourceOf(st, n)
          BY <2>3, <3>2, <4>1
        <4>3. work.flow.hit \/ ~TransitOnly(at)
          BY <1>1, <4>2, StoredVerdict DEF Due
        <4> DEFINE old == fs[at]
                   hit == work.flow.hit
        <4>4. GoodFinding(old) /\ Kept(old, i, rule, st, f, n) /\ (hit \/ ~TransitOnly(at))
          BY <1>2, <1>5, <2>3, <3>2, <4>3
        <4>5. gs[k] = Adjusted(old, at, hit)
          BY <1>8, <3>2
        <4> HIDE DEF old, hit
        <4> QED BY <4>4, <4>5, AdjustedKept
      <3> QED BY <3>1, <3>2
    <2>5. KeptAt(work', TRUE, k, i, rule, st, f, n)
      BY <1>3, <1>8, <2>3, <2>4 DEF KeptAt, gs
    <2> QED BY <1>8, <2>5
  <1>11. AllKept(project', work', pc' # "done")
    <2>1. (pc' # "done") = TRUE
      BY <1>1
    <2>2. AllKept(project, work', TRUE)
      BY <1>3, <1>10 DEF AllKept
    <2> QED BY <1>1, <2>1, <2>2
  <1> QED BY <1>1, <1>2, <1>3, <1>8, <1>9, <1>11 DEF PanScanInv, gs

\* What the bridge suppressed goes.
LEMMA PanBridgedKept ==
    ASSUME PanFlowInv, PanScanInv, scanner = "pan", PanBridged
    PROVE  PanScanInv'
  <1> DEFINE fs == work.findings
             S == {i \in DOMAIN fs : fs[i].rule # "suppressed"}
             gs == Where(fs, S)
  <1>1. /\ pc = "bridge" /\ pc' = "done" /\ project' = project /\ DOMAIN work = PanFields
        /\ work' = [work EXCEPT !.findings = removeSuppressed(@)]
    BY DEF PanBridged, Pass, PanFlowInv
  <1>2. /\ GoodFindings(fs) /\ work.at \in Nat \ {0} /\ work.file \in Nat \ {0} /\ work.file > Len(project.files)
    BY <1>1 DEF PanScanInv
  <1>3. removeSuppressed(fs) = gs
    BY DEF removeSuppressed
  <1>4. /\ work'.findings = gs /\ work'.at = work.at /\ work'.file = work.file
    <2> HIDE DEF gs
    <2> QED BY <1>1, <1>3 DEF PanFields
  <1>5. IsList(fs) /\ \A k \in DOMAIN fs : GoodFinding(fs[k])
    BY <1>2 DEF GoodFindings
  <1>6. /\ S \in SUBSET DOMAIN fs /\ \A k \in DOMAIN fs : fs[k].rule # "suppressed" => k \in S
    OBVIOUS
  <1> HIDE DEF S, fs
  <1>7. /\ IsList(gs)
        /\ \A k \in DOMAIN gs : \E i \in S : gs[k] = fs[i]
        /\ \A i \in S : \E k \in DOMAIN gs : gs[k] = fs[i]
    BY <1>5, <1>6, ListWhere
  <1> HIDE DEF gs
  <1>8. GoodFindings(gs)
    BY <1>5, <1>6, <1>7 DEF GoodFindings
  <1>9. ASSUME NEW i \in DOMAIN project.files, i < work.file, project.files[i].kind = "go", ~project.files[i].generated
        PROVE  FileKept(project.program, project.files[i], i, work', FALSE)
    <2> DEFINE file == project.files[i]
    <2>1. FileKept(project.program, file, i, work, TRUE)
      <3>1. (pc # "done") = TRUE
        BY <1>1
      <3>2. AllKept(project, work, TRUE)
        BY <3>1 DEF PanScanInv
      <3> QED BY <1>9, <3>2 DEF AllKept
    <2> HIDE DEF file
    <2> SUFFICES ASSUME NEW st \in Range(file.structs), NEW f \in Range(st.fields), NEW n \in Range(f.names),
                        NEW rule \in FieldRules(f), Due(project.program, file, st, f, n)
                 PROVE  \E k \in DOMAIN gs : KeptAt(work', FALSE, k, i, rule, st, f, n)
      BY <1>4 DEF FileKept, file
    <2>2. PICK k \in DOMAIN fs : KeptAt(work, TRUE, k, i, rule, st, f, n)
      BY <2>1 DEF FileKept, fs
    <2>3. Kept(fs[k], i, rule, st, f, n)
      BY <2>2 DEF KeptAt, fs
    <2>4. rule # "suppressed"
      BY DEF FieldRules
    <2>5. k \in S
      BY <1>6, <2>3, <2>4 DEF Kept
    <2>6. PICK m \in DOMAIN gs : gs[m] = fs[k]
      BY <1>7, <2>5
    <2>7. KeptAt(work', FALSE, m, i, rule, st, f, n)
      BY <1>4, <2>3, <2>6 DEF KeptAt
    <2> QED BY <2>7
  <1>10. AllKept(project', work', pc' # "done")
    <2>1. (pc' # "done") = FALSE
      BY <1>1
    <2>2. AllKept(project, work', FALSE)
      BY <1>4, <1>9 DEF AllKept
    <2> QED BY <1>1, <2>1, <2>2
  <1>11. pc' \notin {"query", "sweep", "answer"} /\ pc' = "done"
    BY <1>1
  <1>12. GoodFindings(work'.findings) /\ work'.file \in Nat \ {0} /\ work'.at \in Nat \ {0} /\ work'.file > Len(project'.files)
    BY <1>1, <1>2, <1>4, <1>8
  <1> QED BY <1>10, <1>11, <1>12 DEF PanScanInv

\* A finding of the bridge is passed over, or asked about.
LEMMA PanAskedKept ==
    ASSUME PanFlowInv, PanScanInv, scanner = "pan", adjustSeverityByTaint
    PROVE  PanScanInv'
  <1>1. /\ DOMAIN work = PanFields /\ pc = "bridge" /\ work.at <= Len(work.findings) /\ project' = project
        /\ GoodFindings(work.findings) /\ work.at \in Nat \ {0} /\ work.file > Len(project.files)
    BY DEF PanFlowInv, PanScanInv, adjustSeverityByTaint, Pass
  <1>2. CASE work' = [work EXCEPT !.at = @ + 1] /\ pc' = "bridge"
    <2>1. /\ work'.findings = work.findings /\ work'.sources = work.sources /\ work'.file = work.file
          /\ work'.at = work.at + 1
      BY <1>1, <1>2 DEF PanFields
    <2>2. work'.at \in Nat \ {0}
      BY <1>1, <2>1
    <2> QED BY <1>1, <1>2, <2>1, <2>2, PanLeftAlone
  <1>3. CASE /\ work' = [work EXCEPT !.flow = NewFlow(AskedOf(work.at))] /\ Asked(work.at)
             /\ pc' \in {"query", "answer"}
    <2> DEFINE src == AskedOf(work.at)
    <2>1. NewFlow(src).src = src
      BY DEF NewFlow
    <2>2. /\ work'.findings = work.findings /\ work'.sources = work.sources /\ work'.file = work.file
          /\ work'.at = work.at /\ work'.flow = NewFlow(src)
      BY <1>1, <1>3 DEF PanFields
    <2>3. Asked(work.at)' /\ AskedOf(work.at)' = src
      BY <1>1, <1>3, <2>2 DEF Asked, AskedOf
    <2>4. work.at \in DOMAIN work.findings
      <3>1. Len(work.findings) \in Nat /\ DOMAIN work.findings = 1..Len(work.findings)
        BY <1>1, ListFacts DEF GoodFindings
      <3> QED BY <1>1, <3>1
    <2> QED BY <1>1, <1>3, <2>1, <2>2, <2>3, <2>4, PanLeftAlone
  <1> QED BY <1>2, <1>3 DEF adjustSeverityByTaint, Pass

\* No step breaks it.
LEMMA PanScanInductive ==
    ASSUME PanFlowInv, TaintDirectFound, PanScanInv, [Next]_callVars
    PROVE  PanScanInv'
  <1> SUFFICES ASSUME scanner' = "pan" PROVE PanScanInv'
    BY DEF PanScanInv
  <1>1. scanner = "pan"
    BY ScannerStays
  <1>2. CASE PanNext
    <2>1. CASE PanScanFile
      BY <1>1, <2>1, PanFileKept
    <2>2. CASE PanCancel \/ PanScanned
      <3>1. /\ pc = "start" /\ work' = work /\ project' = project /\ work.at \in Nat \ {0}
            /\ \/ pc' = "failed"
               \/ pc' \in {"bridge", "done"} /\ work.file > Len(project.files)
        BY <1>1, <2>2 DEF PanCancel, PanScanned, Pass, PanScanInv
      <3> QED BY <1>1, <3>1, PanLeftAlone
    <2>3. CASE adjustSeverityByTaint
      BY <1>1, <2>3, PanAskedKept
    <2>4. CASE FlowSteps("pan")
      <3>1. /\ project' = project /\ pc \in {"query", "sweep"} /\ pc' \in {"query", "sweep", "answer"}
            /\ work'.findings = work.findings /\ work'.sources = work.sources
            /\ work'.file = work.file /\ work'.at = work.at /\ work'.flow.src = work.flow.src
        BY <1>1, <2>4, FlowStepIs
      <3>2. /\ work.at \in DOMAIN work.findings /\ Asked(work.at) /\ work.flow.src = AskedOf(work.at)
            /\ work.at \in Nat \ {0} /\ work.file > Len(project.files)
        BY <1>1, <3>1 DEF PanScanInv
      <3>3. Asked(work.at)' /\ AskedOf(work.at)' = AskedOf(work.at)
        BY <3>1, <3>2 DEF Asked, AskedOf
      <3> QED BY <1>1, <3>1, <3>2, <3>3, PanLeftAlone
    <2>5. CASE PanAnswer
      BY <1>1, <2>5, PanAnswerKept
    <2>6. CASE PanBridged
      BY <1>1, <2>6, PanBridgedKept
    <2> QED BY <1>2, <2>1, <2>2, <2>3, <2>4, <2>5, <2>6 DEF PanNext
  <1>3. CASE UNCHANGED callVars
    <2>1. project' = project /\ work' = work /\ pc' = pc /\ scanner' = scanner
      BY <1>3 DEF callVars
    <2> QED BY <2>1 DEF PanScanInv, Asked, AskedOf
  <1> QED BY <1>1, <1>2, <1>3 DEF Next, Returned

(* PanScanInv holds of every call of the PAN scanner on every project:     *)
(* while the files are scanned, the sources stay keyed by the positions of *)
(* their findings; a verdict of the bridge reaches the finding of the      *)
(* field that was asked about and no other; and what is due for a stored   *)
(* field is still there, up to the removal of the suppressed findings.     *)
THEOREM PanScanInvariant == Spec => []PanScanInv
  <1>1. Init => PanScanInv
    BY PanScanInitially
  <1>2. PanFlowInv /\ TaintDirectFound /\ PanScanInv /\ [Next]_callVars => PanScanInv'
    BY PanScanInductive
  <1> QED BY <1>1, <1>2, PanFlowInvariant, TaintDirectAlwaysFound, PTL DEF Spec

(* On every project, a sensitive field that assignments and struct         *)
(* literals lead to a sink, or whose struct has database tags, keeps its   *)
(* PAN-KEYWORD finding, neither marked as transit nor lowered to INFO but  *)
(* for a bank account, and its PAN-TYPE finding if it is a string: neither *)
(* deduplicateStructFindings, nor groupParameterFindings, nor any order of *)
(* files and verdicts of adjustSeverityByTaint takes them away.            *)
THEOREM PanStoredAlwaysKept == Spec => []PanStoredKept
  <1>1. PanFlowInv /\ PanScanInv => PanStoredKept
    <2> SUFFICES ASSUME PanFlowInv, PanScanInv, Done("pan"), NEW i \in DOMAIN project.files,
                        project.files[i].kind = "go", ~project.files[i].generated,
                        NEW x \in FieldsOf(project.files[i]),
                        IsSensitiveKeyword(x[3]), OwnLine(project.files[i], x[1], x[2]),
                        StoredDirectly(project.program, <<x[1].name, x[3]>>) \/ classifyStructTags(x[1]).db
                 PROVE  /\ \E g \in {f \in Range(work.findings) :
                                       f.rule = "PAN-KEYWORD" /\ f.file = i /\ f.line = x[2].line /\ f.how = "field"
                                         /\ f.name = x[3]} :
                              g.note # "transit" /\ (g.sev # "INFO" \/ IsBankingContext(x[1]))
                        /\ x[2].type = "string" =>
                              {f \in Range(work.findings) :
                                 f.rule = "PAN-TYPE" /\ f.file = i /\ f.line = x[2].line /\ f.how = "field"
                                   /\ f.name = x[3]} # {}
      BY DEF PanStoredKept
    <2> DEFINE file == project.files[i]
    <2>1. PICK st \in Range(file.structs) : \E f \in Range(st.fields) : \E n \in Range(f.names) : x = <<st, f, n>>
      BY DEF FieldsOf
    <2>2. PICK f \in Range(st.fields) : \E n \in Range(f.names) : x = <<st, f, n>>
      BY <2>1
    <2>3. PICK n \in Range(f.names) : x = <<st, f, n>>
      BY <2>2
    <2>4. x[1] = st /\ x[2] = f /\ x[3] = n
      BY <2>3
    <2>5. Due(project.program, file, st, f, n)
      BY <2>4 DEF Due
    <2>6. i < work.file
      <3>1. project \in PanSources /\ work.file \in Nat \ {0} /\ work.file > Len(project.files)
        BY DEF PanFlowInv, PanScanInv, Done
      <3>2. Len(project.files) \in Nat /\ DOMAIN project.files = 1..Len(project.files)
        BY <3>1, PanSourcesAssumption, ListFacts
      <3> QED BY <3>1, <3>2
    <2>7. FileKept(project.program, file, i, work, FALSE)
      <3>1. (pc # "done") = FALSE
        BY DEF Done
      <3>2. AllKept(project, work, FALSE)
        BY <3>1 DEF PanScanInv, Done
      <3> QED BY <2>6, <3>2 DEF AllKept
    <2> HIDE DEF file
    <2>8. ASSUME NEW rule \in FieldRules(f)
          PROVE  \E g \in Range(work.findings) : Kept(g, i, rule, st, f, n)
      <3>1. PICK k \in DOMAIN work.findings : KeptAt(work, FALSE, k, i, rule, st, f, n)
        BY <2>5, <2>7 DEF FileKept
      <3> QED BY <3>1 DEF KeptAt, Range
    <2>9. PICK g \in Range(work.findings) : Kept(g, i, "PAN-KEYWORD", st, f, n)
      <3>1. "PAN-KEYWORD" \in FieldRules(f)
        BY DEF FieldRules
      <3> QED BY <2>8, <3>1
    <2>10. ASSUME f.type = "string" PROVE \E h \in Range(work.findings) : Kept(h, i, "PAN-TYPE", st, f, n)
      <3>1. "PAN-TYPE" \in FieldRules(f)
        BY <2>10 DEF FieldRules
      <3> QED BY <2>8, <3>1
    <2> QED BY <2>4, <2>9, <2>10 DEF Kept
  <1> QED BY <1>1, PanFlowInvariant, PanScanInvariant, PTL

------------------------------------------------------------------------------
(* Card numbers.                                                           *)

\* What digit i of n adds to its sum.
Place(n, i) == IF (Len(n) - i) % 2 = 1 THEN Doubled(n[i]) ELSE n[i]

\* The sum of n on its way, from digit to digit.
Sums(f, n, m) ==
    /\ f = [k \in 0..m |-> f[k]]
    /\ f[0] = 0
    /\ \A k \in 1..m : f[k] = f[k - 1] + Place(n, k)

\* Doubling tells digits apart.
LEMMA DoubledApart ==
    ASSUME NEW c \in 0..9
    PROVE  Doubled(c) \in 0..9 /\ \A d \in 0..9 : Doubled(c) = Doubled(d) => c = d
  BY DEF Doubled

\* Two digits at one place add less than ten, and not the same.
LEMMA PlaceApart ==
    ASSUME NEW a \in Seq(0..9), NEW b \in Seq(0..9), Len(a) = Len(b), NEW i \in DOMAIN a
    PROVE  /\ Place(a, i) \in 0..9 /\ Place(b, i) \in 0..9
           /\ Place(a, i) = Place(b, i) <=> a[i] = b[i]
  <1>1. a[i] \in 0..9 /\ b[i] \in 0..9
    OBVIOUS
  <1>2. Doubled(a[i]) \in 0..9 /\ Doubled(b[i]) \in 0..9 /\ (Doubled(a[i]) = Doubled(b[i]) => a[i] = b[i])
    BY <1>1, DoubledApart
  <1>3. CASE (Len(a) - i) % 2 = 1
    <2>1. Place(a, i) = Doubled(a[i]) /\ Place(b, i) = Doubled(b[i])
      BY <1>3 DEF Place
    <2> QED BY <1>2, <2>1
  <1>4. CASE (Len(a) - i) % 2 # 1
    <2>1. Place(a, i) = a[i] /\ Place(b, i) = b[i]
      BY <1>4 DEF Place
    <2> QED BY <1>1, <2>1
  <1> QED BY <1>3, <1>4

\* There are such sums.
LEMMA SumsExist ==
    ASSUME NEW n, NEW l \in Nat
    PROVE  \E f : Sums(f, n, l)
  <1> DEFINE S == {m \in 0..l : \E f : Sums(f, n, m)}
  <1>1. 0 \in S
    <2>1. Sums([k \in 0..0 |-> 0], n, 0)
      BY DEF Sums
    <2> QED BY <2>1
  <1>2. ASSUME NEW m \in 1..l, m - 1 \in S PROVE m \in S
    <2>1. PICK f : Sums(f, n, m - 1)
      BY <1>2
    <2>2. m \in Nat /\ m > 0 /\ 0 \in 0..(m - 1)
      OBVIOUS
    <2> DEFINE v == f[m - 1] + Place(n, m)
    <2> HIDE DEF v
    <2>3. PICK g : Longer(g, f, m, v)
      BY <2>2, LongerExists
    <2>4. g[0] = 0
      <3>1. f[0] = 0
        BY <2>1 DEF Sums
      <3> QED BY <2>2, <2>3, <3>1 DEF Longer
    <2>5. ASSUME NEW k \in 1..m PROVE g[k] = g[k - 1] + Place(n, k)
      <3>1. k - 1 \in 0..(m - 1) /\ g[k - 1] = f[k - 1]
        <4>1. k - 1 \in 0..(m - 1)
          BY <2>2
        <4> QED BY <2>3, <4>1 DEF Longer
      <3>2. CASE k = m
        BY <2>3, <3>1, <3>2 DEF Longer, v
      <3>3. CASE k # m
        <4>1. k \in 1..(m - 1) /\ k \in 0..(m - 1)
          BY <2>2, <3>3
        <4> QED BY <2>1, <2>3, <3>1, <4>1 DEF Sums, Longer
      <3> QED BY <3>2, <3>3
    <2>6. Sums(g, n, m)
      BY <2>3, <2>4, <2>5 DEF Sums, Longer
    <2> QED BY <2>6
  <1>3. S \in SUBSET (0..l)
    OBVIOUS
  <1> HIDE DEF S
  <1>4. \A m \in 0..l : m \in S
    BY <1>1, <1>2, <1>3, Climb
  <1>5. l \in S
    BY <1>4
  <1> QED BY <1>5 DEF S

\* The last of them is what LuhnValid looks at.
LEMMA LuhnSum ==
    ASSUME NEW n, NEW l \in Nat, l = Len(n), LuhnValid(n)
    PROVE  \E f : Sums(f, n, l) /\ f[l] % 10 = 0
  <1> DEFINE step(f) == [k \in 0..l |-> IF k = 0 THEN 0 ELSE f[k - 1] + Place(n, k)]
             f == CHOOSE g : g = step(g)
  <1>1. \E g : g = step(g)
    <2>1. PICK g : Sums(g, n, l)
      BY SumsExist
    <2>2. ASSUME NEW k \in 0..l PROVE g[k] = IF k = 0 THEN 0 ELSE g[k - 1] + Place(n, k)
      <3>1. CASE k = 0
        BY <2>1, <3>1 DEF Sums
      <3>2. CASE k # 0
        <4>1. k \in 1..l
          BY <3>2
        <4>2. g[k] = g[k - 1] + Place(n, k)
          BY <2>1, <4>1 DEF Sums
        <4> QED BY <3>2, <4>2, Zenon
      <3> QED BY <3>1, <3>2
    <2>3. g = [k \in 0..l |-> g[k]]
      BY <2>1 DEF Sums
    <2>4. [k \in 0..l |-> g[k]] = step(g)
      BY <2>2
    <2> QED BY <2>3, <2>4
  <1>2. f = step(f)
    BY <1>1
  <1>3. f[l] % 10 = 0
    BY DEF LuhnValid, Place
  <1> HIDE DEF f
  <1>4. Sums(f, n, l)
    <2>1. f = [k \in 0..l |-> f[k]] /\ f[0] = 0
      BY <1>2
    <2>2. ASSUME NEW k \in 1..l PROVE f[k] = f[k - 1] + Place(n, k)
      <3>1. k \in 0..l /\ k # 0
        OBVIOUS
      <3> QED BY <1>2, <3>1
    <2> QED BY <2>1, <2>2 DEF Sums
  <1> QED BY <1>3, <1>4

\* From p on f and g are apart by d.
ApartFrom(f, g, l, p, d) ==
    \A m \in 0..l : f[m] \in Nat /\ g[m] \in Nat /\ f[m] - g[m] = IF m < p THEN 0 ELSE d

\* Sums of two numbers that differ at p only.
LEMMA SumsApart ==
    ASSUME NEW a \in Seq(0..9), NEW b \in Seq(0..9), NEW l \in Nat, l = Len(a), Len(b) = Len(a),
           NEW p \in 1..l, \A i \in 1..l : i # p => a[i] = b[i],
           NEW f, NEW g, Sums(f, a, l), Sums(g, b, l)
    PROVE  ApartFrom(f, g, l, p, Place(a, p) - Place(b, p))
  <1> DEFINE d == Place(a, p) - Place(b, p)
             S == {m \in 0..l : f[m] \in Nat /\ g[m] \in Nat /\ f[m] - g[m] = IF m < p THEN 0 ELSE d}
  <1>1. \A i \in 1..l : /\ Place(a, i) \in 0..9 /\ Place(b, i) \in 0..9
                        /\ i # p => Place(a, i) = Place(b, i)
    <2>1. DOMAIN a = 1..l
      OBVIOUS
    <2> QED BY <2>1, PlaceApart
  <1>2. f[0] = 0 /\ g[0] = 0
    BY DEF Sums
  <1>3. \A k \in 1..l : f[k] = f[k - 1] + Place(a, k) /\ g[k] = g[k - 1] + Place(b, k)
    BY DEF Sums
  <1>4. d \in Int
    BY <1>1
  <1>5. 0 \in S
    BY <1>2
  <1>6. ASSUME NEW m \in 1..l, m - 1 \in S PROVE m \in S
    <2> DEFINE x == Place(a, m)
               y == Place(b, m)
    <2>1. x \in 0..9 /\ y \in 0..9 /\ (m # p => x = y) /\ (m = p => x - y = d)
      BY <1>1
    <2>2. f[m] = f[m - 1] + x /\ g[m] = g[m - 1] + y
      BY <1>3
    <2>3. f[m - 1] \in Nat /\ g[m - 1] \in Nat /\ f[m - 1] - g[m - 1] = IF m - 1 < p THEN 0 ELSE d
      BY <1>6
    <2> HIDE DEF x, y, d
    <2> DEFINE u == f[m - 1]
               v == g[m - 1]
               c == IF m - 1 < p THEN 0 ELSE d
    <2>4. c \in Int /\ u \in Nat /\ v \in Nat /\ u - v = c
      BY <1>4, <2>3
    <2> HIDE DEF u, v
    <2>5. u + x \in Nat /\ v + y \in Nat /\ (u + x) - (v + y) = c + (x - y)
      <3> HIDE DEF c
      <3> QED BY <2>1, <2>4
    <2>6. c + (x - y) = IF m < p THEN 0 ELSE d
      <3>1. x - y \in Int /\ (x = y => x - y = 0)
        BY <2>1
      <3>2. CASE m < p
        <4>1. m - 1 < p /\ m # p
          BY <3>2
        <4>2. c = 0 /\ x - y = 0
          BY <2>1, <3>1, <4>1
        <4>3. c + (x - y) = 0
          <5> HIDE DEF c
          <5> QED BY <4>2
        <4> QED BY <3>2, <4>3
      <3>3. CASE m = p
        <4>1. m - 1 < p /\ ~(m < p)
          BY <3>3
        <4>2. c = 0 /\ x - y = d
          BY <2>1, <3>3, <4>1
        <4>3. c + (x - y) = d
          <5> HIDE DEF c
          <5> QED BY <1>4, <4>2
        <4> QED BY <4>1, <4>3
      <3>4. CASE m > p
        <4>1. ~(m - 1 < p) /\ ~(m < p) /\ m # p
          BY <3>4
        <4>2. c = d /\ x - y = 0
          BY <2>1, <3>1, <4>1
        <4>3. c + (x - y) = d
          <5> HIDE DEF c
          <5> QED BY <1>4, <4>2
        <4> QED BY <4>1, <4>3
      <3> QED BY <3>2, <3>3, <3>4
    <2>7. f[m] = u + x /\ g[m] = v + y
      BY <2>2 DEF u, v
    <2> HIDE DEF c
    <2>8. f[m] \in Nat /\ g[m] \in Nat /\ f[m] - g[m] = IF m < p THEN 0 ELSE d
      BY <2>5, <2>6, <2>7
    <2> QED BY <2>8
  <1>7. S \in SUBSET (0..l)
    OBVIOUS
  <1> HIDE DEF S
  <1>8. \A m \in 0..l : m \in S
    BY <1>5, <1>6, <1>7, Climb
  <1>9. ApartFrom(f, g, l, p, d)
    BY <1>8 DEF S, ApartFrom
  <1> QED BY <1>9

\* Numbers that end in 0 are not apart by less than ten.
LEMMA TensApart ==
    ASSUME NEW u \in Nat, NEW v \in Nat, u % 10 = 0, v % 10 = 0, NEW x \in 0..9, NEW y \in 0..9, u - v = x - y
    PROVE  x = y
  <1>1. u = 10 * (u \div 10) /\ v = 10 * (v \div 10) /\ u \div 10 \in Int /\ v \div 10 \in Int
    OBVIOUS
  <1> QED BY <1>1

\* A card number and the same number with one digit changed are not both valid.
LEMMA LuhnOneDigit ==
    ASSUME NEW a \in Seq(0..9), NEW b \in Seq(0..9), Len(a) = Len(b), LuhnValid(a), LuhnValid(b),
           NEW p \in DOMAIN a, \A i \in DOMAIN a : i # p => a[i] = b[i]
    PROVE  a[p] = b[p]
  <1> DEFINE l == Len(a)
  <1>1. l \in Nat /\ DOMAIN a = 1..l /\ l = Len(b)
    OBVIOUS
  <1> HIDE DEF l
  <1>2. PICK f : Sums(f, a, l) /\ f[l] % 10 = 0
    BY <1>1, LuhnSum DEF l
  <1>3. PICK g : Sums(g, b, l) /\ g[l] % 10 = 0
    BY <1>1, LuhnSum
  <1>4. /\ f[l] \in Nat /\ g[l] \in Nat
        /\ f[l] - g[l] = IF l < p THEN 0 ELSE Place(a, p) - Place(b, p)
    <2>1. l = Len(a) /\ p \in 1..l /\ \A i \in 1..l : i # p => a[i] = b[i]
      BY <1>1 DEF l
    <2>2. ApartFrom(f, g, l, p, Place(a, p) - Place(b, p))
      BY <1>1, <1>2, <1>3, <2>1, SumsApart
    <2>3. l \in 0..l
      BY <1>1
    <2> QED BY <2>2, <2>3 DEF ApartFrom
  <1> DEFINE x == Place(a, p)
             y == Place(b, p)
  <1>5. x \in 0..9 /\ y \in 0..9 /\ (x = y <=> a[p] = b[p])
    BY PlaceApart
  <1> HIDE DEF x, y
  <1>6. f[l] - g[l] = x - y
    BY <1>1, <1>4 DEF x, y
  <1>7. x = y
    BY <1>2, <1>3, <1>4, <1>5, <1>6, TensApart
  <1> QED BY <1>5, <1>7

(* On every project, of two literals of one length that differ in exactly  *)
(* one digit at most one is reported: Doubled tells the ten digits apart   *)
(* and stays below ten, so one digit cannot move the sum of LuhnValid from *)
(* one multiple of ten to another.                                         *)
THEOREM PanMistypedNeverReported == Spec => []PanMistypedNotReported
  <1>1. PanScanInv => PanMistypedNotReported
    <2> SUFFICES ASSUME PanScanInv, Done("pan"), NEW f \in Range(work.findings), NEW g \in Range(work.findings),
                        f.how = "literal", g.how = "literal", Len(f.digits) = Len(g.digits),
                        Cardinality({i \in DOMAIN f.digits : f.digits[i] # g.digits[i]}) = 1
                 PROVE  FALSE
      BY DEF PanMistypedNotReported
    <2> DEFINE a == f.digits
               b == g.digits
               S == {i \in DOMAIN a : a[i] # b[i]}
    <2>1. GoodFindings(work.findings)
      BY DEF PanScanInv, Done
    <2>2. LuhnValid(a) /\ LuhnValid(b) /\ a \in Seq(0..9) /\ b \in Seq(0..9)
      BY <2>1 DEF GoodFindings, GoodFinding, Checked, Range
    <2> HIDE DEF a, b
    <2>3. Len(a) = Len(b) /\ Cardinality(S) = 1
      BY DEF a, b
    <2>4. IsFiniteSet(S)
      <3>1. DOMAIN a = 1..Len(a) /\ Len(a) \in Nat
        BY <2>2
      <3>2. IsFiniteSet(1..Len(a))
        <4> DEFINE l == Len(a)
        <4>1. 1 \in Int /\ l \in Int
          BY <3>1
        <4> HIDE DEF l
        <4>2. IsFiniteSet(1..l)
          BY <4>1, FS_Interval
        <4> QED BY <4>2 DEF l
      <3>3. S \subseteq 1..Len(a)
        BY <3>1
      <3> HIDE DEF S
      <3> QED BY <3>2, <3>3, FS_Subset
    <2>5. PICK p : S = {p}
      <3> HIDE DEF S
      <3> QED BY <2>3, <2>4, FS_Singleton
    <2>6. p \in DOMAIN a /\ a[p] # b[p] /\ \A i \in DOMAIN a : i # p => a[i] = b[i]
      BY <2>5
    <2> HIDE DEF S
    <2> QED BY <2>2, <2>3, <2>6, LuhnOneDigit
  <1> QED BY <1>1, PanScanInvariant, PTL

------------------------------------------------------------------------------
(* The authentication scanner: length policies.                            *)

\* What the parser gives for a file.
AuthParsed(file) ==
    /\ IsList(file.decls)
    /\ \A k \in DOMAIN file.decls :
          /\ IsList(file.decls[k].body)
          /\ \A j \in DOMAIN file.decls[k].body : file.decls[k].body[j].n \in Nat

\* Place p is statement j of declaration k.
PlaceAt(file, p, k, j) == p = [at |-> <<k, j>>, s |-> file.decls[k].body[j]]

\* The places are a list of all statements.
LEMMA PlacesListed ==
    ASSUME NEW file, AuthParsed(file)
    PROVE  /\ IsList(Places(file))
           /\ \A i \in DOMAIN Places(file) :
                \E k \in DOMAIN file.decls : \E j \in DOMAIN file.decls[k].body :
                   PlaceAt(file, Places(file)[i], k, j)
  <1> DEFINE row(k) == [j \in DOMAIN file.decls[k].body |-> [at |-> <<k, j>>, s |-> file.decls[k].body[j]]]
             rows == [k \in DOMAIN file.decls |-> row(k)]
  <1>1. \A k \in DOMAIN file.decls : IsList(row(k))
    <2> SUFFICES ASSUME NEW k \in DOMAIN file.decls PROVE IsList(row(k))
      OBVIOUS
    <2>1. IsList(file.decls[k].body)
      BY DEF AuthParsed
    <2>2. Len(file.decls[k].body) \in Nat /\ DOMAIN file.decls[k].body = 1..Len(file.decls[k].body)
      BY <2>1, ListFacts
    <2>3. DOMAIN row(k) = 1..Len(file.decls[k].body) /\ row(k) = [i \in DOMAIN row(k) |-> row(k)[i]]
      BY <2>2
    <2> HIDE DEF row
    <2> QED BY <2>2, <2>3, FunctionIsList
  <1>2. \A k \in DOMAIN file.decls : \A j \in DOMAIN row(k) :
           j \in DOMAIN file.decls[k].body /\ PlaceAt(file, row(k)[j], k, j)
    BY DEF PlaceAt
  <1>3. Places(file) = FlattenSeq(rows)
    BY DEF Places
  <1> HIDE DEF row
  <1>4. IsList(file.decls)
    BY DEF AuthParsed
  <1>5. Len(file.decls) \in Nat /\ DOMAIN file.decls = 1..Len(file.decls)
    BY <1>4, ListFacts
  <1>6. DOMAIN rows = DOMAIN file.decls /\ rows = [k \in DOMAIN rows |-> rows[k]]
        /\ \A k \in DOMAIN file.decls : rows[k] = row(k)
    OBVIOUS
  <1> HIDE DEF rows
  <1>7. IsList(rows)
    BY <1>5, <1>6, FunctionIsList
  <1>8. \A k \in DOMAIN rows : IsList(rows[k])
    BY <1>1, <1>6
  <1>9. /\ IsList(FlattenSeq(rows))
        /\ \A i \in DOMAIN FlattenSeq(rows) :
              \E k \in DOMAIN rows : \E j \in DOMAIN rows[k] : FlattenSeq(rows)[i] = rows[k][j]
    BY <1>7, <1>8, ListFlatten
  <1> QED BY <1>2, <1>3, <1>6, <1>9

\* A place is known by its position.
LEMMA PlaceUnique ==
    ASSUME NEW file, AuthParsed(file),
           NEW i \in DOMAIN Places(file), NEW l \in DOMAIN Places(file),
           Places(file)[i].at = Places(file)[l].at
    PROVE  Places(file)[i] = Places(file)[l]
  <1>1. PICK k, j : PlaceAt(file, Places(file)[i], k, j)
    BY PlacesListed
  <1>2. PICK m, n : PlaceAt(file, Places(file)[l], m, n)
    BY PlacesListed
  <1>3. <<k, j>> = <<m, n>>
    BY <1>1, <1>2 DEF PlaceAt
  <1>4. k = m /\ j = n
    BY <1>3
  <1> QED BY <1>1, <1>2, <1>4 DEF PlaceAt

\* The places of a kind.
LEMMA PlacesOfKind ==
    ASSUME NEW file, AuthParsed(file), NEW ops
    PROVE  /\ IsList(PlacesOf(file, ops))
           /\ \A i \in DOMAIN PlacesOf(file, ops) :
                \E l \in DOMAIN Places(file) :
                   PlacesOf(file, ops)[i] = Places(file)[l] /\ Places(file)[l].s.op \in ops
           /\ \A l \in DOMAIN Places(file) : Places(file)[l].s.op \in ops =>
                \E i \in DOMAIN PlacesOf(file, ops) : PlacesOf(file, ops)[i] = Places(file)[l]
  <1> DEFINE all == Places(file)
             S == {i \in DOMAIN all : all[i].s.op \in ops}
  <1>1. IsList(all)
    BY PlacesListed
  <1>2. S \in SUBSET DOMAIN all
    OBVIOUS
  <1>3. PlacesOf(file, ops) = Where(all, S)
    BY DEF PlacesOf
  <1>4. \A i : i \in S <=> i \in DOMAIN all /\ all[i].s.op \in ops
    OBVIOUS
  <1> HIDE DEF all, S
  <1>5. /\ IsList(Where(all, S))
        /\ \A k \in DOMAIN Where(all, S) : \E i \in S : Where(all, S)[k] = all[i]
        /\ \A i \in S : \E k \in DOMAIN Where(all, S) : Where(all, S)[k] = all[i]
    BY <1>1, <1>2, ListWhere
  <1>6. /\ IsList(PlacesOf(file, ops))
        /\ \A i \in DOMAIN PlacesOf(file, ops) :
                \E l \in DOMAIN all : PlacesOf(file, ops)[i] = all[l] /\ all[l].s.op \in ops
        /\ \A l \in DOMAIN all : all[l].s.op \in ops =>
                \E i \in DOMAIN PlacesOf(file, ops) : PlacesOf(file, ops)[i] = all[l]
    BY <1>3, <1>4, <1>5
  <1> QED BY <1>6 DEF all

------------------------------------------------------------------------------
(* What the detectors add.                                                 *)

AuthFields == {"rule", "sev", "at", "handler"}

\* A list of findings, none of them about a length policy.
NoPolicy(fs) == IsList(fs) /\ \A k \in DOMAIN fs : DOMAIN fs[k] = AuthFields /\ fs[k].rule # "AUTH-WEAK-POLICY"

\* A length check that the scanner takes for weak.
WeakPlace(p) == p.s.op = "len" /\ IsWeakThreshold(NormalizeLenComparison(p.s), p.s.n)

\* Lists made of such lists.
LEMMA NoPolicyJoin ==
    ASSUME NEW s, NEW t, NoPolicy(s), NoPolicy(t)
    PROVE  NoPolicy(s \o t)
  <1>1. IsList(s) /\ IsList(t)
    BY DEF NoPolicy
  <1>2. /\ IsList(s \o t)
        /\ \A k \in DOMAIN (s \o t) :
                 \/ k \in DOMAIN s /\ (s \o t)[k] = s[k]
                 \/ k - Len(s) \in DOMAIN t /\ (s \o t)[k] = t[k - Len(s)]
    BY <1>1, ListJoin
  <1> QED BY <1>2 DEF NoPolicy

\* Nor any of many lists, joined.
LEMMA NoPolicyFlatten ==
    ASSUME NEW seqs, IsList(seqs), \A i \in DOMAIN seqs : NoPolicy(seqs[i])
    PROVE  NoPolicy(FlattenSeq(seqs))
  <1>1. \A i \in DOMAIN seqs : IsList(seqs[i])
    BY DEF NoPolicy
  <1>2. /\ IsList(FlattenSeq(seqs))
        /\ \A k \in DOMAIN FlattenSeq(seqs) :
              \E i \in DOMAIN seqs : \E j \in DOMAIN seqs[i] : FlattenSeq(seqs)[k] = seqs[i][j]
    BY <1>1, ListFlatten
  <1> QED BY <1>2 DEF NoPolicy

\* No finding, or one with another rule.
LEMMA NoPolicyShort ==
    ASSUME NEW f, DOMAIN f = AuthFields, f.rule # "AUTH-WEAK-POLICY"
    PROVE  NoPolicy(<<f>>) /\ NoPolicy(<<>>)
  <1>1. /\ IsList(<<>>) /\ DOMAIN <<>> = {}
        /\ IsList(<<f>>) /\ DOMAIN <<f>> = {1} /\ <<f>>[1] = f
    BY ShortLists
  <1> QED BY <1>1 DEF NoPolicy

\* Passwords.
LEMMA PasswordsNoPolicy ==
    ASSUME NEW file, AuthParsed(file)
    PROVE  NoPolicy(DetectHardcodedPasswords(file))
  <1> DEFINE found == PlacesOf(file, {"password", "setenv"})
             fs == DetectHardcodedPasswords(file)
  <1>1. IsList(found)
    BY PlacesOfKind
  <1>2. Len(found) \in Nat /\ DOMAIN found = 1..Len(found)
    BY <1>1, ListFacts
  <1>3. fs = [k \in DOMAIN found |-> AuthFinding("AUTH-HARDCODED-PWD",
                PasswordSeverity(found[k].s, file.place), found[k].at, "")]
    BY DEF DetectHardcodedPasswords
  <1> HIDE DEF found, fs
  <1>4. /\ DOMAIN fs = 1..Len(found) /\ fs = [k \in DOMAIN fs |-> fs[k]]
        /\ \A k \in DOMAIN fs : DOMAIN fs[k] = AuthFields /\ fs[k].rule = "AUTH-HARDCODED-PWD"
    BY <1>2, <1>3 DEF AuthFinding, AuthFields
  <1>5. IsList(fs)
    BY <1>2, <1>4, FunctionIsList
  <1>6. NoPolicy(fs)
    BY <1>4, <1>5 DEF NoPolicy
  <1> QED BY <1>6 DEF fs

\* Missing second factors.
LEMMA RouteNoPolicy ==
    ASSUME NEW p PROVE NoPolicy(CheckRouteRegistration(p))
  <1> DEFINE f == AuthFinding("AUTH-MISSING-MFA", "HIGH", p.at, p.s.to)
  <1>1. DOMAIN f = AuthFields /\ f.rule # "AUTH-WEAK-POLICY"
    BY DEF AuthFinding, AuthFields
  <1>2. CheckRouteRegistration(p) \in {<<f>>, <<>>}
    BY DEF CheckRouteRegistration
  <1> HIDE DEF f
  <1>3. NoPolicy(<<f>>) /\ NoPolicy(<<>>)
    BY <1>1, NoPolicyShort
  <1> QED BY <1>2, <1>3

\* What the check of one payment handler reports is not a length policy.
LEMMA HandlerNoPolicy ==
    ASSUME NEW file, NEW k, NEW registered
    PROVE  NoPolicy(CheckPaymentHandler(file, k, registered))
  <1> DEFINE f == AuthFinding("AUTH-MISSING-MFA", "HIGH", <<k, 0>>, file.decls[k].name)
  <1>1. DOMAIN f = AuthFields /\ f.rule # "AUTH-WEAK-POLICY"
    BY DEF AuthFinding, AuthFields
  <1>2. CheckPaymentHandler(file, k, registered) \in {<<f>>, <<>>}
    BY DEF CheckPaymentHandler
  <1> HIDE DEF f
  <1>3. NoPolicy(<<f>>) /\ NoPolicy(<<>>)
    BY <1>1, NoPolicyShort
  <1> QED BY <1>2, <1>3

\* Nor is what the check for a second factor reports.
LEMMA MfaNoPolicy ==
    ASSUME NEW file, AuthParsed(file)
    PROVE  NoPolicy(DetectMissingMFA(file))
  <1> DEFINE all == Places(file)
             routes(k) == Where(all, {i \in DOMAIN all : all[i].at[1] = k})
             checked(k) == [j \in DOMAIN routes(k) |-> CheckRouteRegistration(routes(k)[j])]
             own(k) == CheckPaymentHandler(file, k, RegisteredBefore(file, k))
             rows == [k \in DOMAIN file.decls |-> own(k) \o FlattenSeq(checked(k))]
  <1>1. DetectMissingMFA(file) = FlattenSeq(rows)
    BY DEF DetectMissingMFA
  <1>2. IsList(all)
    BY PlacesListed
  <1>3. ASSUME NEW k \in DOMAIN file.decls PROVE NoPolicy(own(k) \o FlattenSeq(checked(k)))
    <2> DEFINE S == {i \in DOMAIN all : all[i].at[1] = k}
               c == checked(k)
               r == Where(all, S)
    <2>1. S \in SUBSET DOMAIN all
      OBVIOUS
    <2>2. c = [j \in DOMAIN r |-> CheckRouteRegistration(r[j])]
      OBVIOUS
    <2> HIDE DEF S, all
    <2>3. IsList(r)
      BY <1>2, <2>1, ListWhere
    <2>4. Len(r) \in Nat /\ DOMAIN r = 1..Len(r)
      BY <2>3, ListFacts
    <2> HIDE DEF r, c, checked, routes
    <2>5. DOMAIN c = 1..Len(r) /\ c = [j \in DOMAIN c |-> c[j]]
      BY <2>2, <2>4
    <2>6. IsList(c)
      BY <2>4, <2>5, FunctionIsList
    <2>7. \A j \in DOMAIN c : NoPolicy(c[j])
      BY <2>2, RouteNoPolicy
    <2>8. NoPolicy(FlattenSeq(c))
      BY <2>6, <2>7, NoPolicyFlatten
    <2>9. NoPolicy(own(k))
      BY HandlerNoPolicy
    <2> HIDE DEF own
    <2>10. NoPolicy(own(k) \o FlattenSeq(c))
      BY <2>8, <2>9, NoPolicyJoin
    <2> QED BY <2>10 DEF c
  <1>4. IsList(file.decls)
    BY DEF AuthParsed
  <1>5. Len(file.decls) \in Nat /\ DOMAIN file.decls = 1..Len(file.decls)
    BY <1>4, ListFacts
  <1> HIDE DEF own, checked
  <1>6. DOMAIN rows = 1..Len(file.decls) /\ rows = [k \in DOMAIN rows |-> rows[k]]
    BY <1>5
  <1>7. \A k \in DOMAIN rows : NoPolicy(rows[k])
    BY <1>3
  <1> HIDE DEF rows
  <1>8. IsList(rows)
    BY <1>5, <1>6, FunctionIsList
  <1>9. NoPolicy(FlattenSeq(rows))
    BY <1>7, <1>8, NoPolicyFlatten
  <1> QED BY <1>1, <1>9

\* Nor does the downgrade of a service-to-service caller make it one.
LEMMA DowngradeNoPolicy ==
    ASSUME NEW file, NEW fs, NoPolicy(fs)
    PROVE  NoPolicy(ApplyS2SDowngrade(file, fs))
  <1> DEFINE gs == ApplyS2SDowngrade(file, fs)
  <1>1. IsList(fs)
    BY DEF NoPolicy
  <1>2. Len(fs) \in Nat /\ DOMAIN fs = 1..Len(fs)
    BY <1>1, ListFacts
  <1>3. gs = [k \in DOMAIN fs |-> S2SDowngraded(file, fs[k])]
    BY DEF ApplyS2SDowngrade
  <1>4. ASSUME NEW f, DOMAIN f = AuthFields, f.rule # "AUTH-WEAK-POLICY"
        PROVE  DOMAIN S2SDowngraded(file, f) = AuthFields /\ S2SDowngraded(file, f).rule # "AUTH-WEAK-POLICY"
    <2> DEFINE g == [f EXCEPT !.sev = "INFO"]
    <2>1. DOMAIN g = AuthFields /\ g.rule # "AUTH-WEAK-POLICY"
      BY <1>4 DEF AuthFields
    <2>2. S2SDowngraded(file, f) \in {f, g}
      BY DEF S2SDowngraded
    <2> HIDE DEF g
    <2> QED BY <1>4, <2>1, <2>2
  <1> HIDE DEF gs
  <1>5. DOMAIN gs = 1..Len(fs) /\ gs = [k \in DOMAIN gs |-> gs[k]]
    BY <1>2, <1>3
  <1>6. IsList(gs)
    BY <1>2, <1>5, FunctionIsList
  <1>7. \A k \in DOMAIN fs : DOMAIN fs[k] = AuthFields /\ fs[k].rule # "AUTH-WEAK-POLICY"
    BY DEF NoPolicy
  <1>8. \A k \in DOMAIN gs : DOMAIN gs[k] = AuthFields /\ gs[k].rule # "AUTH-WEAK-POLICY"
    BY <1>3, <1>4, <1>7
  <1>9. NoPolicy(gs)
    BY <1>6, <1>8 DEF NoPolicy
  <1> QED BY <1>9 DEF gs

\* Webhook handlers.
LEMMA WebhookNoPolicy ==
    ASSUME NEW file, NEW k, NEW v
    PROVE  NoPolicy(<<WebhookFinding(file, k, v)>>)
  <1> DEFINE f == WebhookFinding(file, k, v)
  <1>1. DOMAIN f = AuthFields /\ f.rule # "AUTH-WEAK-POLICY"
    BY DEF WebhookFinding, AuthFinding, AuthFields
  <1> HIDE DEF f
  <1>2. NoPolicy(<<f>>)
    BY <1>1, NoPolicyShort
  <1> QED BY <1>2 DEF f

\* The findings of length policies in fs, if they are those of the weak checks
\* of a file.
PolicyFound(file, fs) ==
    /\ IsList(fs)
    /\ \A k \in DOMAIN fs : DOMAIN fs[k] = AuthFields
    /\ \A k \in DOMAIN fs : fs[k].rule = "AUTH-WEAK-POLICY" =>
          \E l \in DOMAIN Places(file) : WeakPlace(Places(file)[l]) /\ fs[k].at = Places(file)[l].at
    /\ \A l \in DOMAIN Places(file) : WeakPlace(Places(file)[l]) =>
          \E k \in DOMAIN fs : fs[k].rule = "AUTH-WEAK-POLICY" /\ fs[k].at = Places(file)[l].at

\* What detectWeakPasswordPolicy adds for one check.
PolicyFlag(p) ==
    <<AuthFinding("AUTH-WEAK-POLICY", "CRITICAL", p.at, "")>>
      \o IF p.s.to = "bytes" THEN <<AuthFinding("AUTH-BYTE-COUNT", "MEDIUM", p.at, "")>> ELSE <<>>

\* One of its findings is the policy's, and all are at the check.
LEMMA PolicyFlagged ==
    ASSUME NEW p
    PROVE  /\ IsList(PolicyFlag(p))
           /\ \A k \in DOMAIN PolicyFlag(p) : DOMAIN PolicyFlag(p)[k] = AuthFields /\ PolicyFlag(p)[k].at = p.at
           /\ \E k \in DOMAIN PolicyFlag(p) : PolicyFlag(p)[k].rule = "AUTH-WEAK-POLICY"
  <1> DEFINE f == AuthFinding("AUTH-WEAK-POLICY", "CRITICAL", p.at, "")
             g == AuthFinding("AUTH-BYTE-COUNT", "MEDIUM", p.at, "")
             t == IF p.s.to = "bytes" THEN <<g>> ELSE <<>>
  <1>1. /\ DOMAIN f = AuthFields /\ f.at = p.at /\ f.rule = "AUTH-WEAK-POLICY"
        /\ DOMAIN g = AuthFields /\ g.at = p.at
    BY DEF AuthFinding, AuthFields
  <1>2. PolicyFlag(p) = <<f>> \o t
    BY DEF PolicyFlag
  <1> HIDE DEF f, g
  <1>3. IsList(<<f>>) /\ DOMAIN <<f>> = {1} /\ <<f>>[1] = f
    BY ShortLists
  <1>4. IsList(<<>>) /\ DOMAIN <<>> = {} /\ IsList(<<g>>) /\ DOMAIN <<g>> = {1} /\ <<g>>[1] = g
    BY ShortLists
  <1>5. IsList(t) /\ \A k \in DOMAIN t : DOMAIN t[k] = AuthFields /\ t[k].at = p.at
    BY <1>1, <1>4
  <1> DEFINE s == <<f>>
  <1> HIDE DEF s, t
  <1>6. IsList(s) /\ IsList(t)
    BY <1>3, <1>5 DEF s
  <1>7. /\ IsList(s \o t)
        /\ \A k \in DOMAIN s : k \in DOMAIN (s \o t) /\ (s \o t)[k] = s[k]
        /\ \A k \in DOMAIN (s \o t) :
                 \/ k \in DOMAIN s /\ (s \o t)[k] = s[k]
                 \/ k - Len(s) \in DOMAIN t /\ (s \o t)[k] = t[k - Len(s)]
    BY <1>6, ListJoin
  <1>8. DOMAIN s = {1} /\ s[1] = f /\ PolicyFlag(p) = s \o t
    BY <1>2, <1>3 DEF s
  <1> QED BY <1>1, <1>5, <1>7, <1>8

\* detectWeakPasswordPolicy flags the weak checks and no other.
LEMMA PolicyDetected ==
    ASSUME NEW file, AuthParsed(file)
    PROVE  PolicyFound(file, DetectWeakPasswordPolicy(file))
  <1> DEFINE checks == PlacesOf(file, {"len"})
             S == {i \in DOMAIN checks : IsWeakThreshold(NormalizeLenComparison(checks[i].s), checks[i].s.n)}
             weak == Where(checks, S)
             rows == [k \in DOMAIN weak |-> PolicyFlag(weak[k])]
             all == Places(file)
  <1>1. DetectWeakPasswordPolicy(file) = FlattenSeq(rows)
    BY DEF DetectWeakPasswordPolicy, PolicyFlag
  <1>2. /\ IsList(checks)
        /\ \A i \in DOMAIN checks : \E l \in DOMAIN all : checks[i] = all[l] /\ all[l].s.op \in {"len"}
        /\ \A l \in DOMAIN all : all[l].s.op \in {"len"} => \E i \in DOMAIN checks : checks[i] = all[l]
    BY PlacesOfKind
  <1>3. S \in SUBSET DOMAIN checks
    OBVIOUS
  <1>4. /\ \A i \in S : \E l \in DOMAIN all : checks[i] = all[l] /\ WeakPlace(all[l])
        /\ \A l \in DOMAIN all : WeakPlace(all[l]) => \E i \in S : checks[i] = all[l]
    BY <1>2 DEF WeakPlace
  <1> HIDE DEF checks, S
  <1>5. /\ IsList(weak)
        /\ \A k \in DOMAIN weak : \E i \in S : weak[k] = checks[i]
        /\ \A i \in S : \E k \in DOMAIN weak : weak[k] = checks[i]
    BY <1>2, <1>3, ListWhere
  <1>6. /\ \A k \in DOMAIN weak : \E l \in DOMAIN all : weak[k] = all[l] /\ WeakPlace(all[l])
        /\ \A l \in DOMAIN all : WeakPlace(all[l]) => \E k \in DOMAIN weak : weak[k] = all[l]
    BY <1>4, <1>5
  <1> HIDE DEF weak
  <1>7. Len(weak) \in Nat /\ DOMAIN weak = 1..Len(weak)
    BY <1>5, ListFacts
  <1>8. /\ DOMAIN rows = 1..Len(weak) /\ rows = [k \in DOMAIN rows |-> rows[k]]
        /\ \A k \in DOMAIN rows : k \in DOMAIN weak /\ rows[k] = PolicyFlag(weak[k])
        /\ DOMAIN rows = DOMAIN weak
    BY <1>7
  <1> HIDE DEF rows
  <1>9. IsList(rows)
    BY <1>7, <1>8, FunctionIsList
  <1>10. \A k \in DOMAIN rows : IsList(rows[k])
    BY <1>8, PolicyFlagged
  <1> DEFINE fs == FlattenSeq(rows)
  <1>11. /\ IsList(fs)
         /\ \A k \in DOMAIN fs : \E i \in DOMAIN rows : \E j \in DOMAIN rows[i] : fs[k] = rows[i][j]
         /\ \A i \in DOMAIN rows : \A j \in DOMAIN rows[i] : \E k \in DOMAIN fs : fs[k] = rows[i][j]
    BY <1>9, <1>10, ListFlatten
  <1> HIDE DEF fs, all
  <1>12. \A i \in DOMAIN rows :
            /\ \A j \in DOMAIN rows[i] : DOMAIN rows[i][j] = AuthFields /\ rows[i][j].at = weak[i].at
            /\ \E j \in DOMAIN rows[i] : rows[i][j].rule = "AUTH-WEAK-POLICY"
    <2> SUFFICES ASSUME NEW i \in DOMAIN rows
                 PROVE  /\ \A j \in DOMAIN rows[i] : DOMAIN rows[i][j] = AuthFields /\ rows[i][j].at = weak[i].at
                        /\ \E j \in DOMAIN rows[i] : rows[i][j].rule = "AUTH-WEAK-POLICY"
      OBVIOUS
    <2> DEFINE p == weak[i]
    <2>1. rows[i] = PolicyFlag(p)
      BY <1>8
    <2> HIDE DEF p
    <2>2. /\ \A k \in DOMAIN PolicyFlag(p) : DOMAIN PolicyFlag(p)[k] = AuthFields /\ PolicyFlag(p)[k].at = p.at
          /\ \E k \in DOMAIN PolicyFlag(p) : PolicyFlag(p)[k].rule = "AUTH-WEAK-POLICY"
      BY PolicyFlagged
    <2>3. /\ \A j \in DOMAIN rows[i] : DOMAIN rows[i][j] = AuthFields /\ rows[i][j].at = p.at
          /\ \E j \in DOMAIN rows[i] : rows[i][j].rule = "AUTH-WEAK-POLICY"
      BY <2>1, <2>2
    <2> QED BY <2>3 DEF p
  <1>13. ASSUME NEW k \in DOMAIN fs
         PROVE  /\ DOMAIN fs[k] = AuthFields
                /\ \E l \in DOMAIN all : WeakPlace(all[l]) /\ fs[k].at = all[l].at
    <2>1. PICK i \in DOMAIN rows : \E j \in DOMAIN rows[i] : fs[k] = rows[i][j]
      BY <1>11
    <2>2. DOMAIN fs[k] = AuthFields /\ fs[k].at = weak[i].at /\ i \in DOMAIN weak
      BY <1>8, <1>12, <2>1
    <2> QED BY <1>6, <2>2
  <1>14. ASSUME NEW l \in DOMAIN all, WeakPlace(all[l])
         PROVE  \E k \in DOMAIN fs : fs[k].rule = "AUTH-WEAK-POLICY" /\ fs[k].at = all[l].at
    <2>1. PICK i \in DOMAIN weak : weak[i] = all[l]
      BY <1>6, <1>14
    <2>2. i \in DOMAIN rows
      BY <1>8
    <2>3. PICK j \in DOMAIN rows[i] : rows[i][j].rule = "AUTH-WEAK-POLICY" /\ rows[i][j].at = weak[i].at
      BY <1>12, <2>2
    <2>4. PICK k \in DOMAIN fs : fs[k] = rows[i][j]
      BY <1>11, <2>2
    <2> QED BY <2>1, <2>3, <2>4
  <1>15. PolicyFound(file, fs)
    BY <1>11, <1>13, <1>14 DEF PolicyFound, all
  <1> QED BY <1>1, <1>15 DEF fs

------------------------------------------------------------------------------
(* Thresholds.                                                             *)

\* isWeakThreshold knows exactly the checks that let fewer than twelve
\* characters through.
LEMMA ThresholdExact ==
    ASSUME NEW s, s.n \in Nat, s.n > 0, s.how \in {"<", "<=", ">", ">="}
    PROVE  IsWeakThreshold(NormalizeLenComparison(s), s.n) <=> \E len \in 0..11 : LengthAccepts(s, len)
  <1> DEFINE n == s.n
             op == NormalizeLenComparison(s)
             some == \E len \in 0..11 : LengthAccepts(s, len)
  <1>1. /\ op \in {"<", "<=", ">", ">="}
        /\ \A len : LengthHolds(s, len) <=>
              CASE op = "<" -> len < n [] op = "<=" -> len <= n [] op = ">" -> len > n [] op = ">=" -> len >= n
    <2>1. CASE s.on = "literal"
      <3>1. /\ s.how = "<" => op = ">" /\ \A len : LengthHolds(s, len) <=> n < len
            /\ s.how = "<=" => op = ">=" /\ \A len : LengthHolds(s, len) <=> n <= len
            /\ s.how = ">" => op = "<" /\ \A len : LengthHolds(s, len) <=> n > len
            /\ s.how = ">=" => op = "<=" /\ \A len : LengthHolds(s, len) <=> n >= len
        BY <2>1 DEF NormalizeLenComparison, FlipOp, LengthHolds
      <3> QED BY <3>1
    <2>2. CASE s.on # "literal"
      <3>1. /\ op = s.how
            /\ s.how = "<" => \A len : LengthHolds(s, len) <=> len < n
            /\ s.how = "<=" => \A len : LengthHolds(s, len) <=> len <= n
            /\ s.how = ">" => \A len : LengthHolds(s, len) <=> len > n
            /\ s.how = ">=" => \A len : LengthHolds(s, len) <=> len >= n
        BY <2>2 DEF NormalizeLenComparison, LengthHolds
      <3> QED BY <3>1
    <2> QED BY <2>1, <2>2
  <1> HIDE DEF op
  <1>2. CASE op = "<"
    <2>1. \A len \in 0..11 : LengthAccepts(s, len) <=> len >= n
      BY <1>1, <1>2 DEF LengthAccepts
    <2>2. (\E len \in 0..11 : len >= n) <=> n < 12
      OBVIOUS
    <2> QED BY <1>2, <2>1, <2>2 DEF IsWeakThreshold, op
  <1>3. CASE op = "<="
    <2>1. \A len \in 0..11 : LengthAccepts(s, len) <=> len > n
      BY <1>1, <1>3 DEF LengthAccepts
    <2>2. (\E len \in 0..11 : len > n) <=> n < 11
      OBVIOUS
    <2> QED BY <1>3, <2>1, <2>2 DEF IsWeakThreshold, op
  <1>4. CASE op = ">"
    <2>1. \A len \in 0..11 : LengthAccepts(s, len) <=> len > n
      BY <1>1, <1>4 DEF LengthAccepts
    <2>2. (\E len \in 0..11 : len > n) <=> n < 11
      OBVIOUS
    <2> QED BY <1>4, <2>1, <2>2 DEF IsWeakThreshold, op
  <1>5. CASE op = ">="
    <2>1. \A len \in 0..11 : LengthAccepts(s, len) <=> len >= n
      BY <1>1, <1>5 DEF LengthAccepts
    <2>2. (\E len \in 0..11 : len >= n) <=> n < 12
      OBVIOUS
    <2> QED BY <1>5, <2>1, <2>2 DEF IsWeakThreshold, op
  <1> QED BY <1>1, <1>2, <1>3, <1>4, <1>5

------------------------------------------------------------------------------
(* One scan.                                                               *)

AuthWork == {"file", "decl", "dir", "cache", "findings"}

\* Every finding about a length policy is of a weak check of a file scanned.
PolicyFlaggedWeak(files, w) ==
    \A k \in DOMAIN w.findings : w.findings[k].rule = "AUTH-WEAK-POLICY" =>
        \E i \in DOMAIN files : \E l \in DOMAIN Places(files[i]) :
            /\ ~files[i].generated
            /\ WeakPlace(Places(files[i])[l]) /\ w.findings[k].at = Places(files[i])[l].at

\* The weak checks of file i have been flagged.
PolicyReported(files, w, i) ==
    ~files[i].generated =>
        \A l \in DOMAIN Places(files[i]) : WeakPlace(Places(files[i])[l]) =>
            \E k \in DOMAIN w.findings :
                w.findings[k].rule = "AUTH-WEAK-POLICY" /\ w.findings[k].at = Places(files[i])[l].at

\* So have those of every file that the policy pass has been through.
PolicyUpTo(files, w, last) == \A i \in DOMAIN files : i <= last => PolicyReported(files, w, i)

\* The last of those files.
PolicyLast(at, w) == IF at \in {"mfa", "webhook", "cover"} THEN w.file ELSE w.file - 1

\* The scan is in a file that has been parsed and is not generated.
AuthInFile(files, at, w) ==
    at \in {"policy", "mfa", "webhook", "cover"} => w.file \in DOMAIN files /\ ~files[w.file].generated

\* The inductive invariant of the length policies.
AuthPolicyInv ==
    scanner = "auth" =>
        /\ project \in AuthSources
        /\ DOMAIN work = AuthWork /\ work.file \in Nat \ {0} /\ IsList(work.findings)
        /\ pc \in {"start", "policy", "mfa", "webhook", "cover", "done", "failed"}
        /\ AuthInFile(project.dirs[1].files, pc, work)
        /\ PolicyFlaggedWeak(project.dirs[1].files, work)
        /\ pc # "failed" => PolicyUpTo(project.dirs[1].files, work, PolicyLast(pc, work))
        /\ pc = "done" => work.file > Len(project.dirs[1].files)

\* The files of a project are a list of parsed files.
LEMMA AuthSourcesParsed ==
    ASSUME project \in AuthSources
    PROVE  /\ IsList(project.dirs[1].files)
           /\ \A i \in DOMAIN project.dirs[1].files : AuthParsed(project.dirs[1].files[i])
  <1> DEFINE files == project.dirs[1].files
             dirs == project.dirs
  <1>0. project.dirs[1] \in Range(project.dirs)
    <2>1. IsList(dirs) /\ dirs # <<>>
      BY AuthSourcesAssumption
    <2> HIDE DEF dirs
    <2>2. dirs \in Seq(Range(dirs))
      BY <2>1, ListFacts
    <2>3. 1 \in DOMAIN dirs
      BY <2>1, <2>2
    <2> QED BY <2>3 DEF Range, dirs
  <1>1. /\ IsList(files)
        /\ \A file \in Range(files) :
              /\ IsList(file.decls)
              /\ \A d \in Range(file.decls) : IsList(d.body) /\ \A s \in Range(d.body) : s.n \in Nat
    BY <1>0, AuthSourcesAssumption
  <1>2. ASSUME NEW i \in DOMAIN files PROVE AuthParsed(files[i])
    <2>1. files[i] \in Range(files)
      BY DEF Range
    <2> DEFINE file == files[i]
    <2>2. /\ IsList(file.decls)
          /\ \A d \in Range(file.decls) : IsList(d.body) /\ \A s \in Range(d.body) : s.n \in Nat
      BY <1>1, <2>1
    <2> HIDE DEF file
    <2>3. AuthParsed(file)
      BY <2>2 DEF AuthParsed, Range
    <2> QED BY <2>3 DEF file
  <1> QED BY <1>1, <1>2

\* Findings of another kind disturb nothing.
LEMMA OtherFindingsAdded ==
    ASSUME NEW files, NEW w, NEW v, NEW fs, NEW last,
           IsList(w.findings), NoPolicy(fs), v.findings = w.findings \o fs,
           PolicyFlaggedWeak(files, w), PolicyUpTo(files, w, last)
    PROVE  IsList(v.findings) /\ PolicyFlaggedWeak(files, v) /\ PolicyUpTo(files, v, last)
  <1> DEFINE s == w.findings
             t == v.findings
  <1>1. IsList(fs) /\ \A k \in DOMAIN fs : fs[k].rule # "AUTH-WEAK-POLICY"
    BY DEF NoPolicy
  <1> DEFINE u == s \o fs
  <1>2. Follows(u, s, fs)
    BY <1>1, JoinFollows
  <1>7. t = u
    OBVIOUS
  <1> HIDE DEF s, t, u
  <1>3. /\ IsList(t)
        /\ \A k \in DOMAIN s : k \in DOMAIN t /\ t[k] = s[k]
        /\ \A k \in DOMAIN t : t[k].rule = "AUTH-WEAK-POLICY" => k \in DOMAIN s /\ t[k] = s[k]
    <2>1. IsList(u) /\ \A k \in DOMAIN s : k \in DOMAIN u /\ u[k] = s[k]
      BY <1>2 DEF Follows
    <2>2. \A k \in DOMAIN u : \/ k \in DOMAIN s /\ u[k] = s[k]
                              \/ k - Len(s) \in DOMAIN fs /\ u[k] = fs[k - Len(s)]
      BY <1>2 DEF Follows
    <2>3. ASSUME NEW k \in DOMAIN u, u[k].rule = "AUTH-WEAK-POLICY"
          PROVE  k \in DOMAIN s /\ u[k] = s[k]
      BY <1>1, <2>2, <2>3
    <2> QED BY <1>7, <2>1, <2>3
  <1>4. PolicyFlaggedWeak(files, v)
    BY <1>3 DEF PolicyFlaggedWeak, s, t
  <1>5. \A i \in DOMAIN files : PolicyReported(files, w, i) => PolicyReported(files, v, i)
    BY <1>3 DEF PolicyReported, s, t
  <1>6. PolicyUpTo(files, v, last)
    BY <1>5 DEF PolicyUpTo
  <1> QED BY <1>3, <1>4, <1>6 DEF t

\* The findings of the policy pass settle its file.
LEMMA PolicyFindingsAdded ==
    ASSUME NEW files, NEW w, NEW v, NEW fs, NEW i \in DOMAIN files, DOMAIN files \subseteq Int,
           ~files[i].generated, IsList(w.findings), PolicyFound(files[i], fs), v.findings = w.findings \o fs,
           PolicyFlaggedWeak(files, w), PolicyUpTo(files, w, i - 1)
    PROVE  IsList(v.findings) /\ PolicyFlaggedWeak(files, v) /\ PolicyUpTo(files, v, i)
  <1> DEFINE s == w.findings
             t == v.findings
  <1>1. IsList(fs) /\ IsList(s) /\ t = s \o fs
    BY DEF PolicyFound
  <1> HIDE DEF s, t
  <1>2. /\ IsList(s \o fs)
        /\ \A k \in DOMAIN s : k \in DOMAIN (s \o fs) /\ (s \o fs)[k] = s[k]
        /\ \A k \in DOMAIN fs : Len(s) + k \in DOMAIN (s \o fs) /\ (s \o fs)[Len(s) + k] = fs[k]
        /\ \A k \in DOMAIN (s \o fs) :
                 \/ k \in DOMAIN s /\ (s \o fs)[k] = s[k]
                 \/ k - Len(s) \in DOMAIN fs /\ (s \o fs)[k] = fs[k - Len(s)]
    BY ONLY <1>1, ListJoin
  <1>3. /\ IsList(t)
        /\ \A k \in DOMAIN s : \E j \in DOMAIN t : t[j] = s[k]
        /\ \A k \in DOMAIN fs : \E j \in DOMAIN t : t[j] = fs[k]
        /\ \A k \in DOMAIN t : (\E j \in DOMAIN s : t[k] = s[j]) \/ (\E j \in DOMAIN fs : t[k] = fs[j])
    BY ONLY <1>1, <1>2
  <1> DEFINE places(m) == Places(files[m])
             weak(r) == r = "AUTH-WEAK-POLICY"
  <1>4. PolicyFlaggedWeak(files, v)
    <2>1. ASSUME NEW k \in DOMAIN t, weak(t[k].rule)
          PROVE  \E m \in DOMAIN files : \E l \in DOMAIN places(m) :
                    ~files[m].generated /\ WeakPlace(places(m)[l]) /\ t[k].at = places(m)[l].at
      <3>1. CASE \E j \in DOMAIN s : t[k] = s[j]
        <4>1. PICK j \in DOMAIN s : t[k] = s[j]
          BY <3>1
        <4> QED BY <2>1, <4>1 DEF PolicyFlaggedWeak, s
      <3>2. CASE \E j \in DOMAIN fs : t[k] = fs[j]
        <4>1. PICK j \in DOMAIN fs : t[k] = fs[j]
          BY <3>2
        <4>2. fs[j].rule = "AUTH-WEAK-POLICY"
          BY <2>1, <4>1
        <4>3. \E l \in DOMAIN places(i) : WeakPlace(places(i)[l]) /\ fs[j].at = places(i)[l].at
          BY <4>2 DEF PolicyFound
        <4> QED BY <4>1, <4>3
      <3> QED BY <1>3, <3>1, <3>2
    <2> QED BY <2>1 DEF PolicyFlaggedWeak, t
  <1>5. ASSUME NEW m \in DOMAIN files, PolicyReported(files, w, m) PROVE PolicyReported(files, v, m)
    <2> SUFFICES ASSUME ~files[m].generated, NEW l \in DOMAIN places(m), WeakPlace(places(m)[l])
                 PROVE  \E k \in DOMAIN t : weak(t[k].rule) /\ t[k].at = places(m)[l].at
      BY DEF PolicyReported, t
    <2>1. PICK k \in DOMAIN s : weak(s[k].rule) /\ s[k].at = places(m)[l].at
      BY <1>5 DEF PolicyReported, s
    <2>2. PICK j \in DOMAIN t : t[j] = s[k]
      BY <1>3
    <2> QED BY <2>1, <2>2
  <1>6. PolicyReported(files, v, i)
    <2> SUFFICES ASSUME NEW l \in DOMAIN places(i), WeakPlace(places(i)[l])
                 PROVE  \E k \in DOMAIN t : weak(t[k].rule) /\ t[k].at = places(i)[l].at
      BY DEF PolicyReported, t
    <2>1. PICK k \in DOMAIN fs : weak(fs[k].rule) /\ fs[k].at = places(i)[l].at
      BY DEF PolicyFound
    <2>2. PICK j \in DOMAIN t : t[j] = fs[k]
      BY <1>3
    <2> QED BY <2>1, <2>2
  <1>7. \A m \in DOMAIN files : m <= i => m = i \/ m <= i - 1
    OBVIOUS
  <1>8. PolicyUpTo(files, v, i)
    BY <1>5, <1>6, <1>7 DEF PolicyUpTo
  <1> QED BY <1>3, <1>4, <1>8 DEF t

\* It holds before the first file.
LEMMA AuthPolicyInitially ==
    ASSUME Init PROVE AuthPolicyInv
  <1> SUFFICES ASSUME scanner = "auth" PROVE AuthPolicyInv
    BY DEF AuthPolicyInv
  <1> DEFINE files == project.dirs[1].files
  <1>1. project \in AuthSources /\ work = AuthIdle /\ pc = "start"
    BY DEF Init, SqlInit, AuditInit, AuthInit, PanInit, Called
  <1>2. DOMAIN work = AuthWork /\ work.file = 1 /\ work.findings = <<>>
    BY <1>1 DEF AuthIdle, AuthWork
  <1>3. IsList(<<>>) /\ DOMAIN <<>> = {}
    BY ShortLists
  <1>4. IsList(files)
    BY <1>1, AuthSourcesParsed
  <1> HIDE DEF files
  <1>5. DOMAIN files = 1..Len(files) /\ Len(files) \in Nat
    BY <1>4, ListFacts
  <1>6. PolicyFlaggedWeak(files, work)
    BY <1>2, <1>3 DEF PolicyFlaggedWeak
  <1>7. PolicyLast(pc, work) = 0
    BY <1>1, <1>2 DEF PolicyLast
  <1>8. PolicyUpTo(files, work, 0)
    BY <1>5 DEF PolicyUpTo
  <1>9. AuthInFile(files, pc, work)
    BY <1>1 DEF AuthInFile
  <1> QED BY <1>1, <1>2, <1>3, <1>6, <1>7, <1>8, <1>9 DEF AuthPolicyInv, files

\* Steps that keep the file, the findings and the pass, or add findings of
\* another kind.
LEMMA AuthPolicyKept ==
    ASSUME AuthPolicyInv, scanner = "auth", scanner' = scanner, project' = project,
           DOMAIN work' = AuthWork, work'.file = work.file,
           NEW fs, NoPolicy(fs), work'.findings = work.findings \o fs,
           \/ pc = "start" /\ pc' = "policy" /\ work.file \in DOMAIN project.dirs[1].files
              /\ ~project.dirs[1].files[work.file].generated
           \/ pc \in {"mfa", "webhook", "cover"} /\ pc' \in {"webhook", "cover"}
    PROVE  AuthPolicyInv'
  <1> DEFINE files == project.dirs[1].files
             last == PolicyLast(pc, work)
  <1>1. /\ project \in AuthSources
        /\ DOMAIN work = AuthWork /\ work.file \in Nat \ {0} /\ IsList(work.findings)
        /\ AuthInFile(files, pc, work) /\ PolicyFlaggedWeak(files, work)
        /\ pc # "failed" => PolicyUpTo(files, work, last)
    BY DEF AuthPolicyInv
  <1>2. PolicyLast(pc', work') = last /\ pc # "failed" /\ pc' \notin {"failed", "done"}
        /\ pc' \in {"start", "policy", "mfa", "webhook", "cover", "done", "failed"}
    BY DEF PolicyLast
  <1>3. AuthInFile(files, pc', work')
    BY <1>1 DEF AuthInFile
  <1>4. files' = files
    OBVIOUS
  <1> HIDE DEF files, last
  <1> DEFINE w == work
             v == work'
  <1>5. /\ IsList(w.findings) /\ v.findings = w.findings \o fs
        /\ PolicyFlaggedWeak(files, w) /\ PolicyUpTo(files, w, last)
    BY <1>1, <1>2
  <1>6. v.file \in Nat \ {0} /\ DOMAIN v = AuthWork
    BY <1>1
  <1> HIDE DEF w, v
  <1>7. IsList(v.findings) /\ PolicyFlaggedWeak(files, v) /\ PolicyUpTo(files, v, last)
    BY <1>5, OtherFindingsAdded
  <1>8. project' \in AuthSources /\ scanner' = "auth"
    BY <1>1
  <1> QED BY <1>2, <1>3, <1>4, <1>6, <1>7, <1>8 DEF AuthPolicyInv, files, v

\* The number of a place.
LEMMA PlaceNumber ==
    ASSUME NEW file, AuthParsed(file), NEW l \in DOMAIN Places(file)
    PROVE  Places(file)[l].s.n \in Nat
  <1> DEFINE p == Places(file)[l]
  <1>1. PICK k \in DOMAIN file.decls : \E j \in DOMAIN file.decls[k].body : PlaceAt(file, p, k, j)
    BY PlacesListed
  <1>2. PICK j \in DOMAIN file.decls[k].body : PlaceAt(file, p, k, j)
    BY <1>1
  <1> HIDE DEF p
  <1>3. p.s = file.decls[k].body[j]
    BY <1>2 DEF PlaceAt
  <1>4. file.decls[k].body[j].n \in Nat
    BY DEF AuthParsed
  <1> QED BY <1>3, <1>4 DEF p

\* Steps that leave the findings alone.
LEMMA NothingAdded ==
    ASSUME NEW fs, IsList(fs)
    PROVE  NoPolicy(<<>>) /\ fs = fs \o <<>>
  <1>1. fs \in Seq(Range(fs))
    BY ListFacts
  <1>2. IsList(<<>>) /\ DOMAIN <<>> = {}
    BY ShortLists
  <1> QED BY <1>1, <1>2 DEF NoPolicy

\* Going to the next file.
LEMMA NextFileSettled ==
    ASSUME AuthPolicyInv, scanner = "auth", scanner' = scanner, project' = project, pc' = "start",
           work' = [work EXCEPT !.file = @ + 1],
           \/ pc = "webhook"
           \/ /\ pc = "start" /\ work.file \in DOMAIN project.dirs[1].files
              /\ project.dirs[1].files[work.file].generated
    PROVE  AuthPolicyInv'
  <1> DEFINE files == project.dirs[1].files
  <1>1. /\ project \in AuthSources
        /\ DOMAIN work = AuthWork /\ work.file \in Nat \ {0} /\ IsList(work.findings)
        /\ PolicyFlaggedWeak(files, work)
        /\ PolicyUpTo(files, work, PolicyLast(pc, work))
    BY DEF AuthPolicyInv
  <1>2. DOMAIN work' = AuthWork /\ work'.file = work.file + 1 /\ work'.findings = work.findings
    BY <1>1 DEF AuthWork
  <1>3. work'.file \in Nat \ {0} /\ work'.file - 1 = work.file
    BY <1>1, <1>2
  <1>4. PolicyLast(pc', work') = work.file
    BY <1>3 DEF PolicyLast
  <1>5. IsList(files)
    BY <1>1, AuthSourcesParsed
  <1>6. files' = files
    OBVIOUS
  <1>7. /\ \/ PolicyLast(pc, work) = work.file
           \/ PolicyLast(pc, work) = work.file - 1 /\ files[work.file].generated
    BY DEF PolicyLast
  <1> HIDE DEF files
  <1>8. DOMAIN files = 1..Len(files) /\ Len(files) \in Nat
    BY <1>5, ListFacts
  <1>9. PolicyUpTo(files, work, work.file)
    <2>1. CASE PolicyLast(pc, work) = work.file
      BY <1>1, <2>1
    <2>2. CASE PolicyLast(pc, work) = work.file - 1 /\ files[work.file].generated
      <3>1. PolicyReported(files, work, work.file)
        BY <2>2 DEF PolicyReported
      <3>2. \A i \in DOMAIN files : i <= work.file => i = work.file \/ i <= work.file - 1
        BY <1>1, <1>8
      <3> QED BY <1>1, <2>2, <3>1, <3>2 DEF PolicyUpTo
    <2> QED BY <1>7, <2>1, <2>2
  <1> DEFINE w == work
             v == work'
  <1>10. v.findings = w.findings
    BY <1>2
  <1>11. PolicyFlaggedWeak(files, v) /\ PolicyUpTo(files, v, w.file)
    <2>1. PolicyFlaggedWeak(files, w) /\ PolicyUpTo(files, w, w.file)
      BY <1>1, <1>9
    <2> HIDE DEF w, v
    <2> QED BY <1>10, <2>1 DEF PolicyFlaggedWeak, PolicyUpTo, PolicyReported
  <1>12. AuthInFile(files, pc', work') /\ IsList(work'.findings)
    BY <1>1, <1>2 DEF AuthInFile
  <1>13. project' \in AuthSources /\ scanner' = "auth" /\ pc' \notin {"failed", "done"}
         /\ pc' \in {"start", "policy", "mfa", "webhook", "cover", "done", "failed"}
    BY <1>1
  <1> QED BY <1>2, <1>3, <1>4, <1>6, <1>11, <1>12, <1>13 DEF AuthPolicyInv, files

\* Every pass preserves it.
LEMMA AuthPolicyInductive ==
    ASSUME AuthPolicyInv, [Next]_callVars
    PROVE  AuthPolicyInv'
  <1> SUFFICES ASSUME scanner' = "auth" PROVE AuthPolicyInv'
    BY DEF AuthPolicyInv
  <1> DEFINE files == project.dirs[1].files
  <1>1. scanner = "auth" /\ scanner' = scanner
    BY ScannerStays
  <1>2. /\ project \in AuthSources
        /\ DOMAIN work = AuthWork /\ work.file \in Nat \ {0} /\ IsList(work.findings)
        /\ pc \in {"start", "policy", "mfa", "webhook", "cover", "done", "failed"}
        /\ AuthInFile(files, pc, work) /\ PolicyFlaggedWeak(files, work)
        /\ pc # "failed" => PolicyUpTo(files, work, PolicyLast(pc, work))
    BY <1>1 DEF AuthPolicyInv
  <1>3. IsList(files) /\ \A i \in DOMAIN files : AuthParsed(files[i])
    BY <1>2, AuthSourcesParsed
  <1>4. DOMAIN files = 1..Len(files) /\ Len(files) \in Nat
    BY <1>3, ListFacts
  <1>5. NoPolicy(<<>>) /\ work.findings = work.findings \o <<>>
    BY <1>2, NothingAdded
  <1>6. work.file <= Len(files) => work.file \in DOMAIN files
    BY <1>2, <1>4
  <1>7. CASE AuthParse
    <2>1. CASE work.file > Len(files) /\ project' = project /\ pc = "start" /\ pc' = "done" /\ work' = work
      <3>1. PolicyLast(pc', work') = PolicyLast(pc, work) /\ AuthInFile(files, pc', work')
        BY <2>1 DEF PolicyLast, AuthInFile
      <3> QED BY <1>1, <1>2, <2>1, <3>1 DEF AuthPolicyInv
    <2>2. CASE project' = project /\ pc' = "failed" /\ work' = [work EXCEPT !.findings = <<>>]
      <3>1. DOMAIN work' = AuthWork /\ work'.file = work.file /\ work'.findings = <<>>
        BY <1>2, <2>2 DEF AuthWork
      <3>2. IsList(<<>>) /\ DOMAIN <<>> = {}
        BY ShortLists
      <3>3. PolicyFlaggedWeak(files, work') /\ AuthInFile(files, pc', work')
        BY <2>2, <3>1, <3>2 DEF PolicyFlaggedWeak, AuthInFile
      <3> QED BY <1>1, <1>2, <2>2, <3>1, <3>2, <3>3 DEF AuthPolicyInv
    <2>3. CASE /\ work.file <= Len(files) /\ AuthFile.generated
               /\ project' = project /\ pc = "start" /\ pc' = "start" /\ work' = [work EXCEPT !.file = @ + 1]
      <3>1. work.file \in DOMAIN files /\ files[work.file].generated
        BY <1>6, <2>3 DEF AuthFile
      <3> QED BY <1>1, <2>3, <3>1, NextFileSettled
    <2>4. CASE /\ work.file <= Len(files) /\ ~AuthFile.generated
               /\ project' = project /\ pc = "start" /\ pc' = "policy"
               /\ work' = Add(DetectHardcodedPasswords(AuthFile))
      <3> DEFINE fs == DetectHardcodedPasswords(AuthFile)
      <3>1. work.file \in DOMAIN files /\ ~files[work.file].generated /\ AuthFile = files[work.file]
        BY <1>6, <2>4 DEF AuthFile
      <3>2. AuthParsed(AuthFile)
        BY <1>3, <3>1
      <3>3. NoPolicy(fs)
        BY <3>2, PasswordsNoPolicy
      <3>4. DOMAIN work' = AuthWork /\ work'.file = work.file /\ work'.findings = work.findings \o fs
        BY <1>2, <2>4 DEF Add, AuthWork
      <3> HIDE DEF fs
      <3> QED BY <1>1, <2>4, <3>1, <3>3, <3>4, AuthPolicyKept
    <2> QED BY <1>7, <2>1, <2>2, <2>3, <2>4 DEF AuthParse, Pass
  <1>8. CASE AuthPolicy
    <2> DEFINE fs == DetectWeakPasswordPolicy(AuthFile)
               i == work.file
               w == work
               v == work'
    <2>1. project' = project /\ pc = "policy" /\ pc' = "mfa" /\ work' = Add(fs)
      BY <1>8 DEF AuthPolicy, Pass
    <2>2. i \in DOMAIN files /\ ~files[i].generated /\ AuthFile = files[i]
      BY <1>2, <2>1 DEF AuthInFile, AuthFile
    <2>3. AuthParsed(files[i])
      BY <1>3, <2>2
    <2>4. PolicyFound(files[i], fs)
      BY <2>2, <2>3, PolicyDetected
    <2>5. DOMAIN v = AuthWork /\ v.file = w.file /\ v.findings = w.findings \o fs
      BY <1>2, <2>1 DEF Add, AuthWork
    <2>6. PolicyUpTo(files, w, i - 1) /\ PolicyFlaggedWeak(files, w) /\ IsList(w.findings)
      BY <1>2, <2>1 DEF PolicyLast
    <2>7. DOMAIN files \subseteq Int
      BY <1>4
    <2>8. files' = files
      BY <2>1
    <2> HIDE DEF fs, files, w, v, i
    <2>9. IsList(v.findings) /\ PolicyFlaggedWeak(files, v) /\ PolicyUpTo(files, v, i)
      BY <2>2, <2>4, <2>5, <2>6, <2>7, PolicyFindingsAdded
    <2>10. PolicyLast(pc', v) = i /\ AuthInFile(files, pc', v)
      BY <2>1, <2>2, <2>5 DEF PolicyLast, AuthInFile, i, w
    <2>11. project' \in AuthSources /\ scanner' = "auth" /\ pc' \notin {"failed", "done"}
           /\ pc' \in {"start", "policy", "mfa", "webhook", "cover", "done", "failed"} /\ v.file \in Nat \ {0}
      BY <1>1, <1>2, <2>1, <2>5 DEF w
    <2> QED BY <2>5, <2>8, <2>9, <2>10, <2>11 DEF AuthPolicyInv, files, v
  <1>9. CASE AuthMFA
    <2> DEFINE fs == ApplyS2SDowngrade(AuthFile, DetectMissingMFA(AuthFile))
    <2>1. project' = project /\ pc = "mfa" /\ pc' = "webhook" /\ work' = [Add(fs) EXCEPT !.decl = 1]
      BY <1>9 DEF AuthMFA, Pass
    <2>2. AuthParsed(AuthFile)
      BY <1>2, <1>3, <2>1 DEF AuthInFile, AuthFile
    <2>3. NoPolicy(DetectMissingMFA(AuthFile))
      BY <2>2, MfaNoPolicy
    <2>4. NoPolicy(fs)
      BY <2>3, DowngradeNoPolicy
    <2> HIDE DEF fs
    <2>5. DOMAIN work' = AuthWork /\ work'.file = work.file /\ work'.findings = work.findings \o fs
      BY <1>2, <2>1 DEF Add, AuthWork
    <2> QED BY <1>1, <2>1, <2>4, <2>5, AuthPolicyKept
  <1>10. CASE pc = "webhook" /\ AuthWebhook
    <2> DEFINE found == WebhookFinding(AuthFile, work.decl, TRUE)
    <2>1. /\ project' = project /\ pc' \in {"webhook", "cover"}
          /\ work' \in {NextDecl(work), NextDecl(Add(<<found>>)), work}
      BY <1>10 DEF AuthWebhook, Pass
    <2>2. NoPolicy(<<found>>)
      BY WebhookNoPolicy
    <2> HIDE DEF found
    <2>3. CASE work' = NextDecl(Add(<<found>>))
      <3>1. DOMAIN work' = AuthWork /\ work'.file = work.file /\ work'.findings = work.findings \o <<found>>
        BY <1>2, <2>3 DEF NextDecl, Add, AuthWork
      <3> DEFINE fs == <<found>>
      <3>2. NoPolicy(fs) /\ work'.findings = work.findings \o fs
        BY <2>2, <3>1
      <3> HIDE DEF fs
      <3> QED BY <1>1, <1>10, <2>1, <3>1, <3>2, AuthPolicyKept
    <2>4. CASE work' \in {NextDecl(work), work}
      <3>1. DOMAIN work' = AuthWork /\ work'.file = work.file /\ work'.findings = work.findings
        BY <1>2, <2>4 DEF NextDecl, AuthWork
      <3> DEFINE fs == <<>>
      <3>2. NoPolicy(fs) /\ work'.findings = work.findings \o fs
        BY <1>5, <3>1
      <3> HIDE DEF fs
      <3> QED BY <1>1, <1>10, <2>1, <3>1, <3>2, AuthPolicyKept
    <2> QED BY <2>1, <2>3, <2>4
  <1>11. CASE pc = "webhook" /\ AuthFileDone
    <2>1. project' = project /\ pc' = "start" /\ work' = [work EXCEPT !.file = @ + 1]
      BY <1>11 DEF AuthFileDone, Pass
    <2> QED BY <1>1, <1>11, <2>1, NextFileSettled
  <1>12. CASE pc = "cover" /\ AuthCover
    <2> DEFINE found(v) == WebhookFinding(AuthFile, work.decl, v)
    <2>1. PICK ctx : /\ project' = project /\ pc' \in {"webhook", "cover"}
                     /\ \/ \E v : work' = [NextDecl(Add(<<found(v)>>)) EXCEPT !.cache = CacheWith(@, work.dir, ctx)]
                        \/ work' = [[work EXCEPT !.dir = @ + 1] EXCEPT !.cache = CacheWith(@, work.dir, ctx)]
      BY <1>12 DEF AuthCover, Pass
    <2>2. \A v : NoPolicy(<<found(v)>>)
      BY WebhookNoPolicy
    <2> HIDE DEF found
    <2>3. ASSUME NEW v, work' = [NextDecl(Add(<<found(v)>>)) EXCEPT !.cache = CacheWith(@, work.dir, ctx)]
          PROVE  AuthPolicyInv'
      <3> DEFINE fs == <<found(v)>>
      <3>1. NoPolicy(fs) /\ work' = [NextDecl(Add(fs)) EXCEPT !.cache = CacheWith(@, work.dir, ctx)]
        BY <2>2, <2>3
      <3> HIDE DEF fs
      <3>2. DOMAIN work' = AuthWork /\ work'.file = work.file /\ work'.findings = work.findings \o fs
        BY <1>2, <3>1 DEF NextDecl, Add, AuthWork
      <3> QED BY <1>1, <1>12, <2>1, <3>1, <3>2, AuthPolicyKept
    <2>4. CASE work' = [[work EXCEPT !.dir = @ + 1] EXCEPT !.cache = CacheWith(@, work.dir, ctx)]
      <3>1. DOMAIN work' = AuthWork /\ work'.file = work.file /\ work'.findings = work.findings
        BY <1>2, <2>4 DEF AuthWork
      <3> DEFINE fs == <<>>
      <3>2. NoPolicy(fs) /\ work'.findings = work.findings \o fs
        BY <1>5, <3>1
      <3> HIDE DEF fs
      <3> QED BY <1>1, <1>12, <2>1, <3>1, <3>2, AuthPolicyKept
    <2> QED BY <2>1, <2>3, <2>4
  <1>13. CASE UNCHANGED callVars
    <2>1. project' = project /\ work' = work /\ pc' = pc
      BY <1>13 DEF callVars
    <2> QED BY <1>1, <2>1 DEF AuthPolicyInv
  <1> QED BY <1>1, <1>7, <1>8, <1>9, <1>10, <1>11, <1>12, <1>13 DEF Next, AuthNext, Returned

(* AuthPolicyInv holds of every call of the authentication scanner on      *)
(* every project: its findings about length policies are those of the weak *)
(* checks in the files that it has been through.                           *)
THEOREM AuthPolicyInvariant == Spec => []AuthPolicyInv
  <1>1. Init => AuthPolicyInv
    BY AuthPolicyInitially
  <1>2. AuthPolicyInv /\ [Next]_callVars => AuthPolicyInv'
    BY AuthPolicyInductive
  <1> QED BY <1>1, <1>2, PTL DEF Spec

(* A length check of any file is flagged exactly if it lets a password of  *)
(* fewer than twelve characters through, whichever way round and with      *)
(* whichever operator it is written.                                       *)
THEOREM AuthPolicyAlwaysExact == Spec => []AuthPolicyExact
  <1>1. AuthPolicyInv => AuthPolicyExact
    <2> DEFINE files == project.dirs[1].files
               file == files[1]
               checks == PlacesOf(file, {"len"})
               flagged == AuthOf("AUTH-WEAK-POLICY")
    <2> SUFFICES ASSUME AuthPolicyInv, Done("auth"), Len(files) = 1, ~file.generated,
                        NEW p \in Range(checks), p.s.n > 0, p.s.how \in {"<", "<=", ">", ">="}
                 PROVE  (\E len \in 0..11 : LengthAccepts(p.s, len)) <=> \E f \in Range(flagged) : f.at = p.at
      BY DEF AuthPolicyExact
    <2>1. /\ project \in AuthSources /\ work.file \in Nat /\ IsList(work.findings) /\ pc = "done"
          /\ PolicyFlaggedWeak(files, work) /\ PolicyUpTo(files, work, PolicyLast(pc, work))
          /\ work.file > 1
      BY DEF AuthPolicyInv, Done
    <2>2. IsList(files) /\ \A i \in DOMAIN files : AuthParsed(files[i])
      BY <2>1, AuthSourcesParsed
    <2>3. DOMAIN files = {1}
      <3>1. DOMAIN files = 1..Len(files)
        BY <2>2, ListFacts
      <3> QED BY <3>1
    <2>4. AuthParsed(file)
      BY <2>2, <2>3
    <2>5. 1 <= PolicyLast(pc, work)
      BY <2>1 DEF PolicyLast
    <2>6. PolicyReported(files, work, 1)
      BY <2>1, <2>3, <2>5 DEF PolicyUpTo
    <2> DEFINE all == Places(file)
               fs == work.findings
               weak(r) == r = "AUTH-WEAK-POLICY"
    <2>7. /\ \A k \in DOMAIN fs : weak(fs[k].rule) => \E l \in DOMAIN all : WeakPlace(all[l]) /\ fs[k].at = all[l].at
          /\ \A l \in DOMAIN all : WeakPlace(all[l]) => \E k \in DOMAIN fs : weak(fs[k].rule) /\ fs[k].at = all[l].at
      BY <2>1, <2>3, <2>6 DEF PolicyFlaggedWeak, PolicyReported
    <2>8. \A i \in DOMAIN checks : \E l \in DOMAIN all : checks[i] = all[l] /\ all[l].s.op \in {"len"}
      BY <2>4, PlacesOfKind
    <2>9. PICK l \in DOMAIN all : p = all[l] /\ all[l].s.op = "len"
      BY <2>8 DEF Range
    <2>10. \A m \in DOMAIN all : all[m].at = p.at => all[m] = p
      BY <2>4, <2>9, PlaceUnique
    <2>11. p.s.n \in Nat
      BY <2>4, <2>9, PlaceNumber
    <2>12. /\ \A k \in DOMAIN flagged : \E i \in DOMAIN fs : weak(fs[i].rule) /\ flagged[k] = fs[i]
           /\ \A i \in DOMAIN fs : weak(fs[i].rule) => \E k \in DOMAIN flagged : flagged[k] = fs[i]
      <3> DEFINE S == {i \in DOMAIN fs : weak(fs[i].rule)}
      <3>1. flagged = Where(fs, S) /\ S \in SUBSET DOMAIN fs
        BY DEF AuthOf
      <3>2. \A i : i \in S <=> i \in DOMAIN fs /\ weak(fs[i].rule)
        OBVIOUS
      <3> HIDE DEF S, fs, weak
      <3>3. /\ \A k \in DOMAIN Where(fs, S) : \E i \in S : Where(fs, S)[k] = fs[i]
            /\ \A i \in S : \E k \in DOMAIN Where(fs, S) : Where(fs, S)[k] = fs[i]
        BY <2>1, <3>1, ListWhere DEF fs
      <3> HIDE DEF flagged
      <3> QED BY <3>1, <3>2, <3>3
    <2> HIDE DEF fs, all, flagged, checks, weak
    <2>13. (\E f \in Range(flagged) : f.at = p.at) <=> \E i \in DOMAIN fs : weak(fs[i].rule) /\ fs[i].at = p.at
      BY <2>12 DEF Range
    <2>14. (\E i \in DOMAIN fs : weak(fs[i].rule) /\ fs[i].at = p.at) <=> WeakPlace(p)
      BY <2>7, <2>9, <2>10
    <2>15. WeakPlace(p) <=> IsWeakThreshold(NormalizeLenComparison(p.s), p.s.n)
      BY <2>9 DEF WeakPlace
    <2> DEFINE s == p.s
    <2>16. s.n \in Nat /\ s.n > 0 /\ s.how \in {"<", "<=", ">", ">="}
      BY <2>11
    <2> HIDE DEF s
    <2>17. IsWeakThreshold(NormalizeLenComparison(s), s.n) <=> \E len \in 0..11 : LengthAccepts(s, len)
      BY <2>16, ThresholdExact
    <2> QED BY <2>13, <2>14, <2>15, <2>17 DEF s
  <1> QED BY <1>1, AuthPolicyInvariant, PTL

------------------------------------------------------------------------------
(* Joining the findings of files, one file at a time.                      *)

\* The lists of the first n of rows, joined.
JoinedTo(rows, n) == FlattenSeq([k \in 1..n |-> rows[k]])

\* Two ways of joining lists agree as far as the lists do.
LEMMA FlatteningUnique ==
    ASSUME NEW f, NEW g, NEW s, NEW u, NEW n \in Nat, NEW m \in Nat, m <= n,
           Flattening(f, s, n), Flattening(g, u, m), \A k \in 1..m : s[k] = u[k]
    PROVE  \A k \in 1..m : f[k] = g[k]
  <1> DEFINE Bad == {k \in 1..m : f[k] # g[k]}
  <1>1. SUFFICES ASSUME Bad # {} PROVE FALSE
    OBVIOUS
  <1>2. Bad \in SUBSET Int /\ IsFiniteSet(Bad)
    <2>1. IsFiniteSet(1..m) /\ Bad \in SUBSET (1..m)
      BY FS_Interval
    <2> QED BY <2>1, FS_Subset
  <1>3. PICK k \in Bad : \A j \in Bad : k <= j
    <2> HIDE DEF Bad
    <2> QED BY <1>1, <1>2, LeastMember
  <1>4. /\ f[k] = IF k = 1 THEN s[k] ELSE f[k - 1] \o s[k]
        /\ g[k] = IF k = 1 THEN u[k] ELSE g[k - 1] \o u[k]
    <2>1. k \in 1..n /\ k \in 1..m
      BY <1>3
    <2> QED BY <2>1 DEF Flattening
  <1>5. k # 1 => k - 1 \in 1..m /\ k - 1 \notin Bad
    BY <1>3
  <1>6. k # 1 => f[k - 1] = g[k - 1]
    BY <1>5
  <1> QED BY <1>3, <1>4, <1>6

\* One more list.
LEMMA JoinedStep ==
    ASSUME NEW rows, IsList(rows), \A i \in DOMAIN rows : IsList(rows[i]), NEW n \in Nat, n < Len(rows)
    PROVE  JoinedTo(rows, n + 1) = JoinedTo(rows, n) \o rows[n + 1]
  <1> DEFINE s == [k \in 1..(n + 1) |-> rows[k]]
             u == [k \in 1..n |-> rows[k]]
  <1>1. Len(rows) \in Nat /\ DOMAIN rows = 1..Len(rows)
    BY ListFacts
  <1>2. /\ DOMAIN s = 1..(n + 1) /\ s = [k \in DOMAIN s |-> s[k]] /\ s[n + 1] = rows[n + 1]
        /\ DOMAIN u = 1..n /\ u = [k \in DOMAIN u |-> u[k]]
        /\ \A k \in 1..n : s[k] = u[k]
    OBVIOUS
  <1>3. JoinedTo(rows, n + 1) = FlattenSeq(s) /\ JoinedTo(rows, n) = FlattenSeq(u)
    BY DEF JoinedTo
  <1> HIDE DEF s, u
  <1>4. IsList(s) /\ Len(s) = n + 1
    BY <1>2, FunctionIsList
  <1>5. IsList(u) /\ Len(u) = n
    BY <1>2, FunctionIsList
  <1>6. s \in Seq(Range(s)) /\ s # <<>>
    <2>1. s \in Seq(Range(s))
      BY <1>4, ListFacts
    <2>2. s # <<>>
      BY <1>4
    <2> QED BY <2>1, <2>2
  <1>7. PICK f : Flattening(f, s, n + 1) /\ FlattenSeq(s) = f[n + 1]
    <2> DEFINE V == Range(s)
    <2> HIDE DEF V
    <2>1. s \in Seq(V)
      BY <1>6 DEF V
    <2>2. \E f : Flattening(f, s, Len(s)) /\ FlattenSeq(s) = f[Len(s)]
      BY <1>6, <2>1, FlattenLast
    <2> QED BY <1>4, <2>2
  <1>8. f[n + 1] = IF n = 0 THEN s[n + 1] ELSE f[n] \o s[n + 1]
    <2> DEFINE m == n + 1
    <2>1. m \in 1..m /\ m - 1 = n /\ (m = 1 <=> n = 0)
      OBVIOUS
    <2> HIDE DEF m
    <2>2. Flattening(f, s, m)
      BY <1>7 DEF m
    <2>3. f[m] = IF m = 1 THEN s[m] ELSE f[m - 1] \o s[m]
      BY <2>1, <2>2 DEF Flattening
    <2>4. f[m] = IF n = 0 THEN s[m] ELSE f[n] \o s[m]
      BY <2>1, <2>3
    <2> QED BY <2>4 DEF m
  <1>9. IsList(rows[n + 1])
    BY <1>1
  <1>10. CASE n = 0
    <2>1. FlattenSeq(u) = u /\ u = <<>>
      BY <1>5, <1>10, EmptySeq DEF FlattenSeq, IsList
    <2>2. <<>> \o rows[n + 1] = rows[n + 1]
      <3> DEFINE r == rows[n + 1]
      <3>1. r \in Seq(Range(r))
        BY <1>9, ListFacts
      <3> HIDE DEF r
      <3>2. <<>> \o r = r
        BY <3>1
      <3> QED BY <3>2 DEF r
    <2> QED BY <1>2, <1>3, <1>7, <1>8, <1>10, <2>1, <2>2
  <1>11. CASE n # 0
    <2>1. u \in Seq(Range(u)) /\ u # <<>>
      <3>1. u \in Seq(Range(u))
        BY <1>5, ListFacts
      <3>2. u # <<>>
        BY <1>5, <1>11
      <3> QED BY <3>1, <3>2
    <2>2. PICK g : Flattening(g, u, n) /\ FlattenSeq(u) = g[n]
      <3> DEFINE V == Range(u)
      <3> HIDE DEF V
      <3>1. u \in Seq(V)
        BY <2>1 DEF V
      <3>2. \E g : Flattening(g, u, Len(u)) /\ FlattenSeq(u) = g[Len(u)]
        BY <2>1, <3>1, FlattenLast
      <3> QED BY <1>5, <3>2
    <2>3. n + 1 \in Nat /\ n <= n + 1 /\ n \in 1..n
      BY <1>11
    <2>4. \A k \in 1..n : f[k] = g[k]
      BY <1>2, <1>7, <2>2, <2>3, FlatteningUnique
    <2>5. FlattenSeq(s) = f[n] \o rows[n + 1] /\ FlattenSeq(u) = f[n]
      BY <1>2, <1>7, <1>8, <1>11, <2>2, <2>3, <2>4
    <2> QED BY <1>3, <2>5
  <1> QED BY <1>10, <1>11

\* None, and all of them.
LEMMA JoinedEnds ==
    ASSUME NEW rows, IsList(rows)
    PROVE  JoinedTo(rows, 0) = <<>> /\ JoinedTo(rows, Len(rows)) = FlattenSeq(rows)
  <1>1. Len(rows) \in Nat /\ DOMAIN rows = 1..Len(rows) /\ rows = [k \in DOMAIN rows |-> rows[k]]
    BY ListFacts
  <1>2. JoinedTo(rows, Len(rows)) = FlattenSeq(rows)
    BY <1>1 DEF JoinedTo
  <1> DEFINE u == [k \in 1..0 |-> rows[k]]
  <1>3. u = <<>> /\ Len(u) = 0
    OBVIOUS
  <1>4. JoinedTo(rows, 0) = FlattenSeq(u)
    BY DEF JoinedTo
  <1> HIDE DEF u
  <1>5. FlattenSeq(u) = u
    BY <1>3 DEF FlattenSeq
  <1> QED BY <1>2, <1>3, <1>4, <1>5

\* Lists joined are a list.
LEMMA JoinedIsList ==
    ASSUME NEW rows, IsList(rows), \A i \in DOMAIN rows : IsList(rows[i]), NEW n \in Nat, n <= Len(rows)
    PROVE  IsList(JoinedTo(rows, n))
  <1> DEFINE u == [k \in 1..n |-> rows[k]]
  <1>1. Len(rows) \in Nat /\ DOMAIN rows = 1..Len(rows)
    BY ListFacts
  <1>2. /\ DOMAIN u = 1..n /\ u = [k \in DOMAIN u |-> u[k]]
        /\ \A k \in DOMAIN u : IsList(u[k])
    BY <1>1
  <1>3. JoinedTo(rows, n) = FlattenSeq(u)
    BY DEF JoinedTo
  <1> HIDE DEF u
  <1>4. IsList(u)
    BY <1>2, FunctionIsList
  <1> QED BY <1>2, <1>3, <1>4, ListFlatten

=============================================================================
