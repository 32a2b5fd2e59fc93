--------------------------- MODULE FileTailProofs ---------------------------
(***************************************************************************)
(* Proofs about the tailed file, for any number of lines, inodes,          *)
(* rotations, truncations, crashes, stops and read errors.                 *)
(***************************************************************************)
EXTENDS FileTail, Integers, SequenceTheorems, FiniteSetTheorems, WellFoundedInduction, TLAPS

-----------------------------------------------------------------------------
(* The files.                                                              *)

\* An offset between two lines of file i.
Boundary(i, offset) ==
  offset = 0 \/ (offset \in 1..Size(i) /\ EndsLine(data[i][offset]))

\* In every file the lines are in the order they were written, the two pieces of one follow
\* each other, and only the line written last can lack its end, in the file at the path.
FilesInv ==
  /\ \A i \in Inodes : \A k \in 1..Size(i) :
       /\ data[i][k][1] <= wrote
       /\ \A j \in 1..(k - 1) :
            /\ data[i][j][1] <= data[i][k][1]
            /\ EndsLine(data[i][j]) => data[i][j][1] < data[i][k][1]
       /\ data[i][k][2] = "start" /\ k < Size(i) => data[i][k + 1] = <<data[i][k][1], "end">>
       /\ data[i][k][2] = "end" => k > 1 /\ data[i][k - 1] = <<data[i][k][1], "start">>
       /\ data[i][k][2] = "start" /\ k = Size(i) => i = path /\ data[i][k][1] = wrote

\* What the input knows in each of its steps.
StepsInv ==
  /\ pc # "idle" \/ tail # None => up
  /\ pc = "open" => tail = None
  /\ pc \in {"read", "reopen"} => tail # None
  /\ pc \in {"open", "reopen"} => info.ino \in used \ {None}
  /\ path \in used \cup {None}
  /\ pc \in {"open", "reopen"} /\ ~raced => info.ino = path
  /\ tail # None => /\ tail.pos = tail.offset + Len(tail.partial)
                    /\ tail.ino \in used
                    /\ ~raced => tail.ino = tail.fh
  /\ \A c \in {mem, disk} \ {None} : c.ino \in used
  /\ \A kind \in DOMAIN Budget : left[kind] <= Budget[kind]

TypeInv == TypeOK /\ FilesInv /\ StepsInv

-----------------------------------------------------------------------------
(* No torn record, and checkpoints that cover only what was emitted.       *)

\* The tailer is where it should be in the file it has open: between two lines, or behind
\* the first piece of one that it has stashed.
InPlace ==
  /\ Boundary(tail.fh, tail.offset)
  /\ \/ tail.partial = <<>>
     \/ /\ tail.pos \in 1..Size(tail.fh)
        /\ tail.partial = <<data[tail.fh][tail.pos]>>
        /\ ~EndsLine(data[tail.fh][tail.pos])

Covered(i, offset) == Boundary(i, offset) /\ WholeLines(i, offset) \subseteq Emitted

Place ==
  /\ Torn \notin Emitted
  /\ tail # None =>
       /\ tail.ino = path => tail.fh = path /\ Covered(path, tail.offset)
       /\ tail.ino = tail.fh \/ pc = "read" => InPlace
  /\ \A c \in {mem, disk} \ {None} : c.ino = path => Covered(path, c.offset)

PlaceInv == NeverTruncated => Place

-----------------------------------------------------------------------------
(* The order of the records.                                               *)

\* Records that can still be emitted from a position on come after those that were.
AheadFrom(i, offset) ==
  \A l \in Emitted : \A k \in 1..Size(i) : k > offset => l < data[i][k][1]

OrderInv ==
  /\ \A l \in Emitted : l <= wrote
  /\ OneLife /\ ~raced =>
       /\ InOrderOnce
       /\ MidLine => wrote \notin Emitted
       /\ pc = "reopen" => path # tail.fh
       /\ path # None /\ (tail = None \/ tail.fh # path) => AheadFrom(path, 0)
       /\ tail # None =>
            /\ AheadFrom(tail.fh, tail.pos)
            /\ Size(tail.fh) < tail.pos => AheadFrom(tail.fh, 0)
            /\ path # None /\ path # tail.fh =>
                 \A j \in 1..Size(tail.fh) : \A k \in 1..Size(path) :
                   data[tail.fh][j][1] < data[path][k][1]

-----------------------------------------------------------------------------
(* Lemmas about the operators.                                             *)

\* The bounds are naturals.
LEMMA Bounds ==
  /\ MaxLines \in Nat /\ Lines \subseteq Nat /\ 0 \notin Lines
  /\ Budget \in [DOMAIN Budget -> Nat]
BY FileTailAssumption DEF Lines, Budget

\* A set of positions has a first one: the intervals up to them have a smallest.
LEMMA FirstExists ==
  ASSUME NEW n \in Nat, NEW T, T \subseteq 1..n, T # {}
  PROVE  \E k \in T : \A j \in T : k <= j
<1> DEFINE upTo == {1..k : k \in T}
           before == StrictSubsetOrdering(1..n)
<1>1. IsFiniteSet(1..n)
  BY FS_Interval
<1>2. IsWellFoundedOn(before, SUBSET (1..n))
  <2>1. FiniteSubsetsOf(1..n) = SUBSET (1..n)
    BY <1>1, FS_FiniteSubsetsOfFinite
  <2>2. IsWellFoundedOn(StrictSubsetOrdering(1..n), FiniteSubsetsOf(1..n))
    BY FS_StrictSubsetOrderingWellFounded
  <2> QED
    BY <2>1, <2>2
<1>3. upTo \subseteq SUBSET (1..n) /\ upTo # {}
  <2>1. ASSUME NEW k \in T PROVE 1..k \subseteq 1..n
    <3>1. k \in 1..n
      OBVIOUS
    <3> QED
      BY <3>1
  <2> QED
    BY <2>1
<1>4. PICK s \in upTo : \A r \in upTo : ~(<<r, s>> \in before)
  <2> HIDE DEF upTo, before
  <2> QED
    BY <1>2, <1>3, WFMin
<1>5. PICK k \in T : s = 1..k
  OBVIOUS
<1>6. ASSUME NEW j \in T PROVE k <= j
  <2>1. j \in 1..n /\ k \in 1..n
    OBVIOUS
  <2>2. SUFFICES ASSUME j < k PROVE FALSE
    BY <2>1
  <2>3. 1..j \subseteq 1..k /\ 1..j # 1..k
    BY <2>1, <2>2
  <2>4. <<1..j, 1..k>> \in before
    BY <2>1, <2>3 DEF StrictSubsetOrdering
  <2> QED
    BY <2>4, <1>4, <1>5
<1> QED
  BY <1>6

\* LineEnd is the first piece with a newline after the position, or 0.
LEMMA LineEndFound ==
  ASSUME TypeOK, tail # None
  PROVE  \/ /\ LineEnd = 0
            /\ \A k \in (tail.pos + 1)..Size(tail.fh) : ~EndsLine(data[tail.fh][k])
         \/ /\ LineEnd \in (tail.pos + 1)..Size(tail.fh)
            /\ EndsLine(data[tail.fh][LineEnd])
            /\ \A k \in (tail.pos + 1)..(LineEnd - 1) : ~EndsLine(data[tail.fh][k])
<1> DEFINE ends == {k \in (tail.pos + 1)..Size(tail.fh) : EndsLine(data[tail.fh][k])}
<1>1. tail.pos \in Nat /\ Size(tail.fh) \in Nat
  BY DEF TypeOK, TailedFile, Size
<1>2. CASE ends = {}
  BY <1>2 DEF LineEnd
<1>3. CASE ends # {}
  <2>1. ends \subseteq 1..Size(tail.fh)
    BY <1>1
  <2>2. \E k \in ends : \A j \in ends : k <= j
    <3> HIDE DEF ends
    <3> QED
      BY <1>1, <1>3, <2>1, FirstExists
  <2>3. LineEnd = CHOOSE k \in ends : \A j \in ends : k <= j
    BY <1>3 DEF LineEnd
  <2>4. LineEnd \in ends /\ \A j \in ends : LineEnd <= j
    <3> HIDE DEF ends
    <3> QED
      BY <2>2, <2>3
  <2> QED
    BY <1>1, <2>4
<1> QED
  BY <1>2, <1>3

\* A piece of a line.
LEMMA PieceOfLine ==
  ASSUME NEW u \in Units
  PROVE  /\ u[1] \in Lines /\ u[1] \in Nat
         /\ u[2] \in {"whole", "start", "end"} /\ u = <<u[1], u[2]>>
BY Bounds DEF Units

\* What is appended comes last and nothing else changes.
LEMMA Grown ==
  ASSUME TypeOK, path \in Inodes, NEW u \in Units, Grow(u)
  PROVE  /\ data' \in [Inodes -> Seq(Units)]
         /\ \A i \in Inodes : i # path => data'[i] = data[i]
         /\ Len(data'[path]) = Size(path) + 1
         /\ \A k \in 1..Size(path) : data'[path][k] = data[path][k]
         /\ data'[path][Size(path) + 1] = u
<1>1. data[path] \in Seq(Units) /\ data'[path] = Append(data[path], u)
  BY DEF TypeOK, Grow
<1>2. /\ Append(data[path], u) \in Seq(Units)
      /\ Len(Append(data[path], u)) = Len(data[path]) + 1
      /\ \A k \in 1..Len(data[path]) : Append(data[path], u)[k] = data[path][k]
      /\ Append(data[path], u)[Len(data[path]) + 1] = u
  BY <1>1, AppendProperties
<1> QED
  BY <1>1, <1>2 DEF TypeOK, Grow, Size

\* Every file holds pieces of lines.
LEMMA Pieces ==
  ASSUME TypeOK, NEW i \in Inodes
  PROVE  /\ Size(i) \in Nat
         /\ \A k \in 1..Size(i) : data[i][k] \in Units
BY DEF TypeOK, Size

-----------------------------------------------------------------------------
(* Types.                                                                  *)

Kinds == {"rotate", "truncate", "crash", "stop", "fault"}

\* Spending leaves a budget that is smaller in what was spent.
LEMMA Spent ==
  ASSUME left \in [DOMAIN Budget -> Nat], \A k \in DOMAIN Budget : left[k] <= Budget[k],
         NEW kind \in Kinds, Spend(kind)
  PROVE  /\ left' \in [DOMAIN Budget -> Nat]
         /\ \A k \in DOMAIN Budget : left'[k] <= Budget[k]
         /\ left'[kind] < Budget[kind]
         /\ \A k \in Kinds \ {kind} : left'[k] = left[k]
<1>1. DOMAIN Budget = Kinds \cup {"any"} /\ Budget \in [DOMAIN Budget -> Nat]
  BY Bounds DEF Budget, Kinds
<1>2. left' = [left EXCEPT ![kind] = left[kind] - 1, !["any"] = left["any"] - 1]
  BY <1>1 DEF Spend, Kinds
<1>3. left[kind] \in Nat /\ left[kind] > 0 /\ left["any"] \in Nat /\ left["any"] > 0
  BY <1>1 DEF Spend
<1>4. \A k \in DOMAIN Budget :
        /\ left'[k] = IF k \in {kind, "any"} THEN left[k] - 1 ELSE left[k]
        /\ left[k] \in Nat /\ Budget[k] \in Nat
  BY <1>1, <1>2 DEF Kinds
<1>5. \A k \in DOMAIN Budget : left'[k] \in Nat /\ left'[k] <= Budget[k]
  BY <1>1, <1>3, <1>4
<1>6. left'[kind] < Budget[kind] /\ \A k \in Kinds \ {kind} : left'[k] = left[k]
  BY <1>1, <1>3, <1>4 DEF Kinds
<1> QED
  BY <1>1, <1>2, <1>5, <1>6

\* The start is typed.
LEMMA TypeInit == Init => TypeInv
<1> SUFFICES ASSUME Init PROVE TypeInv
  OBVIOUS
<1> USE DEF Init
<1>1. TypeOK
  <2>1. 0 \in 0..MaxLines
    BY Bounds
  <2>2. data \in [Inodes -> Seq(Units)] /\ emitted \in Seq(Lines \cup {Torn})
    OBVIOUS
  <2>3. info \in [ino: Inodes \cup {None}, size: Nat]
    OBVIOUS
  <2> QED
    BY <2>1, <2>2, <2>3, Bounds DEF TypeOK
<1>2. FilesInv
  BY DEF FilesInv, Size
<1>3. StepsInv
  <2>1. \A kind \in DOMAIN Budget : left[kind] <= Budget[kind]
    BY Bounds
  <2> QED
    BY <2>1 DEF StepsInv
<1> QED
  BY <1>1, <1>2, <1>3 DEF TypeInv

\* A piece that continues the last line, or begins the next one, keeps the files in order.
LEMMA GrownInOrder ==
  ASSUME TypeOK, FilesInv, path \in Inodes, NEW u \in Units, Grow(u),
         wrote' \in {wrote, wrote + 1}, path' = path,
         \/ ~MidLine /\ u[1] = wrote' /\ wrote' = wrote + 1 /\ u[2] # "end"
         \/ MidLine /\ wrote' = wrote /\ u = <<wrote, "end">>
  PROVE  FilesInv'
<1> DEFINE n == Size(path)
<1> USE DEF EndsLine
<1>1. /\ data' \in [Inodes -> Seq(Units)]
      /\ \A i \in Inodes : i # path => data'[i] = data[i]
      /\ Len(data'[path]) = n + 1
      /\ \A k \in 1..n : data'[path][k] = data[path][k]
      /\ data'[path][n + 1] = u
  BY Grown
<1>2. wrote \in Nat /\ wrote' >= wrote /\ wrote' \in Nat
  BY Bounds DEF TypeOK
<1>3. ASSUME NEW i \in Inodes PROVE Size(i) \in Nat /\ \A k \in 1..Size(i) : data[i][k][1] \in Nat
  BY Pieces, PieceOfLine
<1>4. /\ u[1] \in Nat /\ u[2] \in {"whole", "start", "end"} /\ u = <<u[1], u[2]>>
      /\ n \in Nat
  BY PieceOfLine, <1>3
<1>5. /\ \A k \in 1..n : ~MidLine /\ k = n => data[path][k][2] # "start"
      /\ MidLine => n > 0 /\ data[path][n][2] = "start" /\ data[path][n][1] = wrote
  <2>1. (data[path] # <<>> <=> n > 0) /\ path # None
    BY <1>3, FileTailAssumption DEF TypeOK, Size
  <2>2. ASSUME n > 0, data[path][n][2] = "start" PROVE MidLine /\ data[path][n][1] = wrote
    <3>1. n \in 1..Size(path)
      BY <2>2, <1>4
    <3> QED
      BY <3>1, <2>1, <2>2 DEF FilesInv, MidLine
  <2>3. MidLine => n > 0 /\ data[path][n][2] = "start"
    BY <2>1 DEF MidLine
  <2> QED
    BY <2>2, <2>3, <1>4
<1>6. ASSUME NEW i \in Inodes, i # path, NEW k \in 1..Size(i)
      PROVE  data[i][k][2] = "start" => k # Size(i)
  BY <1>6 DEF FilesInv
<1>7. ASSUME NEW k \in 1..n, NEW j \in 1..n, j <= k
      PROVE  data[path][j][1] <= data[path][k][1] /\ data[path][k][1] <= wrote
  <2>1. j = k \/ j \in 1..(k - 1)
    BY <1>7, <1>4
  <2> QED
    BY <2>1, <1>3 DEF FilesInv
<1>8. ASSUME NEW i \in Inodes, NEW k \in 1..Len(data'[i])
      PROVE  /\ data'[i][k][1] <= wrote'
             /\ \A j \in 1..(k - 1) :
                  /\ data'[i][j][1] <= data'[i][k][1]
                  /\ EndsLine(data'[i][j]) => data'[i][j][1] < data'[i][k][1]
             /\ data'[i][k][2] = "start" /\ k < Len(data'[i]) => data'[i][k + 1] = <<data'[i][k][1], "end">>
             /\ data'[i][k][2] = "end" => k > 1 /\ data'[i][k - 1] = <<data'[i][k][1], "start">>
             /\ data'[i][k][2] = "start" /\ k = Len(data'[i]) => i = path /\ data'[i][k][1] = wrote'
  <2>1. CASE i # path
    <3>1. data'[i] = data[i] /\ k \in 1..Size(i)
      BY <1>1, <2>1 DEF Size
    <3>2. data[i][k][1] <= wrote /\ data[i][k][1] \in Nat
      BY <3>1, <1>3 DEF FilesInv
    <3>3. /\ \A j \in 1..(k - 1) :
               /\ data[i][j][1] <= data[i][k][1]
               /\ EndsLine(data[i][j]) => data[i][j][1] < data[i][k][1]
          /\ data[i][k][2] = "start" /\ k < Size(i) => data[i][k + 1] = <<data[i][k][1], "end">>
          /\ data[i][k][2] = "end" => k > 1 /\ data[i][k - 1] = <<data[i][k][1], "start">>
      BY <3>1 DEF FilesInv
    <3>4. data[i][k][2] = "start" => k # Size(i)
      BY <3>1, <1>6, <2>1
    <3>5. data[i][k][1] <= wrote'
      BY <3>2, <1>2
    <3> QED
      BY <3>1, <3>3, <3>4, <3>5 DEF Size
  <2>2. CASE i = path /\ k <= n
    <3>1. k \in 1..n /\ data'[i][k] = data[i][k]
      BY <1>1, <1>4, <2>2
    <3>2. \A j \in 1..(k - 1) : j \in 1..n /\ data'[i][j] = data[i][j]
      BY <1>1, <1>4, <2>2
    <3>3. k < n => k + 1 \in 1..n /\ data'[i][k + 1] = data[i][k + 1]
      BY <1>1, <1>4, <2>2, <3>1
    <3>4. k > 1 => data'[i][k - 1] = data[i][k - 1]
      BY <3>1, <3>2, <1>4
    <3>5. data[i][k][1] <= wrote /\ data[i][k][1] \in Nat
      BY <3>1, <2>2, <1>3 DEF FilesInv
    <3>6. \A j \in 1..(k - 1) : /\ data[i][j][1] <= data[i][k][1]
                                /\ EndsLine(data[i][j]) => data[i][j][1] < data[i][k][1]
      BY <3>1, <2>2 DEF FilesInv
    <3>7. /\ data[i][k][2] = "start" /\ k < n => data[i][k + 1] = <<data[i][k][1], "end">>
          /\ data[i][k][2] = "end" => k > 1 /\ data[i][k - 1] = <<data[i][k][1], "start">>
      BY <3>1, <2>2 DEF FilesInv
    <3>8. data[i][k][2] = "start" /\ k = n => u = <<data[i][k][1], "end">>
      BY <1>5, <3>1, <2>2
    <3>9. k # Len(data'[i]) /\ data'[i][n + 1] = u /\ (k < n \/ k = n)
      BY <1>1, <1>4, <2>2
    <3>10. data'[i][k][2] = "start" => data'[i][k + 1] = <<data'[i][k][1], "end">>
      BY <3>1, <3>3, <3>7, <3>8, <3>9
    <3>11. data'[i][k][1] <= wrote'
      BY <3>1, <3>5, <1>2
    <3> QED
      BY <3>1, <3>2, <3>4, <3>6, <3>7, <3>9, <3>10, <3>11
  <2>3. CASE i = path /\ k = n + 1
    <3>1. data'[i][k] = u /\ u[1] = wrote'
      BY <1>1, <2>3
    <3>2. ASSUME NEW j \in 1..(k - 1)
          PROVE  /\ data'[i][j][1] <= u[1]
                 /\ EndsLine(data'[i][j]) => data'[i][j][1] < u[1]
      <4>1. j \in 1..n /\ data'[i][j] = data[path][j] /\ data[path][j][1] \in Nat
        BY <1>1, <1>3, <1>4, <2>3
      <4>2. data[path][j][1] <= wrote
        BY <4>1, <1>7, <1>4
      <4>3. CASE wrote' = wrote + 1
        BY <4>1, <4>2, <4>3, <3>1, <1>2
      <4>4. CASE MidLine /\ wrote' = wrote
        <5>1. n > 0 /\ data[path][n][2] = "start" /\ data[path][n][1] = wrote
          BY <1>5, <4>4
        <5>2. CASE j = n
          BY <5>1, <5>2, <4>1, <4>2, <3>1, <4>4
        <5>3. CASE j < n
          <6>1. n \in 1..n /\ j \in 1..(n - 1)
            BY <5>3, <1>4, <4>1
          <6>2. EndsLine(data[path][j]) => data[path][j][1] < data[path][n][1]
            BY <6>1 DEF FilesInv
          <6> QED
            BY <6>2, <5>1, <4>1, <4>2, <3>1, <4>4
        <5> QED
          BY <5>2, <5>3, <4>1, <1>4
      <4> QED
        BY <4>3, <4>4
    <3>3. u[2] = "end" => k > 1 /\ data'[i][k - 1] = <<u[1], "start">>
      <4>1. SUFFICES ASSUME u[2] = "end" PROVE k > 1 /\ data'[i][k - 1] = <<u[1], "start">>
        OBVIOUS
      <4>2. MidLine /\ u[1] = wrote
        BY <4>1
      <4>3. n > 0 /\ data[path][n][2] = "start" /\ data[path][n][1] = wrote
        BY <1>5, <4>2
      <4>4. n \in 1..n /\ data[path][n] \in Units
        BY <4>3, <1>4, Pieces
      <4>5. data[path][n] = <<wrote, "start">>
        BY <4>3, <4>4, PieceOfLine
      <4> QED
        BY <4>2, <4>3, <4>4, <4>5, <1>1, <1>4, <2>3
    <3> QED
      BY <3>1, <3>2, <3>3, <1>1, <1>2, <1>4, <2>3
  <2> QED
    BY <2>1, <2>2, <2>3, <1>1, <1>4
<1> QED
  BY <1>8 DEF FilesInv, Size

ApplicationStep ==
  \/ \E part \in {"whole", "start"} : WriteLine(part)
  \/ WriteEnd \/ Rotate \/ Truncate \/ \E i \in Inodes : Create(i)

\* Files that stay as they are, end no record in the middle unless they are the path, or
\* are emptied keep their order.
LEMMA Emptied ==
  ASSUME FilesInv, wrote' = wrote,
         \A j \in Inodes : data'[j] = data[j] \/ data'[j] = <<>>,
         \A j \in Inodes : data'[j] = data[j] /\ j = path /\ path' # path =>
           \A k \in 1..Size(j) : data[j][k][2] = "start" => k # Size(j)
  PROVE  FilesInv'
<1>1. ASSUME NEW i \in Inodes, NEW k \in 1..Len(data'[i])
      PROVE  /\ data'[i][k][1] <= wrote'
             /\ \A j \in 1..(k - 1) :
                  /\ data'[i][j][1] <= data'[i][k][1]
                  /\ EndsLine(data'[i][j]) => data'[i][j][1] < data'[i][k][1]
             /\ data'[i][k][2] = "start" /\ k < Len(data'[i]) =>
                  data'[i][k + 1] = <<data'[i][k][1], "end">>
             /\ data'[i][k][2] = "end" => k > 1 /\ data'[i][k - 1] = <<data'[i][k][1], "start">>
             /\ data'[i][k][2] = "start" /\ k = Len(data'[i]) =>
                  i = path' /\ data'[i][k][1] = wrote'
  <2>1. data'[i] # <<>>
    BY <1>1
  <2>2. data'[i] = data[i]
    BY <2>1
  <2>3. k \in 1..Size(i)
    BY <1>1, <2>2 DEF Size
  <2> QED
    BY <2>2, <2>3 DEF FilesInv, Size
<1> QED
  BY <1>1 DEF FilesInv, Size, EndsLine

\* What the application and logrotate do keeps the types and the order of the files.
LEMMA TypeApplication == ASSUME TypeInv, ApplicationStep PROVE TypeInv'
<1> USE DEF TypeInv
<1>1. ASSUME NEW part \in {"whole", "start"}, WriteLine(part) PROVE TypeInv'
  <2>1. path \in Inodes /\ wrote + 1 \in Lines /\ wrote + 1 \in 0..MaxLines
    BY <1>1, Bounds, FileTailAssumption DEF WriteLine, TypeOK, Lines
  <2>2. <<wrote + 1, part>> \in Units
    BY <2>1 DEF Units
  <2>3. Grow(<<wrote + 1, part>>) /\ path' = path /\ wrote' = wrote + 1 /\ ~MidLine
    BY <1>1 DEF WriteLine
  <2>4. FilesInv'
    BY <2>1, <2>2, <2>3, GrownInOrder
  <2>5. data' \in [Inodes -> Seq(Units)]
    BY <2>1, <2>2, <2>3, Grown
  <2> QED
    BY <1>1, <2>1, <2>3, <2>4, <2>5 DEF WriteLine, TypeOK, StepsInv
<1>2. CASE WriteEnd
  <2>1. path \in Inodes /\ MidLine /\ Grow(<<wrote, "end">>) /\ UNCHANGED <<path, wrote>>
    BY <1>2, FileTailAssumption DEF WriteEnd, MidLine, TypeOK
  <2>2. wrote \in Lines
    <3>1. Size(path) \in 1..Size(path)
      BY <2>1, Pieces, EmptySeq DEF MidLine, Size, TypeOK
    <3>2. data[path][Size(path)] \in Units /\ data[path][Size(path)][1] <= wrote
      BY <2>1, <3>1, Pieces DEF FilesInv
    <3> QED
      BY <3>2, PieceOfLine, Bounds DEF TypeOK, Lines
  <2>3. <<wrote, "end">> \in Units
    BY <2>2 DEF Units
  <2>4. FilesInv'
    BY <2>1, <2>3, GrownInOrder
  <2>5. data' \in [Inodes -> Seq(Units)]
    BY <2>1, <2>3, Grown
  <2> QED
    BY <1>2, <2>1, <2>4, <2>5 DEF WriteEnd, TypeOK, StepsInv
<1>3. CASE Rotate
  <2>1. ~MidLine /\ path \in Inodes /\ path' = None /\ UNCHANGED <<data, wrote>>
    BY <1>3 DEF Rotate, TypeOK
  <2>2. ASSUME NEW i \in Inodes, NEW k \in 1..Size(i), data[i][k][2] = "start", k = Size(i)
        PROVE  FALSE
    <3>1. i = path
      BY <2>2 DEF FilesInv
    <3>2. data[path] # <<>> /\ path # None
      BY <2>2, <3>1, FileTailAssumption DEF Size
    <3> QED
      BY <2>1, <2>2, <3>1, <3>2 DEF MidLine, EndsLine
  <2>3. FilesInv'
    BY <2>1, <2>2, Emptied
  <2>4. left' \in [DOMAIN Budget -> Nat] /\ \A k \in DOMAIN Budget : left'[k] <= Budget[k]
    BY <1>3, Spent DEF Rotate, TypeOK, StepsInv, Kinds
  <2> QED
    BY <1>3, <2>3, <2>4 DEF Rotate, TypeOK, StepsInv
<1>4. ASSUME NEW i \in Inodes, Create(i) PROVE TypeInv'
  <2>1. /\ path = None /\ path' = i /\ data' = [data EXCEPT ![i] = <<>>] /\ wrote' = wrote
        /\ data'[i] = <<>> /\ \A j \in Inodes \ {i} : data'[j] = data[j]
    BY <1>4 DEF Create, TypeOK
  <2>3. path \notin Inodes
    BY <2>1, FileTailAssumption
  <2>4. FilesInv'
    BY <2>1, <2>3, Emptied
  <2>5. data' \in [Inodes -> Seq(Units)]
    BY <2>1 DEF TypeOK
  <2> QED
    BY <1>4, <2>4, <2>5 DEF Create, TypeOK, StepsInv
<1>5. CASE Truncate
  <2>1. /\ path \in Inodes /\ path' = path /\ wrote' = wrote
        /\ data'[path] = <<>> /\ \A j \in Inodes \ {path} : data'[j] = data[j]
        /\ data' \in [Inodes -> Seq(Units)]
    BY <1>5 DEF Truncate, TypeOK
  <2>4. FilesInv'
    BY <2>1, Emptied
  <2>5. left' \in [DOMAIN Budget -> Nat] /\ \A k \in DOMAIN Budget : left'[k] <= Budget[k]
    BY <1>5, Spent DEF Truncate, TypeOK, StepsInv, Kinds
  <2> QED
    BY <1>5, <2>1, <2>4, <2>5 DEF Truncate, TypeOK, StepsInv
<1> QED
  BY <1>1, <1>2, <1>3, <1>4, <1>5 DEF ApplicationStep

AgentStep == Start \/ Crash \/ Stop \/ Flush \/ InputStep \/ ReadError \/ \E l \in Lines : Ship(l)

\* The agent never writes a file.
LEMMA AgentOnlyReads == ASSUME FilesInv, AgentStep PROVE UNCHANGED files /\ FilesInv'
<1>1. UNCHANGED files
  BY DEF AgentStep, Start, Crash, Stop, Flush, InputStep, Discover, Open, Poll, Reopen,
         ReadLine, ReadEOF, ReadError, Ship, files
<1> QED
  BY <1>1 DEF FilesInv, Size, files

\* A decoded record is a line or torn.
LEMMA DecodeType == ASSUME NEW units PROVE Decode(units) \in Lines \cup {Torn}
<1>1. ASSUME NEW l \in Lines, units \in {<< <<l, "whole">> >>, << <<l, "start">>, <<l, "end">> >>}
      PROVE  units[1][1] = l
  BY <1>1
<1> QED
  BY <1>1 DEF Decode

\* What a read takes from the open file is pieces of lines.
LEMMA TakenType ==
  ASSUME TypeOK, tail # None, NEW e \in Nat, e <= Size(tail.fh)
  PROVE  LET taken == SubSeq(data[tail.fh], tail.pos + 1, e)
         IN  /\ taken \in Seq(Units) /\ tail.partial \o taken \in Seq(Units)
             /\ Len(taken) = IF tail.pos < e THEN e - tail.pos ELSE 0
             /\ Len(tail.partial \o taken) = Len(tail.partial) + Len(taken)
<1>1. tail \in TailedFile /\ tail.pos \in Nat /\ tail.fh \in Inodes /\ tail.partial \in Seq(Units)
  BY DEF TypeOK, TailedFile
<1>2. \A k \in (tail.pos + 1)..e : data[tail.fh][k] \in Units
  BY <1>1, Pieces
<1>3. /\ SubSeq(data[tail.fh], tail.pos + 1, e) \in Seq(Units)
      /\ Len(SubSeq(data[tail.fh], tail.pos + 1, e)) =
           IF tail.pos + 1 <= e THEN e - (tail.pos + 1) + 1 ELSE 0
  BY <1>1, <1>2, SubSeqProperties
<1> QED
  BY <1>1, <1>3, ConcatProperties

\* A tailedFile elsewhere in its file, and in another file.
Moved(t, p, o, b) == [t EXCEPT !.pos = p, !.offset = o, !.partial = b]
MovedTo(t, i, h) == [t EXCEPT !.ino = i, !.fh = h]

LEMMA MovedFields ==
  ASSUME NEW t \in TailedFile, NEW p \in Nat, NEW o \in Nat, NEW b \in Seq(Units)
  PROVE  /\ Moved(t, p, o, b) \in TailedFile
         /\ Moved(t, p, o, b).ino = t.ino /\ Moved(t, p, o, b).fh = t.fh
         /\ Moved(t, p, o, b).pos = p /\ Moved(t, p, o, b).offset = o
         /\ Moved(t, p, o, b).partial = b
BY DEF TailedFile, Moved

LEMMA MovedToFields ==
  ASSUME NEW t \in TailedFile, NEW i \in Inodes, NEW h \in Inodes
  PROVE  /\ MovedTo(t, i, h) \in TailedFile
         /\ MovedTo(t, i, h).ino = i /\ MovedTo(t, i, h).fh = h
         /\ MovedTo(t, i, h).pos = t.pos /\ MovedTo(t, i, h).offset = t.offset
         /\ MovedTo(t, i, h).partial = t.partial
BY DEF TailedFile, MovedTo

\* rewind starts the same file again.
LEMMA RewoundFields ==
  ASSUME TypeOK, tail # None
  PROVE  /\ Rewound \in TailedFile /\ Rewound.ino = tail.ino /\ Rewound.fh = tail.fh
         /\ Rewound.pos = 0 /\ Rewound.offset = 0 /\ Rewound.partial = <<>>
<1>1. PICK nothing \in Seq(Units) : nothing = <<>>
  BY EmptySeq
<1>2. Rewound = Moved(tail, 0, 0, nothing)
  BY <1>1 DEF Rewound, AtStart, Moved
<1>3. tail \in TailedFile
  BY DEF TypeOK
<1>4. /\ Rewound \in TailedFile /\ Rewound.ino = tail.ino /\ Rewound.fh = tail.fh
      /\ Rewound.pos = 0 /\ Rewound.offset = 0 /\ Rewound.partial = nothing
  BY <1>2, <1>3, MovedFields
<1> QED
  BY <1>1, <1>4

\* reopen starts another file.
LEMMA ReopenedFields ==
  ASSUME TypeOK, tail # None, info.ino \in Inodes, path \in Inodes,
         tail' = [AtStart(ReopenedPartial) EXCEPT !.ino = info.ino, !.fh = path]
  PROVE  /\ tail' \in TailedFile /\ tail'.ino = info.ino /\ tail'.fh = path
         /\ tail'.pos = 0 /\ tail'.offset = 0 /\ tail'.partial = <<>>
<1>1. tail' = MovedTo(Rewound, info.ino, path)
  BY DEF Rewound, ReopenedPartial, MovedTo
<1> QED
  <2>1. /\ MovedTo(Rewound, info.ino, path) \in TailedFile
        /\ MovedTo(Rewound, info.ino, path).ino = info.ino
        /\ MovedTo(Rewound, info.ino, path).fh = path
        /\ MovedTo(Rewound, info.ino, path).pos = Rewound.pos
        /\ MovedTo(Rewound, info.ino, path).offset = Rewound.offset
        /\ MovedTo(Rewound, info.ino, path).partial = Rewound.partial
    BY RewoundFields, MovedToFields
  <2> QED
    BY <1>1, <2>1, RewoundFields

\* A turn of the loop moves the offset and the position to the end of the line.
LEMMA ReadLineFields ==
  ASSUME TypeOK, StepsInv, ReadLine
  PROVE  /\ tail' \in TailedFile /\ tail'.ino = tail.ino /\ tail'.fh = tail.fh
         /\ tail'.pos = LineEnd /\ tail'.offset = LineEnd /\ tail'.partial = <<>>
         /\ LineEnd \in Nat
<1> DEFINE line == tail.partial \o SubSeq(data[tail.fh], tail.pos + 1, LineEnd)
<1>1. /\ LineEnd > 0 /\ tail # None /\ tail \in TailedFile
      /\ tail' = [tail EXCEPT !.pos = LineEnd, !.offset = Committed(line), !.partial = <<>>]
  BY DEF ReadLine, StepsInv, TypeOK
<1>2. /\ tail.pos \in Nat /\ tail.offset \in Nat /\ tail.partial \in Seq(Units)
      /\ tail.fh \in Inodes
  BY <1>1 DEF TailedFile
<1>3. Size(tail.fh) \in Nat
  BY <1>2, Pieces
<1>4. LineEnd \in (tail.pos + 1)..Size(tail.fh) /\ LineEnd \in Nat
  BY <1>1, <1>2, <1>3, LineEndFound
<1>5. Len(line) = Len(tail.partial) + (LineEnd - tail.pos)
  <2>1. LineEnd <= Size(tail.fh) /\ tail.pos < LineEnd
    BY <1>2, <1>3, <1>4
  <2>2. /\ Len(SubSeq(data[tail.fh], tail.pos + 1, LineEnd)) = LineEnd - tail.pos
        /\ Len(line) = Len(tail.partial) + Len(SubSeq(data[tail.fh], tail.pos + 1, LineEnd))
    BY <1>1, <1>4, <2>1, TakenType
  <2> HIDE DEF line
  <2> QED
    BY <2>2
<1>6. tail.pos = tail.offset + Len(tail.partial)
  BY <1>1 DEF StepsInv
<1> HIDE DEF line
<1>7. Committed(line) = LineEnd
  BY <1>2, <1>4, <1>5, <1>6 DEF Committed
<1>8. PICK nothing \in Seq(Units) : nothing = <<>>
  BY EmptySeq
<1>9. tail' = Moved(tail, LineEnd, LineEnd, nothing)
  BY <1>1, <1>7, <1>8 DEF Moved
<1>10. /\ tail' \in TailedFile /\ tail'.ino = tail.ino /\ tail'.fh = tail.fh
       /\ tail'.pos = LineEnd /\ tail'.offset = LineEnd /\ tail'.partial = nothing
  <2>1. tail \in TailedFile /\ LineEnd \in Nat
    BY <1>1, <1>4
  <2> QED
    BY <1>9, <2>1, MovedFields
<1> QED
  BY <1>4, <1>8, <1>10

\* At the end of the file what is left of it is stashed and the offset is registered.
LEMMA ReadEOFFields ==
  ASSUME TypeOK, StepsInv, ReadEOF
  PROVE  LET rest == SubSeq(data[tail.fh], tail.pos + 1, Size(tail.fh))
         IN  /\ tail' \in TailedFile /\ tail'.ino = tail.ino /\ tail'.fh = tail.fh
             /\ tail'.pos = tail.pos + Len(rest) /\ tail'.offset = tail.offset
             /\ tail'.partial = tail.partial \o rest
             /\ tail'.pos = tail'.offset + Len(tail'.partial)
             /\ Len(rest) = IF tail.pos < Size(tail.fh) THEN Size(tail.fh) - tail.pos ELSE 0
             /\ mem' = [ino |-> tail.ino, offset |-> tail.offset]
             /\ tail.ino \in Inodes /\ tail.fh \in Inodes /\ tail.partial \in Seq(Units)
             /\ tail.offset \in Nat /\ tail.pos \in Nat /\ Size(tail.fh) \in Nat
<1> DEFINE rest == SubSeq(data[tail.fh], tail.pos + 1, Size(tail.fh))
<1>1. /\ tail # None /\ tail \in TailedFile
      /\ tail' = [tail EXCEPT !.pos = @ + Len(rest), !.partial = @ \o rest]
      /\ mem' = [ino |-> tail.ino, offset |-> Registered(tail')]
  BY DEF ReadEOF, StepsInv, TypeOK
<1>2. /\ tail.pos \in Nat /\ tail.offset \in Nat /\ tail.fh \in Inodes
      /\ tail.ino \in Inodes /\ tail.partial \in Seq(Units)
  BY <1>1 DEF TailedFile
<1>3. Size(tail.fh) \in Nat
  BY <1>2, Pieces
<1>4. /\ rest \in Seq(Units) /\ tail.partial \o rest \in Seq(Units)
      /\ Len(rest) = IF tail.pos < Size(tail.fh) THEN Size(tail.fh) - tail.pos ELSE 0
      /\ Len(tail.partial \o rest) = Len(tail.partial) + Len(rest)
  BY <1>1, <1>2, <1>3, TakenType
<1> HIDE DEF rest
<1>5. Len(rest) \in Nat /\ Len(tail.partial) \in Nat
  BY <1>2, <1>4
<1>6. PICK stash \in Seq(Units) : stash = tail.partial \o rest
  BY <1>4
<1>7. PICK end \in Nat, offset \in Nat : end = tail.pos + Len(rest) /\ offset = tail.offset
  BY <1>2, <1>5
<1>8. tail' = Moved(tail, end, offset, stash)
  BY <1>1, <1>2, <1>6, <1>7 DEF Moved, TailedFile
<1>9. /\ tail' \in TailedFile /\ tail'.ino = tail.ino /\ tail'.fh = tail.fh
      /\ tail'.pos = end /\ tail'.offset = offset /\ tail'.partial = stash
  <2>1. PICK t \in TailedFile : t = tail
    BY <1>1
  <2>2. tail' = Moved(t, end, offset, stash)
    BY <1>8, <2>1
  <2>3. /\ tail' \in TailedFile /\ tail'.ino = t.ino /\ tail'.fh = t.fh
        /\ tail'.pos = end /\ tail'.offset = offset /\ tail'.partial = stash
    <3>1. /\ Moved(t, end, offset, stash) \in TailedFile
          /\ Moved(t, end, offset, stash).ino = t.ino /\ Moved(t, end, offset, stash).fh = t.fh
          /\ Moved(t, end, offset, stash).pos = end /\ Moved(t, end, offset, stash).offset = offset
          /\ Moved(t, end, offset, stash).partial = stash
      BY MovedFields
    <3> QED
      BY <2>2, <3>1
  <2> QED
    BY <2>1, <2>3
<1>10. mem' = [ino |-> tail.ino, offset |-> tail.offset]
  BY <1>1, <1>7, <1>9 DEF Registered
<1>11. tail.pos = tail.offset + Len(tail.partial)
  BY <1>1 DEF StepsInv
<1>12. tail'.pos = tail'.offset + Len(tail'.partial)
  <2>1. Len(stash) = Len(tail.partial) + Len(rest)
    BY <1>4, <1>6
  <2>2. end = offset + Len(stash)
    BY <1>2, <1>5, <1>7, <1>11, <2>1
  <2> QED
    BY <1>9, <2>2
<1> QED
  BY <1>2, <1>3, <1>4, <1>6, <1>7, <1>9, <1>10, <1>12 DEF rest

\* What the agent does keeps the types.
LEMMA TypeAgent == ASSUME TypeInv, AgentStep PROVE TypeInv'
<1> USE DEF TypeInv
<1>1. FilesInv' /\ path' = path /\ data' = data /\ used' = used /\ wrote' = wrote
  BY AgentOnlyReads DEF files
<1>2. \A i \in Inodes : Size(i) \in Nat
  BY Pieces
<1>3. SUFFICES TypeOK' /\ StepsInv'
  BY <1>1
<1>4. CASE Start
  BY <1>4 DEF Start, TypeOK, StepsInv
<1>5. CASE Crash
  <2>1. left' \in [DOMAIN Budget -> Nat] /\ \A k \in DOMAIN Budget : left'[k] <= Budget[k]
    BY <1>5, Spent DEF Crash, TypeOK, StepsInv, Kinds
  <2> QED
    BY <1>1, <1>5, <2>1 DEF Crash, Down, TypeOK, StepsInv
<1>6. CASE Stop
  <2>1. left' \in [DOMAIN Budget -> Nat] /\ \A k \in DOMAIN Budget : left'[k] <= Budget[k]
    BY <1>6, Spent DEF Stop, TypeOK, StepsInv, Kinds
  <2> QED
    BY <1>1, <1>6, <2>1 DEF Stop, Down, TypeOK, StepsInv
<1>7. CASE Flush
  BY <1>7 DEF Flush, TypeOK, StepsInv
<1>8. ASSUME NEW l \in Lines, Ship(l) PROVE TypeOK' /\ StepsInv'
  BY <1>8 DEF Ship, TypeOK, StepsInv
<1>9. CASE Discover
  BY <1>2, <1>9, FileTailAssumption DEF Discover, StatPath, TypeOK, StepsInv
<1>10. CASE Open
  <2>1. pc = "open" /\ pc' = "idle" /\ up /\ tail = None /\ info.ino \in used \ {None}
    BY <1>10 DEF Open, StepsInv
  <2>2. info.ino \in Inodes /\ info.size \in Nat /\ ResumePoint \in Nat
    BY <2>1 DEF TypeOK, ResumePoint, Checkpoint
  <2>3. CASE path = None /\ UNCHANGED <<tail, mem>>
    BY <1>10, <2>1, <2>3 DEF Open, TypeOK, StepsInv
  <2>4. CASE /\ path # None
             /\ tail' = [ino |-> info.ino, fh |-> path, pos |-> ResumePoint,
                         offset |-> ResumePoint, partial |-> <<>>]
             /\ mem' = [ino |-> info.ino, offset |-> ResumePoint]
    <3>1. path \in Inodes /\ <<>> \in Seq(Units) /\ Len(<<>>) = 0
      BY <2>4 DEF TypeOK
    <3>2. tail' \in TailedFile /\ mem' \in Checkpoint
      BY <2>2, <2>4, <3>1 DEF TailedFile, Checkpoint
    <3>3. ~raced => info.ino = path
      BY <2>1 DEF StepsInv
    <3>4. UNCHANGED <<up, info, disk, emitted, inflight, delivered, raced, left>>
      BY <1>10 DEF Open
    <3>5. TypeOK'
      BY <1>1, <2>1, <3>2, <3>4 DEF TypeOK
    <3>6. StepsInv'
      BY <1>1, <2>1, <2>2, <2>4, <3>1, <3>3, <3>4 DEF StepsInv
    <3> QED
      BY <3>5, <3>6
  <2> QED
    BY <1>10, <2>3, <2>4 DEF Open, OpenSucceeds
<1>11. CASE Poll
  <2>1. up /\ pc = "idle" /\ tail # None /\ tail \in TailedFile
    BY <1>11 DEF Poll, TypeOK
  <2>2. <<>> \in Seq(Units) /\ Len(<<>>) = 0
    OBVIOUS
  <2>3. Rewound \in TailedFile /\ Rewound.ino = tail.ino /\ Rewound.fh = tail.fh
        /\ Rewound.pos = Rewound.offset + Len(Rewound.partial)
    BY <2>1, <2>2, RewoundFields
  <2>4. tail' = None \/ tail' \in {tail, Rewound}
    BY <1>11 DEF Poll
  <2>5. /\ pc' \in {"idle", "read", "reopen"} /\ (pc' # "idle" => tail' # None)
        /\ pc' = "reopen" => path # None /\ info'.ino = path
    BY <1>11, <2>1, <2>3, FileTailAssumption DEF Poll, StatPath
  <2>6. info' \in [ino: Inodes \cup {None}, size: Nat]
    BY <1>2, <1>11 DEF Poll, StatPath, TypeOK
  <2>7. TypeOK'
    BY <1>1, <1>11, <2>3, <2>4, <2>5, <2>6 DEF Poll, TypeOK
  <2>8. StepsInv'
    BY <1>1, <1>11, <2>1, <2>3, <2>4, <2>5 DEF Poll, StepsInv
  <2> QED
    BY <2>7, <2>8
<1>12. CASE Reopen
  <2>1. up /\ pc = "reopen" /\ tail # None /\ tail \in TailedFile /\ info.ino \in used \ {None}
    BY <1>12 DEF Reopen, TypeOK, StepsInv
  <2>2. CASE path = None /\ tail' = None /\ pc' = "idle"
    BY <1>1, <1>12, <2>2 DEF Reopen, TypeOK, StepsInv
  <2>3. CASE /\ path # None
             /\ tail' = [AtStart(ReopenedPartial) EXCEPT !.ino = info.ino, !.fh = path]
             /\ pc' = "read"
    <3>1. /\ tail' \in TailedFile /\ tail'.ino = info.ino /\ tail'.fh = path
          /\ tail'.pos = 0 /\ tail'.offset = 0 /\ tail'.partial = <<>>
      <4>1. info.ino \in Inodes /\ path \in Inodes
        BY <2>1, <2>3 DEF TypeOK
      <4> QED
        BY <2>1, <2>3, <4>1, ReopenedFields
    <3>2. ~raced => info.ino = path
      BY <2>1 DEF StepsInv
    <3>3. UNCHANGED <<up, info, mem, disk, emitted, inflight, delivered, raced, left>>
      BY <1>12 DEF Reopen
    <3>4. TypeOK'
      BY <1>1, <2>3, <3>1, <3>3 DEF TypeOK
    <3>5. StepsInv'
      BY <1>1, <2>1, <2>3, <3>1, <3>2, <3>3, FileTailAssumption DEF StepsInv
    <3> QED
      BY <3>4, <3>5
  <2> QED
    BY <1>12, <2>2, <2>3 DEF Reopen
<1>13. CASE ReadLine
  <2> DEFINE line == tail.partial \o SubSeq(data[tail.fh], tail.pos + 1, LineEnd)
  <2>1. /\ pc = "read" /\ tail # None
        /\ emitted' = Append(emitted, Decode(line))
        /\ inflight' = inflight \cup ({Decode(line)} \ {Torn})
        /\ UNCHANGED <<up, pc, info, mem, disk, delivered, raced, left>>
    BY <1>13 DEF ReadLine, StepsInv
  <2> HIDE DEF line
  <2>2. /\ tail' \in TailedFile /\ tail'.ino = tail.ino /\ tail'.fh = tail.fh
        /\ tail'.pos = LineEnd /\ tail'.offset = LineEnd /\ tail'.partial = <<>>
        /\ LineEnd \in Nat
    BY <1>13, ReadLineFields
  <2>3. emitted' \in Seq(Lines \cup {Torn}) /\ inflight' \subseteq Lines
    BY <2>1, DecodeType, AppendProperties DEF TypeOK
  <2>4. TypeOK'
    BY <1>1, <2>1, <2>2, <2>3 DEF TypeOK
  <2>5. StepsInv'
    BY <1>1, <2>1, <2>2, FileTailAssumption DEF StepsInv
  <2> QED
    BY <2>4, <2>5
<1>14. CASE ReadEOF
  <2>1. /\ pc = "read" /\ tail # None /\ pc' = "idle"
        /\ UNCHANGED <<up, info, disk, emitted, inflight, delivered, raced, left>>
    BY <1>14 DEF ReadEOF, StepsInv
  <2>2. /\ tail' \in TailedFile /\ tail'.ino = tail.ino /\ tail'.fh = tail.fh
        /\ tail'.pos = tail'.offset + Len(tail'.partial)
        /\ mem' = [ino |-> tail.ino, offset |-> tail.offset]
        /\ tail.ino \in Inodes /\ tail.offset \in Nat
    BY <1>14, ReadEOFFields
  <2>3. mem' \in Checkpoint
    BY <2>2 DEF Checkpoint
  <2>4. TypeOK'
    BY <1>1, <2>1, <2>2, <2>3 DEF TypeOK
  <2>5. StepsInv'
    BY <1>1, <2>1, <2>2, FileTailAssumption DEF StepsInv
  <2> QED
    BY <2>4, <2>5
<1>15. CASE ReadError
  <2>1. left' \in [DOMAIN Budget -> Nat] /\ \A k \in DOMAIN Budget : left'[k] <= Budget[k]
    BY <1>15, Spent DEF ReadError, TypeOK, StepsInv, Kinds
  <2> QED
    BY <1>1, <1>15, <2>1 DEF ReadError, TypeOK, StepsInv
<1>16. InputStep => Discover \/ Open \/ Poll \/ Reopen \/ ReadLine \/ ReadEOF
  BY DEF InputStep
<1> QED
  <2>1. \/ Start \/ Crash \/ Stop \/ Flush \/ InputStep \/ ReadError
        \/ \E l \in Lines : Ship(l)
    BY DEF AgentStep
  <2>2. CASE InputStep
    BY <1>9, <1>10, <1>11, <1>12, <1>13, <1>14, <1>16, <2>2
  <2> QED
    BY <1>4, <1>5, <1>6, <1>7, <1>8, <1>15, <2>1, <2>2

\* Every step keeps the types.
LEMMA TypeNext == TypeInv /\ [Next]_vars => TypeInv'
<1>1. ASSUME TypeInv, UNCHANGED vars PROVE TypeInv'
  <2>1. TypeOK' /\ StepsInv'
    BY <1>1 DEF TypeInv, TypeOK, StepsInv, vars
  <2>2. data' = data /\ wrote' = wrote /\ path' = path /\ FilesInv
    BY <1>1 DEF TypeInv, vars
  <2>3. FilesInv'
    BY <2>2, Emptied
  <2> QED
    BY <2>1, <2>3 DEF TypeInv
<1>2. Next => ApplicationStep \/ AgentStep
  BY DEF Next, ApplicationStep, AgentStep
<1> QED
  BY <1>1, <1>2, TypeApplication, TypeAgent

\* The state has its types, the files hold lines in the order they were written, and the
\* reader's position is the committed offset and the stashed partial line.
THEOREM TypeCorrect == Spec => []TypeInv
<1> QED
  BY TypeInit, TypeNext, PTL DEF Spec

-----------------------------------------------------------------------------
(* The order of the records.                                               *)

\* What is known of the numbers in the state.
LEMMA Numbers ==
  ASSUME TypeInv
  PROVE  /\ wrote \in Nat /\ Emitted \subseteq Lines \cup {Torn} /\ Emitted \subseteq Nat
         /\ \A i \in Inodes : /\ Size(i) \in Nat
                              /\ \A k \in 1..Size(i) : /\ data[i][k] \in Units
                                                       /\ data[i][k][1] \in Lines
                                                       /\ data[i][k][1] \in Nat
<1>1. \A k \in DOMAIN emitted : emitted[k] \in Lines \cup {Torn}
  BY ElementOfSeq, LenProperties DEF TypeInv, TypeOK
<1> QED
  BY <1>1, Bounds, Pieces, PieceOfLine DEF TypeInv, TypeOK, Emitted, Torn

\* The last piece of the file at the path, while a line is half written.
LEMMA HalfLine ==
  ASSUME TypeInv, MidLine
  PROVE  /\ path \in Inodes /\ Size(path) \in 1..Size(path)
         /\ data[path][Size(path)] = <<wrote, "start">>
<1>1. path \in Inodes
  BY DEF MidLine, TypeInv, TypeOK
<1>2. Size(path) \in 1..Size(path)
  BY <1>1, EmptySeq DEF MidLine, Size, TypeInv, TypeOK
<1>3. data[path][Size(path)] \in Units /\ data[path][Size(path)][2] = "start"
  BY <1>1, <1>2, Numbers, PieceOfLine DEF MidLine, EndsLine
<1>4. data[path][Size(path)][1] = wrote
  BY <1>1, <1>2, <1>3 DEF TypeInv, FilesInv
<1> QED
  BY <1>1, <1>2, <1>3, <1>4, PieceOfLine

\* What a stash and a read give together.
LEMMA Joined ==
  ASSUME NEW S, NEW stash \in Seq(S), NEW f, NEW a \in Nat, NEW b \in Nat, a < b,
         \A k \in (a + 1)..b : f[k] \in S,
         NEW line, line = stash \o SubSeq(f, a + 1, b)
  PROVE  /\ line \in Seq(S) /\ Len(line) = Len(stash) + (b - a)
         /\ \A k \in 1..Len(stash) : line[k] = stash[k]
         /\ \A k \in 1..(b - a) : line[Len(stash) + k] = f[a + k]
<1> DEFINE taken == SubSeq(f, a + 1, b)
<1>1. /\ taken \in Seq(S) /\ Len(taken) = b - a
      /\ \A k \in 1..(b - a) : taken[k] = f[a + k]
  <2>1. /\ taken \in Seq(S) /\ Len(taken) = IF a + 1 <= b THEN b - (a + 1) + 1 ELSE 0
        /\ \A k \in 1..(b - (a + 1) + 1) : taken[k] = f[(a + 1) + k - 1]
    BY SubSeqProperties
  <2> HIDE DEF taken
  <2>2. \A k \in 1..(b - a) : k \in 1..(b - (a + 1) + 1) /\ (a + 1) + k - 1 = a + k
    OBVIOUS
  <2> QED
    BY <2>1, <2>2
<1> HIDE DEF taken
<1>2. /\ stash \o taken \in Seq(S) /\ Len(stash \o taken) = Len(stash) + (b - a)
      /\ Len(stash) \in Nat
      /\ \A k \in 1..(Len(stash) + (b - a)) :
           (stash \o taken)[k] = IF k <= Len(stash) THEN stash[k] ELSE taken[k - Len(stash)]
  <2>1. taken \in Seq(S) /\ stash \in Seq(S) /\ Len(taken) = b - a /\ Len(stash) \in Nat
    BY <1>1
  <2>2. /\ stash \o taken \in Seq(S) /\ Len(stash \o taken) = Len(stash) + Len(taken)
        /\ \A k \in 1..(Len(stash) + Len(taken)) :
             (stash \o taken)[k] = IF k <= Len(stash) THEN stash[k] ELSE taken[k - Len(stash)]
    BY <2>1, ConcatProperties
  <2> QED
    BY <2>1, <2>2
<1>3. \A k \in 1..Len(stash) : (stash \o taken)[k] = stash[k]
  BY <1>2
<1>4. ASSUME NEW k \in 1..(b - a) PROVE (stash \o taken)[Len(stash) + k] = f[a + k]
  <2>1. Len(stash) + k \in 1..(Len(stash) + (b - a)) /\ ~(Len(stash) + k <= Len(stash))
        /\ (Len(stash) + k) - Len(stash) = k
    BY <1>2
  <2> QED
    BY <1>1, <1>2, <2>1
<1> QED
  BY <1>2, <1>3, <1>4 DEF taken

\* A record is torn, or it is the line that its last piece ends.
LEMMA RecordEnds ==
  ASSUME TypeInv, tail # None, LineEnd > 0
  PROVE  LET line == tail.partial \o SubSeq(data[tail.fh], tail.pos + 1, LineEnd)
         IN  Decode(line) = Torn \/ Decode(line) = data[tail.fh][LineEnd][1]
<1>1. tail.fh \in Inodes /\ tail.pos \in Nat /\ tail.partial \in Seq(Units)
  BY DEF TypeInv, TypeOK, TailedFile
<1>2. LineEnd \in (tail.pos + 1)..Size(tail.fh) /\ Size(tail.fh) \in Nat
  BY <1>1, LineEndFound, Numbers DEF TypeInv
<1>3. PICK f \in Seq(Units), stash \in Seq(Units), a \in Nat, b \in Nat :
        f = data[tail.fh] /\ stash = tail.partial /\ a = tail.pos /\ b = LineEnd
  <2>1. data[tail.fh] \in Seq(Units) /\ LineEnd \in Nat
    BY <1>1, <1>2 DEF TypeInv, TypeOK
  <2> QED
    BY <1>1, <2>1
<1>4. a < b /\ \A k \in (a + 1)..b : f[k] \in Units
  BY <1>1, <1>2, <1>3, Numbers
<1>5. PICK line \in Seq(Units) : line = stash \o SubSeq(f, a + 1, b) /\ line[Len(line)] = f[b]
  <2> DEFINE line == stash \o SubSeq(f, a + 1, b)
  <2> line = stash \o SubSeq(f, a + 1, b)
    OBVIOUS
  <2> HIDE DEF line
  <2>3. a < b /\ \A k \in (a + 1)..b : f[k] \in Units
    BY <1>4
  <2>1. /\ line \in Seq(Units) /\ Len(line) = Len(stash) + (b - a)
        /\ \A k \in 1..Len(stash) : line[k] = stash[k]
        /\ \A k \in 1..(b - a) : line[Len(stash) + k] = f[a + k]
    BY <2>3, Joined
  <2>2. b - a \in 1..(b - a) /\ a + (b - a) = b
    BY <1>4
  <2> QED
    BY <2>1, <2>2
<1>6. ASSUME NEW l \in Lines, line \in {<< <<l, "whole">> >>, << <<l, "start">>, <<l, "end">> >>}
      PROVE  line[Len(line)][1] = line[1][1]
  BY <1>6
<1>7. Decode(line) = Torn \/ Decode(line) = f[b][1]
  BY <1>5, <1>6 DEF Decode
<1> QED
  BY <1>3, <1>5, <1>7

\* The start is in order.
LEMMA OrderInit == Init => OrderInv
<1> SUFFICES ASSUME Init PROVE OrderInv
  OBVIOUS
<1>1. DOMAIN emitted = {} /\ Emitted = {} /\ path = None /\ tail = None /\ pc = "idle"
  BY DEF Init, Emitted
<1> QED
  BY <1>1 DEF OrderInv, InOrderOnce, AheadFrom, MidLine

\* The parts of OrderInv under its hypothesis.
InOrder ==
  /\ InOrderOnce
  /\ MidLine => wrote \notin Emitted
  /\ pc = "reopen" => path # tail.fh
  /\ path # None /\ (tail = None \/ tail.fh # path) => AheadFrom(path, 0)
  /\ tail # None =>
       /\ AheadFrom(tail.fh, tail.pos)
       /\ Size(tail.fh) < tail.pos => AheadFrom(tail.fh, 0)
       /\ path # None /\ path # tail.fh =>
            \A j \in 1..Size(tail.fh) : \A k \in 1..Size(path) :
              data[tail.fh][j][1] < data[path][k][1]

LEMMA OrderParts == OrderInv <=> (\A l \in Emitted : l <= wrote) /\ (OneLife /\ ~raced => InOrder)
BY DEF OrderInv, InOrder

\* A piece that comes after every record keeps the order.
LEMMA OrderGrown ==
  ASSUME TypeInv, InOrder, path \in Inodes, NEW u \in Units, Grow(u),
         \A l \in Emitted : l < u[1],
         \A i \in Inodes \ {path} : \A j \in 1..Size(i) : 
           (tail # None /\ i = tail.fh) => data[i][j][1] < u[1],
         UNCHANGED <<path, tail, emitted, pc, left, raced>>,
         MidLine' => wrote' \notin Emitted
  PROVE  InOrder'
<1>1. /\ \A i \in Inodes : i # path => data'[i] = data[i]
      /\ Len(data'[path]) = Size(path) + 1
      /\ \A k \in 1..Size(path) : data'[path][k] = data[path][k]
      /\ data'[path][Size(path) + 1] = u
  BY Grown DEF TypeInv
<1>2. Size(path) \in Nat /\ Emitted' = Emitted /\ InOrderOnce'
  BY Numbers DEF Emitted, InOrder, InOrderOnce, OneLife
<1>3. ASSUME NEW i \in Inodes, NEW o, AheadFrom(i, o) PROVE AheadFrom(i, o)'
  <2>1. CASE i # path
    BY <1>1, <1>2, <1>3, <2>1 DEF AheadFrom, Size
  <2>2. CASE i = path
    <3>1. \A k \in 1..Len(data'[i]) : k = Size(i) + 1 \/ k \in 1..Size(i)
      BY <1>1, <1>2, <2>2
    <3> QED
      BY <1>1, <1>2, <1>3, <2>2, <3>1 DEF AheadFrom, Size
  <2> QED
    BY <2>1, <2>2
<1>4. path # None /\ (tail = None \/ tail.fh # path) => AheadFrom(path, 0)'
  BY <1>3 DEF InOrder
<1>5. ASSUME tail # None
      PROVE  /\ AheadFrom(tail.fh, tail.pos)'
             /\ Size(tail.fh)' < tail.pos => AheadFrom(tail.fh, 0)'
             /\ path # None /\ path # tail.fh =>
                  \A j \in 1..Size(tail.fh)' : \A k \in 1..Size(path)' :
                    data'[tail.fh][j][1] < data'[path][k][1]
  <2>1. tail.fh \in Inodes /\ tail.pos \in Nat /\ Size(tail.fh) \in Nat
    BY <1>5, Numbers DEF TypeInv, TypeOK, TailedFile
  <2>2. AheadFrom(tail.fh, tail.pos)
    BY <1>5 DEF InOrder
  <2>3. \A h \in Inodes : \A o : AheadFrom(h, o) =>
            \A l \in Emitted' : \A k \in 1..Len(data'[h]) : k > o => l < data'[h][k][1]
    BY <1>3 DEF AheadFrom, Size
  <2>4. Size(tail.fh)' < tail.pos => Size(tail.fh) < tail.pos
    BY <1>1, <1>2, <2>1 DEF Size
  <2>5. Size(tail.fh) < tail.pos => AheadFrom(tail.fh, 0)
    BY <1>5 DEF InOrder
  <2>6. ASSUME path # None, path # tail.fh, NEW j \in 1..Size(tail.fh), NEW k \in 1..(Size(path) + 1)
        PROVE  data'[tail.fh][j][1] < data'[path][k][1]
    <3>1. data'[tail.fh][j] = data[tail.fh][j]
      BY <1>1, <2>1, <2>6
    <3>2. CASE k \in 1..Size(path)
      BY <1>1, <1>5, <2>6, <3>1, <3>2 DEF InOrder
    <3>3. CASE k = Size(path) + 1
      BY <1>1, <1>5, <2>1, <2>6, <3>1, <3>3
    <3> QED
      BY <3>2, <3>3, <1>2
  <2>7. tail' = tail /\ path' = path
    OBVIOUS
  <2>8. path # tail.fh => Len(data'[tail.fh]) = Size(tail.fh)
    BY <1>1, <2>1 DEF Size
  <2> QED
    BY <1>1, <2>1, <2>2, <2>3, <2>4, <2>5, <2>6, <2>7, <2>8 DEF AheadFrom, Size
<1> QED
  BY <1>2, <1>4, <1>5 DEF InOrder

\* What the application and logrotate do keeps the order.
LEMMA OrderApplication ==
  ASSUME TypeInv, OrderInv, ApplicationStep
  PROVE  OrderInv'
<1>1. /\ \A l \in Emitted : l <= wrote
      /\ OneLife /\ ~raced => InOrder
  BY OrderParts
<1>2. /\ wrote \in Nat /\ Emitted \subseteq Nat
      /\ \A i \in Inodes : Size(i) \in Nat /\ \A k \in 1..Size(i) : data[i][k][1] \in Nat
  BY Numbers
<1>3. SUFFICES /\ \A l \in Emitted' : l <= wrote'
               /\ (OneLife /\ ~raced)' => InOrder'
  <2>1. ((\A l \in Emitted : l <= wrote) /\ (OneLife /\ ~raced => InOrder))' => OrderInv'
    BY DEF OrderInv, InOrder
  <2> QED
    BY <2>1
<1>4. CASE \E part \in {"whole", "start"} : WriteLine(part)
  <2>1. PICK part \in {"whole", "start"} : WriteLine(part)
    BY <1>4
  <2>2. /\ path \in Inodes /\ wrote + 1 \in Lines /\ Grow(<<wrote + 1, part>>)
        /\ wrote' = wrote + 1
        /\ UNCHANGED <<path, tail, emitted, pc, left, raced>>
    <3>1. /\ path # None /\ wrote < MaxLines /\ Grow(<<wrote + 1, part>>) /\ wrote' = wrote + 1
          /\ UNCHANGED <<path, tail, emitted, pc, left, raced>>
      BY <2>1 DEF WriteLine
    <3>2. path \in Inodes \cup {None} /\ wrote \in 0..MaxLines
      BY DEF TypeInv, TypeOK
    <3>3. wrote + 1 \in Lines
      BY <3>1, <3>2, Bounds DEF Lines
    <3> QED
      BY <3>1, <3>2, <3>3
  <2>3. <<wrote + 1, part>> \in Units /\ Emitted' = Emitted
    BY <2>2 DEF Units, Emitted
  <2>4. \A i \in Inodes \ {path} : \A j \in 1..Size(i) : data[i][j][1] < wrote + 1
    BY <1>2 DEF TypeInv, FilesInv
  <2>5. \A l \in Emitted : l < wrote + 1
    BY <1>1, <1>2
  <2>6. wrote' \notin Emitted
    BY <2>2, <2>5, <1>2
  <2>7. OneLife /\ ~raced => InOrder'
    <3> SUFFICES ASSUME InOrder PROVE InOrder'
      BY <1>1
    <3>1. PICK u \in Units : u = <<wrote + 1, part>> /\ u[1] = wrote + 1
      BY <2>3
    <3> QED
      BY <2>2, <2>3, <2>4, <2>5, <2>6, <3>1, OrderGrown
  <2> QED
    BY <1>2, <2>2, <2>3, <2>5, <2>7 DEF OneLife
<1>5. CASE WriteEnd
  <2>1. /\ MidLine /\ path \in Inodes /\ Grow(<<wrote, "end">>) /\ wrote' = wrote
        /\ UNCHANGED <<path, tail, emitted, pc, left, raced>>
    BY <1>5, HalfLine DEF WriteEnd
  <2>2. /\ Size(path) \in 1..Size(path) /\ data[path][Size(path)] = <<wrote, "start">>
        /\ wrote \in Lines
    BY <2>1, HalfLine, Numbers
  <2>3. <<wrote, "end">> \in Units /\ Emitted' = Emitted
    BY <2>1, <2>2 DEF Units, Emitted
  <2>4. OneLife /\ ~raced => InOrder'
    <3> SUFFICES ASSUME InOrder PROVE InOrder'
      BY <1>1
    <3>1. PICK u \in Units : u = <<wrote, "end">> /\ u[1] = wrote
      BY <2>3
    <3>2. wrote \notin Emitted /\ \A l \in Emitted : l < u[1]
      BY <1>1, <1>2, <2>1, <3>1 DEF InOrder
    <3>3. ASSUME NEW i \in Inodes \ {path}, NEW j \in 1..Size(i), tail # None, i = tail.fh
          PROVE  data[i][j][1] < u[1]
      <4>1. data[i][j][1] < data[path][Size(path)][1]
        BY <2>1, <2>2, <3>3, FileTailAssumption DEF InOrder
      <4> QED
        BY <2>2, <3>1, <4>1
    <3> QED
      BY <2>1, <2>3, <3>1, <3>2, <3>3, OrderGrown
  <2> QED
    BY <1>1, <2>1, <2>3, <2>4 DEF OneLife
<1>6. CASE Rotate
  <2>1. /\ path' = None /\ raced' = (raced \/ pc \in {"open", "reopen"})
        /\ UNCHANGED <<data, wrote, tail, emitted, pc>>
        /\ Spend("rotate")
    BY <1>6 DEF Rotate
  <2>2. OneLife' => OneLife
    BY <2>1, Spent DEF OneLife, TypeInv, TypeOK, StepsInv, Kinds
  <2>3. ~raced' => ~raced /\ pc # "reopen"
    BY <2>1
  <2>4. Emitted' = Emitted /\ ~MidLine'
    BY <2>1 DEF Emitted, MidLine
  <2>5. ASSUME InOrder, pc # "reopen" PROVE InOrder'
    <3>1. InOrderOnce'
      BY <2>1, <2>2, <2>5 DEF InOrder, InOrderOnce
    <3>2. tail # None => AheadFrom(tail.fh, tail.pos)'
      BY <2>1, <2>4, <2>5 DEF InOrder, AheadFrom, Size
    <3>3. tail # None /\ (Size(tail.fh) < tail.pos)' => AheadFrom(tail.fh, 0)'
      BY <2>1, <2>4, <2>5 DEF InOrder, AheadFrom, Size
    <3> QED
      BY <2>1, <2>4, <2>5, <3>1, <3>2, <3>3 DEF InOrder
  <2> QED
    BY <1>1, <2>1, <2>2, <2>3, <2>4, <2>5
<1>7. CASE Truncate
  <2>1. /\ path \in Inodes /\ data'[path] = <<>> /\ Len(data'[path]) = 0
        /\ \A i \in Inodes \ {path} : data'[i] = data[i]
        /\ UNCHANGED <<path, wrote, tail, emitted, pc, raced>> /\ Spend("truncate")
    BY <1>7 DEF Truncate, TypeInv, TypeOK
  <2>2. OneLife' => OneLife
    BY <2>1, Spent DEF OneLife, TypeInv, TypeOK, StepsInv, Kinds
  <2>3. Emitted' = Emitted /\ ~MidLine'
    BY <2>1 DEF Emitted, MidLine
  <2>4. ASSUME NEW i \in Inodes, NEW o, i = path \/ AheadFrom(i, o) PROVE AheadFrom(i, o)'
    BY <2>1, <2>3, <2>4 DEF AheadFrom, Size
  <2>5. tail # None => tail.fh \in Inodes /\ tail.pos \in Nat
    BY DEF TypeInv, TypeOK, TailedFile
  <2>6. ASSUME InOrder PROVE InOrder'
    <3>1. InOrderOnce'
      BY <2>1, <2>2, <2>6 DEF InOrder, InOrderOnce, OneLife
    <3>2. AheadFrom(path, 0)'
      BY <2>1, <2>4
    <3>3. tail # None => AheadFrom(tail.fh, tail.pos)'
      <4> SUFFICES ASSUME tail # None PROVE AheadFrom(tail.fh, tail.pos)'
        OBVIOUS
      <4>1. PICK i \in Inodes, o \in Nat : i = tail.fh /\ o = tail.pos
        BY <2>5
      <4>2. AheadFrom(i, o)
        BY <2>6, <4>1 DEF InOrder
      <4>3. AheadFrom(i, o)'
        BY <2>4, <4>2
      <4> QED
        BY <2>1, <4>1, <4>3 DEF AheadFrom, Size, Emitted
    <3>4. tail # None /\ (Size(tail.fh) < tail.pos)' => AheadFrom(tail.fh, 0)'
      <4> SUFFICES ASSUME tail # None, (Size(tail.fh) < tail.pos)' PROVE AheadFrom(tail.fh, 0)'
        OBVIOUS
      <4>1. PICK i \in Inodes : i = tail.fh
        BY <2>5
      <4>2. i = path \/ AheadFrom(i, 0)
        BY <2>1, <2>6, <4>1 DEF InOrder, Size
      <4>3. AheadFrom(i, 0)'
        BY <2>4, <4>2
      <4> QED
        BY <2>1, <4>1, <4>3 DEF AheadFrom, Size, Emitted
    <3> QED
      BY <2>1, <2>3, <2>6, <3>1, <3>2, <3>3, <3>4 DEF InOrder, Size
  <2> QED
    BY <1>1, <2>1, <2>2, <2>3, <2>6
<1>8. CASE \E i \in Inodes : Create(i)
  <2>1. PICK i \in Inodes : Create(i)
    BY <1>8
  <2>2. /\ path = None /\ path' = i /\ data'[i] = <<>> /\ Len(data'[i]) = 0
        /\ \A j \in Inodes \ {i} : data'[j] = data[j]
        /\ UNCHANGED <<wrote, tail, emitted, pc, raced, left>>
        /\ tail # None => tail.fh # i
    BY <2>1 DEF Create, TypeInv, TypeOK
  <2>3. Emitted' = Emitted /\ ~MidLine'
    BY <2>2 DEF Emitted, MidLine
  <2>4. tail # None => tail.fh \in Inodes /\ data'[tail.fh] = data[tail.fh]
    BY <2>2 DEF TypeInv, TypeOK, TailedFile
  <2>5. ~raced => pc # "reopen"
    BY <2>2 DEF TypeInv, StepsInv
  <2>6. ASSUME InOrder, ~raced PROVE InOrder'
    <3>1. InOrderOnce'
      BY <2>2, <2>6 DEF InOrder, InOrderOnce, OneLife
    <3>2. AheadFrom(path, 0)'
      BY <2>2 DEF AheadFrom, Size
    <3>3. tail # None => AheadFrom(tail.fh, tail.pos)'
      BY <2>2, <2>3, <2>4, <2>6 DEF InOrder, AheadFrom, Size
    <3>4. tail # None /\ (Size(tail.fh) < tail.pos)' => AheadFrom(tail.fh, 0)'
      BY <2>2, <2>3, <2>4, <2>6 DEF InOrder, AheadFrom, Size
    <3> QED
      BY <2>2, <2>3, <2>5, <2>6, <3>1, <3>2, <3>3, <3>4 DEF InOrder, Size
  <2> QED
    BY <1>1, <2>2, <2>3, <2>6 DEF OneLife
<1> QED
  BY <1>4, <1>5, <1>6, <1>7, <1>8 DEF ApplicationStep

\* What the agent does, but for emitting a record, keeps the order.
LEMMA OrderAgent ==
  ASSUME TypeInv, OrderInv, AgentStep, ~ReadLine
  PROVE  OrderInv'
<1>1. /\ \A l \in Emitted : l <= wrote
      /\ OneLife /\ ~raced => InOrder
  BY OrderParts
<1>2. UNCHANGED <<path, data, used, wrote>>
  BY AgentOnlyReads DEF files, TypeInv
<1>3. emitted' = emitted /\ raced' = raced
  BY DEF AgentStep, InputStep, Start, Crash, Stop, Flush, Ship, Discover, Open, Poll, Reopen,
         ReadEOF, ReadError
<1>4. Emitted' = Emitted /\ \A i, o : AheadFrom(i, o)' <=> AheadFrom(i, o)
  BY <1>2, <1>3 DEF Emitted, AheadFrom, Size
<1>5. SUFFICES ASSUME OneLife', ~raced PROVE InOrder'
  <2>1. ((\A l \in Emitted : l <= wrote) /\ (OneLife /\ ~raced => InOrder))' => OrderInv'
    BY DEF OrderInv, InOrder
  <2> QED
    BY <1>1, <1>2, <1>3, <1>4, <2>1
<1>6. ~Crash /\ ~Stop /\ ~ReadError /\ left' = left
  <2>1. /\ left \in [DOMAIN Budget -> Nat] /\ \A k \in DOMAIN Budget : left[k] <= Budget[k]
        /\ {"crash", "stop", "fault"} \subseteq Kinds
        /\ left'["crash"] = Budget["crash"] /\ left'["stop"] = Budget["stop"]
        /\ left'["fault"] = Budget["fault"]
    BY <1>5 DEF OneLife, TypeInv, TypeOK, StepsInv, Kinds, Budget
  <2>2. Budget["crash"] \in Nat /\ Budget["stop"] \in Nat /\ Budget["fault"] \in Nat
    BY Bounds DEF Budget
  <2>3. \A k \in {"crash", "stop", "fault"} : ~Spend(k)
    BY <2>1, <2>2, Spent
  <2>4. ~Crash /\ ~Stop /\ ~ReadError
    BY <2>3 DEF Crash, Stop, ReadError
  <2> QED
    BY <2>4 DEF AgentStep, InputStep, Start, Flush, Ship, Discover, Open, Poll, Reopen,
                ReadLine, ReadEOF
<1>7. InOrder /\ InOrderOnce' /\ (MidLine' <=> MidLine)
  BY <1>1, <1>2, <1>3, <1>5, <1>6 DEF OneLife, InOrder, InOrderOnce, MidLine, Size
<1>8. CASE UNCHANGED tail /\ (pc' = pc \/ pc' # "reopen")
  BY <1>2, <1>3, <1>4, <1>7, <1>8 DEF InOrder, Size, AheadFrom, Emitted
<1>9. CASE Open
  <2>1. pc = "open" /\ pc' = "idle" /\ tail = None
    BY <1>9 DEF Open, TypeInv, StepsInv
  <2>2. CASE UNCHANGED tail
    BY <1>8, <2>1, <2>2
  <2>3. CASE /\ path # None
             /\ tail' = [ino |-> info.ino, fh |-> path, pos |-> ResumePoint,
                         offset |-> ResumePoint, partial |-> <<>>]
    <3>1. tail'.fh = path /\ tail'.pos = ResumePoint /\ AheadFrom(path, 0) /\ path \in Inodes
      BY <1>7, <2>1, <2>3 DEF InOrder, TypeInv, TypeOK
    <3>2. ResumePoint \in Nat
      BY <2>1 DEF ResumePoint, Checkpoint, TypeInv, TypeOK
    <3>3. \A o \in Nat : \A l \in Emitted' : \A k \in 1..Len(data'[path]) : k > o => l < data'[path][k][1]
      BY <1>2, <1>4, <3>1, Numbers DEF AheadFrom, Size
    <3> QED
      BY <1>2, <1>4, <1>7, <2>1, <3>1, <3>2, <3>3 DEF InOrder, AheadFrom, Size
  <2> QED
    BY <1>9, <2>2, <2>3 DEF Open, OpenSucceeds
<1>10. CASE Poll
  <2>1. tail # None /\ pc = "idle" /\ tail.fh = tail.ino
    BY <1>5, <1>10 DEF Poll, TypeInv, StepsInv
  <2>2. CASE path = None /\ tail' = None /\ pc' = pc
    BY <1>2, <1>4, <1>7, <2>1, <2>2 DEF InOrder
  <2>3. CASE path # None /\ path # tail.ino /\ tail' = tail
    BY <1>2, <1>3, <1>4, <1>7, <2>1, <2>3 DEF InOrder, Size, AheadFrom, Emitted
  <2>4. CASE path # None /\ path = tail.ino /\ pc' = "read" /\ tail' = IF Shrunk THEN Rewound ELSE tail
    <3>1. CASE ~Shrunk
      BY <1>8, <2>4, <3>1
    <3>2. CASE Shrunk
      <4>1. tail' = Rewound /\ tail'.fh = path /\ tail'.pos = 0 /\ tail' # None
        BY <2>1, <2>4, <3>2, RewoundFields, FileTailAssumption DEF TypeInv
      <4>2. Size(path) < tail.pos
        <5>1. /\ tail.offset \in Nat /\ tail.pos = tail.offset + Len(tail.partial)
              /\ Len(tail.partial) \in Nat /\ Size(path) \in Nat
          BY <2>1, <2>4, Numbers DEF TypeInv, TypeOK, StepsInv, TailedFile
        <5> QED
          BY <3>2, <5>1 DEF Shrunk
      <4>3. AheadFrom(path, 0)
        BY <1>7, <2>1, <2>4, <4>2 DEF InOrder
      <4>4. \A l \in Emitted' : \A k \in 1..Len(data'[path]) : k > 0 => l < data'[path][k][1]
        BY <1>2, <1>4, <4>3 DEF AheadFrom, Size
      <4> QED
        <5>1. AheadFrom(tail.fh, tail.pos)' /\ AheadFrom(tail.fh, 0)'
          BY <4>1, <4>4 DEF AheadFrom, Size
        <5> QED
          BY <1>2, <1>4, <1>7, <2>1, <2>4, <4>1, <5>1 DEF InOrder
    <3> QED
      BY <3>1, <3>2
  <2> QED
    BY <1>10, <2>2, <2>3, <2>4 DEF Poll, Rotated
<1>11. CASE Reopen
  <2>1. pc = "reopen" /\ tail # None /\ pc' # "reopen" /\ info.ino = path /\ info.ino \in used \ {None}
    BY <1>5, <1>11 DEF Reopen, TypeInv, StepsInv
  <2>2. path \in Inodes /\ path # None
    BY <2>1 DEF TypeInv, TypeOK
  <2>3. path # tail.fh /\ AheadFrom(path, 0)
    BY <1>7, <2>1, <2>2 DEF InOrder
  <2>4. tail' = [AtStart(ReopenedPartial) EXCEPT !.ino = info.ino, !.fh = path]
    BY <1>11, <2>2 DEF Reopen
  <2>5. tail'.fh = path /\ tail'.pos = 0
    BY <2>1, <2>2, <2>4, ReopenedFields DEF TypeInv
  <2>6. \A l \in Emitted' : \A k \in 1..Len(data'[path]) : k > 0 => l < data'[path][k][1]
    BY <1>2, <1>4, <2>3 DEF AheadFrom, Size
  <2> QED
    <3>1. AheadFrom(tail.fh, tail.pos)' /\ AheadFrom(tail.fh, 0)'
      BY <2>5, <2>6 DEF AheadFrom, Size
    <3> QED
      BY <1>2, <1>4, <1>7, <2>1, <2>2, <2>5, <3>1 DEF InOrder
<1>12. CASE ReadEOF
  <2>1. pc = "read" /\ pc' = "idle" /\ tail # None
    BY <1>12 DEF ReadEOF, TypeInv, StepsInv
  <2>2. /\ tail' \in TailedFile /\ tail'.fh = tail.fh /\ tail.fh \in Inodes
        /\ tail.pos \in Nat /\ Size(tail.fh) \in Nat
        /\ tail'.pos = IF tail.pos < Size(tail.fh) THEN Size(tail.fh) ELSE tail.pos
    BY <1>12, ReadEOFFields DEF TypeInv
  <2>3. /\ AheadFrom(tail.fh, tail.pos)
        /\ Size(tail.fh) < tail.pos => AheadFrom(tail.fh, 0)
        /\ tail'.pos >= tail.pos /\ (Size(tail.fh) < tail'.pos => Size(tail.fh) < tail.pos)
        /\ tail' # None /\ tail'.pos \in Nat
    BY <1>7, <2>1, <2>2, FileTailAssumption DEF InOrder
  <2>4. \A l \in Emitted' : \A k \in 1..Len(data'[tail.fh]) : k > tail'.pos => l < data'[tail.fh][k][1]
    BY <1>2, <1>4, <2>2, <2>3 DEF AheadFrom, Size
  <2>5. Size(tail.fh) < tail'.pos =>
          \A l \in Emitted' : \A k \in 1..Len(data'[tail.fh]) : k > 0 => l < data'[tail.fh][k][1]
    BY <1>2, <1>4, <2>3 DEF AheadFrom, Size
  <2>6. path # None /\ (tail' = None \/ tail'.fh # path) => AheadFrom(path, 0)'
    BY <1>2, <1>4, <1>7, <2>1, <2>2, <2>3 DEF InOrder, AheadFrom, Size
  <2> QED
    <3>1. AheadFrom(tail.fh, tail.pos)'
      BY <2>2, <2>4 DEF AheadFrom, Size
    <3>2. (Size(tail.fh) < tail.pos)' => AheadFrom(tail.fh, 0)'
      BY <1>2, <2>2, <2>5 DEF AheadFrom, Size
    <3> QED
      BY <1>2, <1>4, <1>7, <2>1, <2>2, <2>3, <2>6, <3>1, <3>2 DEF InOrder, Size
<1> QED
  BY <1>6, <1>8, <1>9, <1>10, <1>11, <1>12
     DEF AgentStep, InputStep, Start, Flush, Ship, Discover

\* A record comes after the records before it.
LEMMA OrderReadLine == ASSUME TypeInv, OrderInv, ReadLine PROVE OrderInv'
<1> DEFINE line == tail.partial \o SubSeq(data[tail.fh], tail.pos + 1, LineEnd)
<1>1. /\ pc = "read" /\ tail # None /\ LineEnd > 0
      /\ emitted' = Append(emitted, Decode(line))
      /\ UNCHANGED <<path, data, wrote, pc, raced, left>>
  BY DEF ReadLine, TypeInv, StepsInv
<1>2. /\ \A l \in Emitted : l <= wrote
      /\ OneLife /\ ~raced => InOrder
  BY OrderParts
<1>3. PICK h \in Inodes, a \in Nat, b \in Nat :
        /\ h = tail.fh /\ a = tail.pos /\ b = LineEnd
        /\ b \in (a + 1)..Size(h) /\ Size(h) \in Nat /\ EndsLine(data[h][b])
  <2>1. tail.fh \in Inodes /\ tail.pos \in Nat
    BY <1>1 DEF TypeInv, TypeOK, TailedFile
  <2>2. Size(tail.fh) \in Nat
    BY <2>1, Numbers
  <2>3. LineEnd \in (tail.pos + 1)..Size(tail.fh) /\ EndsLine(data[tail.fh][LineEnd])
    BY <1>1, <2>1, <2>2, LineEndFound DEF TypeInv
  <2> QED
    BY <2>1, <2>2, <2>3
<1>4. /\ tail'.fh = h /\ tail'.pos = b /\ tail' # None
  BY <1>3, ReadLineFields, FileTailAssumption DEF TypeInv
<1>5. PICK r \in Lines \cup {Torn} : r = Decode(line) /\ (r = Torn \/ r = data[h][b][1])
  BY <1>1, <1>3, RecordEnds, DecodeType
<1>6. emitted' = Append(emitted, r)
  BY <1>1, <1>5
<1> HIDE DEF line
<1>7. /\ Len(emitted) \in Nat /\ DOMAIN emitted = 1..Len(emitted)
      /\ DOMAIN emitted' = 1..(Len(emitted) + 1)
      /\ \A k \in 1..Len(emitted) : emitted'[k] = emitted[k]
      /\ emitted'[Len(emitted) + 1] = r
  <2>1. emitted \in Seq(Lines \cup {Torn})
    BY DEF TypeInv, TypeOK
  <2>2. /\ Append(emitted, r) \in Seq(Lines \cup {Torn})
        /\ Len(Append(emitted, r)) = Len(emitted) + 1
        /\ \A k \in 1..Len(emitted) : Append(emitted, r)[k] = emitted[k]
        /\ Append(emitted, r)[Len(emitted) + 1] = r
    BY <2>1, AppendProperties
  <2>3. DOMAIN emitted = 1..Len(emitted) /\ Len(emitted) \in Nat
    BY <2>1, LenProperties
  <2>4. DOMAIN Append(emitted, r) = 1..Len(Append(emitted, r))
    BY <2>2, LenProperties
  <2> QED
    BY <1>6, <2>2, <2>3, <2>4
<1>8. Emitted' = Emitted \cup {r}
  BY <1>7 DEF Emitted
<1>9. /\ wrote \in Nat /\ Emitted \subseteq Nat /\ r \in Nat
      /\ \A i \in Inodes : \A k \in 1..Size(i) : data[i][k][1] \in Nat /\ data[i][k][1] > 0
  BY Numbers, Bounds DEF Torn, Lines
<1>10. b \in 1..Size(h) /\ data[h][b][1] <= wrote
  <2>1. b \in 1..Size(h)
    BY <1>3
  <2> QED
    BY <2>1 DEF TypeInv, FilesInv
<1>11. r <= wrote
  BY <1>5, <1>9, <1>10 DEF Torn
<1>12. ASSUME NEW k \in 1..Size(h), k > b PROVE r < data[h][k][1]
  <2>1. b \in 1..(k - 1)
    BY <1>3, <1>12
  <2>2. data[h][b][1] < data[h][k][1]
    BY <1>3, <2>1 DEF TypeInv, FilesInv
  <2> QED
    BY <1>5, <1>9, <2>2 DEF Torn
<1>13. ASSUME InOrder PROVE InOrder'
  <2>1. AheadFrom(h, a) /\ \A l \in Emitted : l < data[h][b][1]
    <3>1. AheadFrom(h, a)
      BY <1>1, <1>3, <1>13 DEF InOrder
    <3> QED
      BY <1>3, <1>10, <3>1 DEF AheadFrom
  <2>2. ASSUME NEW j \in DOMAIN emitted', NEW k \in DOMAIN emitted', j < k,
               Torn \notin {emitted'[j], emitted'[k]}, OneLife, ~raced
        PROVE  emitted'[j] < emitted'[k]
    <3>1. j \in 1..Len(emitted) /\ emitted'[j] = emitted[j] /\ emitted[j] \in Emitted
      BY <1>7, <2>2 DEF Emitted
    <3>2. CASE k = Len(emitted) + 1
      BY <1>5, <1>7, <2>1, <2>2, <3>1, <3>2
    <3>3. CASE k \in 1..Len(emitted)
      <4>1. emitted'[k] = emitted[k] /\ j \in DOMAIN emitted /\ k \in DOMAIN emitted
        BY <1>7, <3>1, <3>3
      <4> QED
        BY <1>13, <2>2, <3>1, <4>1 DEF InOrder, InOrderOnce
    <3> QED
      BY <1>7, <3>2, <3>3
  <2>3. InOrderOnce'
    BY <1>1, <2>2 DEF InOrderOnce, OneLife
  <2>4. MidLine => wrote # r /\ wrote \notin Emitted
    <3> SUFFICES ASSUME MidLine PROVE wrote # r /\ wrote \notin Emitted
      OBVIOUS
    <3>1. /\ path \in Inodes /\ Size(path) \in 1..Size(path)
          /\ data[path][Size(path)] = <<wrote, "start">>
      BY HalfLine
    <3>2. wrote \notin Emitted /\ wrote > 0
      BY <1>9, <1>13, <3>1 DEF InOrder
    <3>3. CASE path = h
      <4>1. b # Size(h)
        BY <1>3, <3>1, <3>3 DEF EndsLine
      <4>2. r < data[h][Size(h)][1]
        BY <1>3, <1>12, <3>1, <3>3, <4>1
      <4> QED
        BY <1>9, <3>1, <3>2, <3>3, <4>2
    <3>4. CASE path # h
      <4>1. data[h][b][1] < data[path][Size(path)][1]
        BY <1>1, <1>3, <1>10, <1>13, <3>1, <3>4, FileTailAssumption DEF InOrder
      <4> QED
        BY <1>5, <1>9, <1>10, <3>1, <3>2, <4>1 DEF Torn
    <3> QED
      BY <3>3, <3>4
  <2>5. \A l \in Emitted' : \A k \in 1..Size(h) : k > b => l < data[h][k][1]
    BY <1>3, <1>8, <1>12, <2>1 DEF AheadFrom
  <2>6. AheadFrom(tail.fh, tail.pos)'
    BY <1>1, <1>4, <2>5 DEF AheadFrom, Size
  <2>7. ~(Size(tail.fh) < tail.pos)'
    BY <1>1, <1>3, <1>4 DEF Size
  <2>8. ASSUME path # None, path # h PROVE AheadFrom(path, 0)'
    <3>1. AheadFrom(path, 0) /\ path \in Inodes
      BY <1>3, <1>13, <2>8 DEF InOrder, TypeInv, TypeOK
    <3>2. \A k \in 1..Size(path) : data[h][b][1] < data[path][k][1]
      BY <1>1, <1>3, <1>10, <1>13, <2>8 DEF InOrder
    <3>3. \A k \in 1..Size(path) : r < data[path][k][1]
      BY <1>5, <1>9, <3>1, <3>2 DEF Torn
    <3> QED
      BY <1>1, <1>8, <3>1, <3>3 DEF AheadFrom, Size
  <2>9. (path # None /\ path # tail.fh)' =>
          \A j \in 1..Size(tail.fh)' : \A k \in 1..Size(path)' : data'[tail'.fh][j][1] < data'[path'][k][1]
    BY <1>1, <1>3, <1>4, <1>13 DEF InOrder, Size
  <2>10. MidLine' <=> MidLine
    BY <1>1 DEF MidLine, Size
  <2> QED
    BY <1>1, <1>4, <1>8, <2>3, <2>4, <2>6, <2>7, <2>8, <2>9, <2>10 DEF InOrder
<1>14. ((\A l \in Emitted : l <= wrote) /\ (OneLife /\ ~raced => InOrder))' => OrderInv'
  BY DEF OrderInv, InOrder
<1>15. \A l \in Emitted' : l <= wrote'
  BY <1>1, <1>2, <1>8, <1>11
<1>16. (OneLife /\ ~raced)' => InOrder'
  BY <1>1, <1>2, <1>13 DEF OneLife
<1> QED
  BY <1>14, <1>15, <1>16

\* Every step keeps the order.
LEMMA OrderNext == TypeInv /\ OrderInv /\ [Next]_vars => OrderInv'
<1>1. ASSUME OrderInv, UNCHANGED vars PROVE OrderInv'
  BY <1>1 DEF OrderInv, InOrderOnce, OneLife, MidLine, AheadFrom, Size, Emitted, vars
<1>2. Next => ApplicationStep \/ AgentStep
  BY DEF Next, ApplicationStep, AgentStep
<1> QED
  BY <1>1, <1>2, OrderApplication, OrderAgent, OrderReadLine

\* Within one life of the agent no line is emitted twice or out of order, however often the
\* file is rotated or truncated, provided no rotation falls between a Stat and the Open after
\* it: for both values of from_beginning, and even if inode numbers are used again.
THEOREM RecordsInOrder == Spec => []InOrderOnce
<1>1. OrderInv => InOrderOnce
  BY DEF OrderInv, InOrderOnce
<1> QED
  BY <1>1, TypeInit, TypeNext, OrderInit, OrderNext, PTL DEF Spec

-----------------------------------------------------------------------------
(* Whole records, and checkpoints that cover only what was emitted.        *)

\* Between two lines no piece ends a line, and behind a first piece comes its end.
LEMMA NextPiece ==
  ASSUME TypeInv, NEW h \in Inodes, NEW p \in Nat, p < Size(h)
  PROVE  /\ Boundary(h, p) => data[h][p + 1][2] # "end"
         /\ p > 0 /\ ~EndsLine(data[h][p]) => data[h][p + 1] = <<data[h][p][1], "end">>
<1>1. p + 1 \in 1..Size(h) /\ Size(h) \in Nat /\ (p > 0 => p \in 1..Size(h))
  BY Numbers
<1>2. ASSUME Boundary(h, p), data[h][p + 1][2] = "end" PROVE FALSE
  <2>1. p + 1 > 1 /\ data[h][(p + 1) - 1] = <<data[h][p + 1][1], "start">>
    BY <1>1, <1>2 DEF TypeInv, FilesInv
  <2>2. p > 0 /\ data[h][p][2] = "start"
    BY <2>1
  <2> QED
    BY <1>2, <2>2 DEF Boundary, EndsLine
<1>3. ASSUME p > 0, ~EndsLine(data[h][p]) PROVE data[h][p + 1] = <<data[h][p][1], "end">>
  <2>1. data[h][p][2] = "start"
    BY <1>3 DEF EndsLine
  <2> QED
    BY <1>1, <1>3, <2>1 DEF TypeInv, FilesInv
<1> QED
  BY <1>2, <1>3

\* A sequence of one or of two elements.
LEMMA One == ASSUME NEW S, NEW s \in Seq(S), Len(s) = 1 PROVE s = <<s[1]>>
OBVIOUS

LEMMA Two == ASSUME NEW S, NEW s \in Seq(S), Len(s) = 2 PROVE s = <<s[1], s[2]>>
OBVIOUS

\* Read from where the tailer should be, a record is the line that ends at LineEnd, and no
\* other line ends in between.
LEMMA RecordIsLine ==
  ASSUME TypeInv, tail # None, LineEnd > 0, InPlace
  PROVE  LET line == tail.partial \o SubSeq(data[tail.fh], tail.pos + 1, LineEnd)
         IN  /\ Decode(line) = data[tail.fh][LineEnd][1]
             /\ \A k \in (tail.offset + 1)..(LineEnd - 1) : ~EndsLine(data[tail.fh][k])
<1>1. /\ tail.fh \in Inodes /\ tail.pos \in Nat /\ tail.offset \in Nat
      /\ tail.partial \in Seq(Units) /\ tail.pos = tail.offset + Len(tail.partial)
  BY DEF TypeInv, TypeOK, StepsInv, TailedFile
<1>2. Size(tail.fh) \in Nat
  BY <1>1, Numbers
<1>3. PICK h \in Inodes, a \in Nat, b \in Nat, o \in Nat, f \in Seq(Units), stash \in Seq(Units) :
        /\ h = tail.fh /\ a = tail.pos /\ b = LineEnd /\ o = tail.offset
        /\ f = data[h] /\ stash = tail.partial
        /\ b \in (a + 1)..Size(h) /\ Size(h) \in Nat /\ EndsLine(f[b])
        /\ \A k \in (a + 1)..(b - 1) : ~EndsLine(f[k])
        /\ a = o + Len(stash)
  <2>1. /\ LineEnd \in (tail.pos + 1)..Size(tail.fh) /\ EndsLine(data[tail.fh][LineEnd])
        /\ \A k \in (tail.pos + 1)..(LineEnd - 1) : ~EndsLine(data[tail.fh][k])
    BY <1>1, <1>2, LineEndFound DEF TypeInv
  <2>2. LineEnd \in Nat /\ data[tail.fh] \in Seq(Units)
    BY <1>1, <1>2, <2>1 DEF TypeInv, TypeOK
  <2> QED
    BY <1>1, <1>2, <2>1, <2>2
<1>4. \A k \in 1..Size(h) : f[k] \in Units /\ f[k] = <<f[k][1], f[k][2]>> /\ f[k][1] \in Lines
                            /\ f[k][2] \in {"whole", "start", "end"}
  BY <1>3, Numbers, PieceOfLine
<1>5. PICK line \in Seq(Units) :
        /\ line = stash \o SubSeq(f, a + 1, b) /\ Len(line) = Len(stash) + (b - a)
        /\ \A k \in 1..Len(stash) : line[k] = stash[k]
        /\ \A k \in 1..(b - a) : line[Len(stash) + k] = f[a + k]
  <2>1. a < b /\ b <= Size(h) /\ Size(h) \in Nat
    BY <1>3
  <2>2. \A k \in (a + 1)..b : k \in 1..Size(h)
    BY <2>1
  <2>3. \A k \in (a + 1)..b : f[k] \in Units
    BY <2>2, <1>4
  <2> DEFINE line == stash \o SubSeq(f, a + 1, b)
  <2> line = stash \o SubSeq(f, a + 1, b)
    OBVIOUS
  <2> HIDE DEF line
  <2>4. /\ line \in Seq(Units) /\ Len(line) = Len(stash) + (b - a)
        /\ \A k \in 1..Len(stash) : line[k] = stash[k]
        /\ \A k \in 1..(b - a) : line[Len(stash) + k] = f[a + k]
    BY <2>1, <2>3, Joined
  <2> QED
    BY <2>4
<1>6. Boundary(h, o) /\ (stash = <<>> \/ (a \in 1..Size(h) /\ stash = <<f[a]>> /\ ~EndsLine(f[a])))
  BY <1>3 DEF InPlace
<1>7. CASE stash = <<>>
  <2>1. Len(stash) = 0 /\ a = o /\ a < Size(h)
    BY <1>3, <1>7
  <2>2. f[a + 1][2] # "end" /\ a + 1 \in 1..Size(h)
    <3>1. Boundary(h, a) /\ f[a + 1] = data[h][a + 1]
      BY <1>3, <1>6, <2>1
    <3>2. data[h][a + 1][2] # "end"
      BY <2>1, <3>1, NextPiece
    <3>3. a + 1 \in 1..Size(h)
      BY <1>3, <2>1
    <3> QED
      BY <3>1, <3>2, <3>3
  <2>3. CASE b = a + 1
    <3>1. f[b][2] = "whole" /\ b \in 1..Size(h)
      BY <1>3, <1>4, <2>2, <2>3 DEF EndsLine
    <3>2. Len(line) = 1 /\ line[1] = f[b]
      <4>1. 1 \in 1..(b - a) /\ Len(stash) + 1 = 1 /\ b - a = 1
        BY <2>1, <2>3
      <4> QED
        BY <1>5, <2>1, <2>3, <4>1
    <3>3. line = << <<f[b][1], "whole">> >> /\ f[b][1] \in Lines
      BY <1>4, <3>1, <3>2, One
    <3>4. Decode(line) = f[b][1]
      BY <3>3 DEF Decode
    <3> QED
      BY <1>3, <1>5, <2>1, <2>3, <3>4
  <2>4. CASE b > a + 1
    <3>1. f[a + 1][2] = "start" /\ a + 1 < Size(h) /\ a + 1 \in Nat
      <4>1. ~EndsLine(f[a + 1])
        BY <1>3, <2>4
      <4>2. a + 1 \in 1..Size(h) /\ a + 1 < Size(h) /\ a + 1 \in Nat
        BY <1>3, <2>4
      <4> QED
        BY <1>4, <4>1, <4>2 DEF EndsLine
    <3>2. data[h][(a + 1) + 1] = <<f[a + 1][1], "end">> /\ f[a + 2] = <<f[a + 1][1], "end">>
      <4>1. PICK p \in Nat : p = a + 1
        BY <3>1
      <4>2. p < Size(h) /\ p > 0 /\ f[p][2] = "start" /\ f = data[h]
        BY <1>3, <3>1, <4>1
      <4>3. data[h][p + 1] = <<data[h][p][1], "end">>
        BY <4>2, NextPiece DEF EndsLine
      <4>4. p + 1 = a + 2
        BY <4>1
      <4> QED
        BY <4>1, <4>2, <4>3, <4>4
    <3>3. b = a + 2
      <4>1. EndsLine(f[a + 2])
        BY <3>2 DEF EndsLine
      <4>2. a + 2 \in (a + 1)..(b - 1) => ~EndsLine(f[a + 2])
        BY <1>3
      <4>3. b >= a + 2 /\ (b > a + 2 => a + 2 \in (a + 1)..(b - 1))
        BY <2>4
      <4> QED
        BY <4>1, <4>2, <4>3
    <3>4. Len(line) = 2 /\ line[1] = f[a + 1] /\ line[2] = f[a + 2]
      <4>1. 1 \in 1..(b - a) /\ 2 \in 1..(b - a) /\ Len(stash) + 1 = 1 /\ Len(stash) + 2 = 2 /\ b - a = 2
        BY <2>1, <3>3
      <4> QED
        BY <1>5, <2>1, <4>1
    <3>5. line = << <<f[a + 1][1], "start">>, <<f[a + 1][1], "end">> >> /\ f[a + 1][1] \in Lines
      BY <1>4, <2>2, <3>1, <3>2, <3>4, Two
    <3>6. Decode(line) = f[a + 1][1] /\ f[b][1] = f[a + 1][1]
      BY <3>2, <3>3, <3>5 DEF Decode
    <3> QED
      BY <1>3, <1>5, <2>1, <3>6
  <2>5. b = a + 1 \/ b > a + 1
    BY <1>3
  <2> QED
    BY <2>3, <2>4, <2>5
<1>8. CASE a \in 1..Size(h) /\ stash = <<f[a]>> /\ ~EndsLine(f[a])
  <2>1. Len(stash) = 1 /\ stash[1] = f[a] /\ a = o + 1 /\ a < Size(h)
    BY <1>3, <1>8
  <2>2. f[a][2] = "start" /\ f[a + 1] = <<f[a][1], "end">>
    <3>1. a > 0 /\ f = data[h] /\ a \in Nat /\ f[a] = data[h][a]
      BY <1>3, <1>8
    <3>2. data[h][a][2] = "start"
      BY <1>8, <3>1 DEF EndsLine
    <3>3. data[h][a + 1] = <<data[h][a][1], "end">>
      BY <1>8, <2>1, <3>1, NextPiece
    <3> QED
      BY <3>1, <3>2, <3>3
  <2>3. b = a + 1
    <3>1. EndsLine(f[a + 1])
      BY <2>2 DEF EndsLine
    <3>2. a + 1 \in (a + 1)..(b - 1) => ~EndsLine(f[a + 1])
      BY <1>3
    <3>3. a < b /\ (b > a + 1 => a + 1 \in (a + 1)..(b - 1))
      BY <1>3
    <3> QED
      BY <3>1, <3>2, <3>3
  <2>4. Len(line) = 2 /\ line[1] = f[a] /\ line[2] = f[a + 1]
    <3>1. 1 \in 1..Len(stash) /\ 1 \in 1..(b - a) /\ Len(stash) + 1 = 2 /\ b - a = 1
      BY <2>1, <2>3
    <3> QED
      BY <1>5, <2>1, <3>1
  <2>5. line = << <<f[a][1], "start">>, <<f[a][1], "end">> >> /\ f[a][1] \in Lines
    BY <1>4, <1>8, <2>2, <2>4, Two
  <2>6. Decode(line) = f[a][1] /\ f[b][1] = f[a][1]
    BY <2>2, <2>3, <2>5 DEF Decode
  <2>7. \A k \in (o + 1)..(b - 1) : k = a
    BY <2>1, <2>3
  <2> QED
    BY <1>3, <1>5, <1>8, <2>6, <2>7
<1> QED
  BY <1>6, <1>7, <1>8

\* The contents of file i begin with what they were.
Longer(i) == Size(i) <= Len(data'[i]) /\ \A k \in 1..Size(i) : data'[i][k] = data[i][k]

LEMMA Unchanged == ASSUME TypeInv, NEW i \in Inodes, data'[i] = data[i] PROVE Longer(i)
BY Numbers DEF Longer, Size

\* What a file that grows has between its lines, and what is covered of it, stays so.
LEMMA CoveredKept ==
  ASSUME TypeInv, data' \in [Inodes -> Seq(Units)], NEW i \in Inodes, NEW o \in Nat, Longer(i),
         Emitted \subseteq Emitted'
  PROVE  /\ Boundary(i, o) => Boundary(i, o)'
         /\ Covered(i, o) => Covered(i, o)'
<1>1. Size(i) \in Nat /\ Len(data'[i]) \in Nat
  BY Numbers
<1>2. ASSUME Boundary(i, o) PROVE Boundary(i, o)'
  BY <1>1, <1>2 DEF Boundary, Longer, Size, EndsLine
<1>3. ASSUME Boundary(i, o), NEW k \in 1..Len(data'[i]), k <= o
      PROVE  k \in 1..Size(i) /\ data'[i][k] = data[i][k]
  <2>1. k <= Size(i)
    BY <1>1, <1>3 DEF Boundary
  <2> QED
    BY <1>1, <2>1 DEF Longer
<1>4. ASSUME Boundary(i, o) PROVE WholeLines(i, o)' \subseteq WholeLines(i, o)
  BY <1>3, <1>4 DEF WholeLines, Size, EndsLine
<1> QED
  BY <1>2, <1>4 DEF Covered

\* A tailer that does not move stays where it should be.
LEMMA InPlaceKept ==
  ASSUME TypeInv, data' \in [Inodes -> Seq(Units)], tail # None, InPlace, tail' = tail,
         Longer(tail.fh)
  PROVE  InPlace'
<1>1. PICK h \in Inodes, a \in Nat, o \in Nat : h = tail.fh /\ a = tail.pos /\ o = tail.offset
  BY DEF TypeInv, TypeOK, TailedFile
<1>2. Size(h) \in Nat /\ Len(data'[h]) \in Nat
  BY Numbers
<1>3. Boundary(h, o) => Boundary(h, o)'
  BY <1>1, <1>2 DEF Boundary, Longer, Size, EndsLine
<1>4. ASSUME a \in 1..Size(h)
      PROVE  a \in 1..Len(data'[h]) /\ data'[h][a] = data[h][a]
  BY <1>1, <1>2, <1>4 DEF Longer
<1> QED
  BY <1>1, <1>3, <1>4 DEF InPlace, Size, EndsLine

\* At the beginning of a file nothing is covered.
LEMMA NothingCovered == ASSUME TypeInv, NEW i \in Inodes PROVE Boundary(i, 0) /\ Covered(i, 0)
<1>1. \A j \in 1..Size(i) : ~(j <= 0)
  BY Numbers
<1> QED
  BY <1>1 DEF Boundary, Covered, WholeLines

\* Nothing emitted is lost.
LEMMA PlaceInit == Init => PlaceInv
BY DEF Init, PlaceInv, Place, Emitted

\* The application and logrotate leave the tailer and the checkpoints in place, unless a file
\* is truncated or the number of a deleted one is used again.
LEMMA PlaceApplication ==
  ASSUME ~ReuseInodes, TypeInv, Place, ApplicationStep, NeverTruncated' PROVE Place'
<1> DEFINE checkpoints == {mem, disk} \ {None}
<1>1. TypeInv' /\ data' \in [Inodes -> Seq(Units)]
  BY TypeApplication DEF TypeInv, TypeOK
<1>2. UNCHANGED <<pc, tail, mem, disk, emitted>>
  BY DEF ApplicationStep, WriteLine, WriteEnd, Rotate, Truncate, Create
<1>3. Emitted' = Emitted
  BY <1>2 DEF Emitted
<1>4. /\ tail # None => tail.ino \in Inodes \cap used /\ tail.fh \in Inodes /\ tail.offset \in Nat
      /\ \A c \in checkpoints : c.ino \in Inodes \cap used /\ c.offset \in Nat
  BY DEF TypeInv, TypeOK, StepsInv, TailedFile, Checkpoint
<1>5. SUFFICES /\ tail # None => Longer(tail.fh)
               /\ path' \in Inodes /\ path' \in used => path' = path /\ Longer(path)
  <2>1. ASSUME tail # None, tail.ino = tail.fh \/ pc = "read" PROVE InPlace'
    BY <1>1, <1>2, <1>5, <2>1, InPlaceKept DEF Place
  <2>2. ASSUME tail # None, tail.ino = path' PROVE (tail.fh = path /\ Covered(path, tail.offset))'
    <3>1. path' = path /\ path \in Inodes /\ Longer(path) /\ tail.fh = path /\ Covered(path, tail.offset)
      BY <1>4, <1>5, <2>2 DEF Place
    <3>2. PICK i \in Inodes, o \in Nat : i = path /\ o = tail.offset
      BY <1>4, <2>2, <3>1
    <3>3. Covered(i, o)'
      BY <1>1, <1>3, <3>1, <3>2, CoveredKept
    <3> QED
      BY <1>2, <3>1, <3>2, <3>3
  <2>3. ASSUME NEW c \in checkpoints, c.ino = path' PROVE Covered(path, c.offset)'
    <3>1. path' = path /\ path \in Inodes /\ Longer(path) /\ Covered(path, c.offset)
      BY <1>4, <1>5, <2>3 DEF Place
    <3>2. PICK i \in Inodes, o \in Nat : i = path /\ o = c.offset
      BY <1>4, <2>3, <3>1
    <3>3. Covered(i, o)'
      BY <1>1, <1>3, <3>1, <3>2, CoveredKept
    <3> QED
      BY <3>1, <3>2, <3>3
  <2> QED
    BY <1>2, <1>3, <2>1, <2>2, <2>3 DEF Place
<1>6. ASSUME UNCHANGED data, path' \in {path, None}
      PROVE  /\ tail # None => Longer(tail.fh)
             /\ path' \in Inodes /\ path' \in used => path' = path /\ Longer(path)
  BY <1>4, <1>6, Unchanged, FileTailAssumption
<1>7. ASSUME NEW u \in Units, path \in Inodes, path' = path, Grow(u)
      PROVE  \A i \in Inodes : Longer(i)
  BY <1>7, Grown, Numbers, Unchanged DEF Longer, Size, TypeInv
<1>8. ASSUME NEW part \in {"whole", "start"}, WriteLine(part)
      PROVE  path \in Inodes /\ \A i \in Inodes : Longer(i)
  <2>1. path \in Inodes /\ wrote + 1 \in Lines
    BY <1>8, Bounds, FileTailAssumption DEF WriteLine, TypeInv, TypeOK, Lines
  <2>2. PICK u \in Units : u = <<wrote + 1, part>>
    BY <2>1 DEF Units
  <2> QED
    BY <1>7, <1>8, <2>1, <2>2 DEF WriteLine
<1>9. ASSUME WriteEnd PROVE path \in Inodes /\ \A i \in Inodes : Longer(i)
  <2>1. path \in Inodes /\ Size(path) \in 1..Size(path) /\ data[path][Size(path)] = <<wrote, "start">>
    BY <1>9, HalfLine DEF WriteEnd
  <2>2. wrote \in Lines
    <3>1. data[path][Size(path)][1] \in Lines
      BY <2>1, Numbers
    <3> QED
      BY <2>1, <3>1
  <2>3. PICK u \in Units : u = <<wrote, "end">>
    BY <2>2 DEF Units
  <2> QED
    BY <1>7, <1>9, <2>1, <2>3 DEF WriteEnd
<1>10. ASSUME NEW i \in Inodes, Create(i)
       PROVE  /\ tail # None => Longer(tail.fh)
              /\ path' \in Inodes /\ path' \in used => path' = path /\ Longer(path)
  <2>1. i \notin used /\ path' = i /\ \A j \in Inodes \ {i} : data'[j] = data[j]
    BY <1>10 DEF Create, TypeInv, TypeOK
  <2>2. tail # None => tail.fh # i
    BY <1>10 DEF Create
  <2> QED
    BY <1>4, <2>1, <2>2, Unchanged
<1>11. ~Truncate
  <2>1. ASSUME Truncate PROVE left'["truncate"] < Budget["truncate"]
    BY <2>1, Spent DEF Truncate, TypeInv, TypeOK, StepsInv, Kinds
  <2>2. Budget["truncate"] = MaxTruncations /\ MaxTruncations \in Nat
    BY FileTailAssumption DEF Budget
  <2> QED
    BY <2>1, <2>2 DEF NeverTruncated
<1> QED
  BY <1>4, <1>6, <1>8, <1>9, <1>10, <1>11 DEF ApplicationStep, Rotate, WriteLine, WriteEnd

\* A step of the agent that reads nothing and registers nothing new leaves all in place.
LEMMA PlaceKept ==
  ASSUME TypeInv, Place, AgentStep, emitted' = emitted, tail' \in {tail, None},
         pc' = "read" => pc = "read" \/ tail' = None, {mem', disk'} \subseteq {mem, disk}
  PROVE  Place'
<1>1. path' = path /\ data' = data /\ data' \in [Inodes -> Seq(Units)]
  BY AgentOnlyReads DEF TypeInv, TypeOK, files
<1>2. Emitted' = Emitted
  BY DEF Emitted
<1>3. ASSUME tail' # None PROVE tail' = tail /\ tail # None
  BY <1>3
<1>4. \A i, o : Covered(i, o)' <=> Covered(i, o)
  BY <1>1, <1>2 DEF Covered, Boundary, WholeLines, Size
<1>5. ASSUME tail' = tail PROVE InPlace' <=> InPlace
  BY <1>1, <1>5 DEF InPlace, Boundary, Size
<1>6. ASSUME tail' # None, tail'.ino = path' PROVE (tail.fh = path /\ Covered(path, tail.offset))'
  BY <1>1, <1>3, <1>4, <1>6 DEF Place
<1>7. ASSUME tail' # None, tail'.ino = tail'.fh \/ pc' = "read" PROVE InPlace'
  BY <1>3, <1>5, <1>7 DEF Place
<1>8. ASSUME NEW c \in {mem', disk'} \ {None}, c.ino = path' PROVE Covered(path, c.offset)'
  BY <1>1, <1>4, <1>8 DEF Place
<1> QED
  BY <1>2, <1>6, <1>7, <1>8 DEF Place

\* open resumes where the checkpoint of this very file is, or at its beginning.
LEMMA PlaceOpen ==
  ASSUME FromBeginning, TypeInv, Place, Open, OpenSucceeds PROVE Place'
<1>1. /\ path' = path /\ data' = data /\ disk' = disk /\ pc' = "idle"
      /\ Emitted' = Emitted
  BY DEF Open, Emitted
<1>2. path \in Inodes /\ info.ino \in Inodes
  BY DEF Open, OpenSucceeds, TypeInv, TypeOK, StepsInv
<1>3. PICK resume \in Nat : resume = ResumePoint
  BY DEF ResumePoint, TypeInv, TypeOK, Checkpoint
<1>4. info.ino = path => Covered(path, resume)
  <2>1. CASE mem # None /\ mem.ino = info.ino /\ mem.offset <= info.size
    BY <1>3, <2>1 DEF Place, ResumePoint
  <2>2. CASE ~(mem # None /\ mem.ino = info.ino /\ mem.offset <= info.size)
    <3>1. resume = 0
      BY <1>3, <2>2 DEF ResumePoint
    <3> QED
      BY <1>2, <3>1, NothingCovered
  <2> QED
    BY <2>1, <2>2
<1>5. PICK nothing \in Seq(Units) : nothing = <<>>
  BY EmptySeq
<1>6. /\ tail' = [ino |-> info.ino, fh |-> path, pos |-> resume, offset |-> resume, partial |-> nothing]
      /\ mem' = [ino |-> info.ino, offset |-> resume]
  BY <1>2, <1>3, <1>5, FileTailAssumption DEF Open
<1>7. /\ tail'.ino = info.ino /\ tail'.fh = path /\ tail'.offset = resume /\ tail'.partial = <<>>
      /\ mem'.ino = info.ino /\ mem'.offset = resume
  BY <1>5, <1>6
<1>8. \A i, o : /\ Covered(i, o)' <=> Covered(i, o)
                /\ Boundary(i, o)' <=> Boundary(i, o)
  BY <1>1 DEF Covered, Boundary, WholeLines, Size
<1>9. ASSUME tail'.ino = path' PROVE (tail.fh = path /\ Covered(path, tail.offset))'
  BY <1>1, <1>4, <1>7, <1>8, <1>9
<1>10. ASSUME tail'.ino = tail'.fh PROVE InPlace'
  <2>1. Boundary(path, resume)
    BY <1>4, <1>7, <1>10 DEF Covered
  <2>2. Boundary(tail.fh, tail.offset)'
    BY <1>7, <1>8, <2>1
  <2> QED
    BY <1>7, <2>2 DEF InPlace
<1>11. ASSUME NEW c \in {mem', disk'} \ {None}, c.ino = path' PROVE Covered(path, c.offset)'
  <2>1. CASE c = mem'
    BY <1>1, <1>4, <1>7, <1>8, <1>11, <2>1
  <2>2. CASE c = disk
    BY <1>1, <1>8, <1>11, <2>2 DEF Place
  <2> QED
    BY <1>1, <1>11, <2>1, <2>2
<1> QED
  BY <1>1, <1>9, <1>10, <1>11 DEF Place

\* A poll of the same file finds it no shorter than the committed offset.
LEMMA PlacePoll ==
  ASSUME TypeInv, Place, Poll, path # None, ~Rotated PROVE Place'
<1>1. /\ path' = path /\ data' = data /\ mem' = mem /\ disk' = disk
      /\ Emitted' = Emitted
      /\ tail # None /\ pc' = "read" /\ tail' = IF Shrunk THEN Rewound ELSE tail
  BY DEF Poll, Emitted
<1>2. path \in Inodes /\ tail.offset \in Nat /\ Size(path) \in Nat
  BY <1>1, Numbers DEF TypeInv, TypeOK, TailedFile
<1>3. tail.ino = path /\ tail.fh = path /\ Covered(path, tail.offset)
  BY <1>1 DEF Place, Rotated
<1>4. ~Shrunk
  BY <1>2, <1>3 DEF Covered, Boundary, Shrunk
<1>5. tail' = tail /\ InPlace
  BY <1>1, <1>3, <1>4 DEF Place
<1>6. \A i, o : Covered(i, o)' <=> Covered(i, o)
  BY <1>1 DEF Covered, Boundary, WholeLines, Size
<1>7. InPlace'
  BY <1>1, <1>5 DEF InPlace, Boundary, Size
<1>8. ASSUME NEW c \in {mem', disk'} \ {None}, c.ino = path' PROVE Covered(path, c.offset)'
  BY <1>1, <1>6, <1>8 DEF Place
<1>9. (tail.fh = path /\ Covered(path, tail.offset))'
  BY <1>1, <1>3, <1>5, <1>6
<1> QED
  BY <1>1, <1>7, <1>8, <1>9 DEF Place

\* reopen begins a file that nothing was read of.
LEMMA PlaceReopen ==
  ASSUME TypeInv, Place, Reopen, path # None PROVE Place'
<1>1. /\ path' = path /\ data' = data /\ mem' = mem /\ disk' = disk
      /\ Emitted' = Emitted
  BY DEF Reopen, Emitted
<1>2. path \in Inodes /\ info.ino \in Inodes /\ tail # None
  BY DEF Reopen, TypeInv, TypeOK, StepsInv
<1>3. /\ tail'.fh = path /\ tail'.offset = 0 /\ tail'.partial = <<>>
  BY <1>2, ReopenedFields DEF Reopen, TypeInv
<1>4. \A i, o : /\ Covered(i, o)' <=> Covered(i, o)
                /\ Boundary(i, o)' <=> Boundary(i, o)
  BY <1>1 DEF Covered, Boundary, WholeLines, Size
<1>5. Boundary(path, 0) /\ Covered(path, 0)
  BY <1>2, NothingCovered
<1>6. Boundary(tail.fh, tail.offset)' /\ (tail.fh = path /\ Covered(path, tail.offset))'
  BY <1>1, <1>3, <1>4, <1>5
<1>7. InPlace'
  BY <1>3, <1>6 DEF InPlace
<1>8. ASSUME NEW c \in {mem', disk'} \ {None}, c.ino = path' PROVE Covered(path, c.offset)'
  BY <1>1, <1>4, <1>8 DEF Place
<1> QED
  BY <1>1, <1>6, <1>7, <1>8 DEF Place

\* A complete line is emitted whole, and covered once it is emitted.
LEMMA PlaceReadLine ==
  ASSUME TypeInv, Place, ReadLine PROVE Place'
<1> DEFINE line == tail.partial \o SubSeq(data[tail.fh], tail.pos + 1, LineEnd)
<1>1. /\ pc = "read" /\ tail # None /\ LineEnd > 0
      /\ emitted' = Append(emitted, Decode(line))
      /\ UNCHANGED <<path, data, mem, disk, pc>>
  BY DEF ReadLine, TypeInv, StepsInv
<1>2. InPlace
  BY <1>1 DEF Place
<1>3. /\ Decode(line) = data[tail.fh][LineEnd][1]
      /\ \A k \in (tail.offset + 1)..(LineEnd - 1) : ~EndsLine(data[tail.fh][k])
  BY <1>1, <1>2, RecordIsLine
<1>4. PICK h \in Inodes, b \in Nat, o \in Nat, r \in Lines :
        /\ h = tail.fh /\ b = LineEnd /\ o = tail.offset /\ r = Decode(line)
        /\ b \in 1..Size(h) /\ Size(h) \in Nat /\ EndsLine(data[h][b])
        /\ r = data[h][b][1]
  <2>1. tail.fh \in Inodes /\ tail.pos \in Nat /\ tail.offset \in Nat
    BY <1>1 DEF TypeInv, TypeOK, TailedFile
  <2>2. Size(tail.fh) \in Nat
    BY <2>1, Numbers
  <2>3. LineEnd \in (tail.pos + 1)..Size(tail.fh) /\ EndsLine(data[tail.fh][LineEnd])
    BY <1>1, <2>1, <2>2, LineEndFound DEF TypeInv
  <2>4. LineEnd \in 1..Size(tail.fh) /\ LineEnd \in Nat
    BY <2>1, <2>2, <2>3
  <2>5. data[tail.fh][LineEnd][1] \in Lines
    BY <2>1, <2>4, Numbers
  <2> QED
    BY <1>3, <2>1, <2>2, <2>3, <2>4, <2>5
<1>5. \A k \in (o + 1)..(b - 1) : ~EndsLine(data[h][k])
  BY <1>3, <1>4
<1>6. emitted' = Append(emitted, r)
  BY <1>1, <1>4
<1> HIDE DEF line
<1>7. Emitted' = Emitted \cup {r}
  <2>1. emitted \in Seq(Lines \cup {Torn})
    BY DEF TypeInv, TypeOK
  <2>2. /\ Append(emitted, r) \in Seq(Lines \cup {Torn})
        /\ Len(Append(emitted, r)) = Len(emitted) + 1
        /\ \A k \in 1..Len(emitted) : Append(emitted, r)[k] = emitted[k]
        /\ Append(emitted, r)[Len(emitted) + 1] = r
    BY <2>1, AppendProperties
  <2>3. DOMAIN emitted = 1..Len(emitted) /\ Len(emitted) \in Nat
    BY <2>1, LenProperties
  <2>4. DOMAIN Append(emitted, r) = 1..Len(Append(emitted, r))
    BY <2>2, LenProperties
  <2> QED
    BY <1>6, <2>2, <2>3, <2>4 DEF Emitted
<1>8. /\ tail'.ino = tail.ino /\ tail'.fh = h /\ tail'.offset = b /\ tail'.partial = <<>>
      /\ tail' # None
  BY <1>4, ReadLineFields, FileTailAssumption DEF TypeInv
<1>9. Torn \notin Emitted'
  BY <1>4, <1>7, Bounds DEF Place, Torn
<1>10. Boundary(h, b) /\ Boundary(tail.fh, tail.offset)'
  BY <1>1, <1>4, <1>8 DEF Boundary, Size
<1>11. InPlace'
  BY <1>8, <1>10 DEF InPlace
<1>12. ASSUME tail.ino = path PROVE tail'.fh = path' /\ Covered(path, tail.offset)'
  <2>1. h = path /\ WholeLines(h, o) \subseteq Emitted
    BY <1>1, <1>4, <1>12 DEF Place, Covered
  <2>2. ASSUME NEW k \in 1..Size(h), k <= b, EndsLine(data[h][k]) PROVE data[h][k][1] \in Emitted'
    <3>1. CASE k <= o
      BY <1>7, <2>1, <2>2, <3>1 DEF WholeLines
    <3>2. CASE k = b
      BY <1>4, <1>7, <3>2
    <3>3. CASE k > o /\ k < b
      BY <1>4, <1>5, <2>2, <3>3
    <3>4. k \in Nat /\ k <= b
      BY <1>4, <2>2
    <3> QED
      BY <3>1, <3>2, <3>3, <3>4
  <2>3. WholeLines(h, b)' \subseteq Emitted'
    BY <1>1, <2>2 DEF WholeLines, Size
  <2> QED
    BY <1>1, <1>8, <1>10, <2>1, <2>3 DEF Covered
<1>13. ASSUME NEW c \in {mem, disk} \ {None}, c.ino = path PROVE Covered(path, c.offset)'
  <2>1. Covered(path, c.offset)
    BY <1>13 DEF Place
  <2> QED
    BY <1>1, <1>7, <2>1 DEF Covered, Boundary, WholeLines, Size
<1> QED
  BY <1>1, <1>8, <1>9, <1>11, <1>12, <1>13 DEF Place

\* What is left of a sequence behind all but its last element, and behind all of it.
LEMMA LastOne ==
  ASSUME NEW S, NEW s \in Seq(S), NEW a \in Nat
  PROVE  /\ Len(s) = a + 1 => SubSeq(s, a + 1, Len(s)) = <<s[a + 1]>>
         /\ Len(s) <= a => SubSeq(s, a + 1, Len(s)) = <<>>
<1>1. PICK m \in Nat, n \in Nat : m = a + 1 /\ n = Len(s)
  OBVIOUS
<1>2. \A k \in m..n : s[k] \in S
  BY <1>1
<1>3. /\ SubSeq(s, m, n) \in Seq(S)
      /\ Len(SubSeq(s, m, n)) = IF m <= n THEN n - m + 1 ELSE 0
      /\ \A k \in 1..(n - m + 1) : SubSeq(s, m, n)[k] = s[m + k - 1]
  BY <1>1, <1>2, SubSeqProperties
<1>4. ASSUME n = m PROVE SubSeq(s, m, n) = <<s[m]>>
  <2>1. PICK t \in Seq(S) : t = SubSeq(s, m, n)
    BY <1>3
  <2>2. Len(t) = 1 /\ 1 \in 1..(n - m + 1) /\ m + 1 - 1 = m
    BY <1>3, <1>4, <2>1
  <2>3. t[1] = s[m]
    BY <1>3, <2>1, <2>2
  <2> QED
    BY <2>1, <2>2, <2>3, One
<1>5. ASSUME n < m PROVE SubSeq(s, m, n) = <<>>
  BY <1>3, <1>5, EmptySeq
<1> QED
  BY <1>1, <1>4, <1>5

\* At the end of the file what is left of it is at most the first piece of a line.
LEMMA RestIsPiece ==
  ASSUME TypeInv, tail # None, LineEnd = 0, InPlace, tail.pos < Size(tail.fh)
  PROVE  /\ tail.partial = <<>> /\ Size(tail.fh) = tail.pos + 1
         /\ ~EndsLine(data[tail.fh][Size(tail.fh)])
<1>1. PICK h \in Inodes, a \in Nat, o \in Nat :
        h = tail.fh /\ a = tail.pos /\ o = tail.offset /\ a = o + Len(tail.partial)
  BY DEF TypeInv, TypeOK, StepsInv, TailedFile
<1>2. Size(h) \in Nat /\ a < Size(h) /\ \A k \in (a + 1)..Size(h) : ~EndsLine(data[h][k])
  BY <1>1, LineEndFound, Numbers DEF TypeInv
<1>3. a + 1 \in 1..Size(h) /\ ~EndsLine(data[h][a + 1])
  BY <1>2
<1>4. ASSUME a > 0 /\ ~EndsLine(data[h][a]) PROVE FALSE
  <2>1. data[h][a + 1] = <<data[h][a][1], "end">>
    BY <1>2, <1>4, NextPiece
  <2> QED
    BY <1>3, <2>1 DEF EndsLine
<1>5. tail.partial = <<>>
  BY <1>1, <1>4 DEF InPlace
<1>6. Size(h) = a + 1
  <2>1. SUFFICES ASSUME a + 1 < Size(h) PROVE FALSE
    BY <1>2
  <2>2. PICK p \in Nat : p = a + 1
    OBVIOUS
  <2>3. data[h][p + 1] = <<data[h][p][1], "end">>
    BY <1>3, <2>1, <2>2, NextPiece
  <2>4. p + 1 \in (a + 1)..Size(h)
    BY <1>2, <2>1, <2>2
  <2> QED
    BY <1>2, <2>3, <2>4 DEF EndsLine
<1> QED
  BY <1>1, <1>3, <1>5, <1>6

LEMMA PlaceReadEOF ==
  ASSUME TypeInv, Place, ReadEOF PROVE Place'
<1> DEFINE rest == SubSeq(data[tail.fh], tail.pos + 1, Size(tail.fh))
<1>1. /\ pc = "read" /\ tail # None /\ LineEnd = 0
      /\ UNCHANGED <<path, data, disk>> /\ Emitted' = Emitted
  BY DEF ReadEOF, TypeInv, StepsInv, Emitted
<1>2. InPlace
  BY <1>1 DEF Place
<1>3. PICK h \in Inodes, a \in Nat, o \in Nat, stash \in Seq(Units) :
        h = tail.fh /\ a = tail.pos /\ o = tail.offset /\ stash = tail.partial
  BY <1>1 DEF TypeInv, TypeOK, TailedFile
<1>4. /\ tail'.ino = tail.ino /\ tail'.fh = h /\ tail'.offset = o
      /\ tail'.pos = a + Len(rest) /\ tail'.partial = stash \o rest
      /\ mem' = [ino |-> tail.ino, offset |-> o]
  BY <1>3, ReadEOFFields DEF TypeInv
<1>5. Size(h) \in Nat /\ data[h] \in Seq(Units) /\ rest = SubSeq(data[h], a + 1, Size(h))
  BY <1>3, Numbers DEF TypeInv, TypeOK
<1> HIDE DEF rest
<1>6. \A i, p : /\ Covered(i, p)' <=> Covered(i, p)
                /\ Boundary(i, p)' <=> Boundary(i, p)
  BY <1>1 DEF Covered, Boundary, WholeLines, Size
<1>7. Boundary(tail.fh, tail.offset)'
  <2>1. Boundary(h, o)
    BY <1>2, <1>3 DEF InPlace
  <2> QED
    BY <1>4, <1>6, <2>1
<1>8. ASSUME a < Size(h) PROVE InPlace'
  <2>1. stash = <<>> /\ Size(h) = a + 1 /\ ~EndsLine(data[h][Size(h)])
    BY <1>1, <1>2, <1>3, <1>8, RestIsPiece
  <2>2. rest = <<data[h][a + 1]>>
    <3>1. Len(data[h]) = a + 1
      BY <2>1 DEF Size
    <3> QED
      BY <1>5, <2>1, <3>1, LastOne
  <2>3. tail'.pos = a + 1 /\ tail'.partial = <<data[h][a + 1]>>
    BY <1>4, <2>1, <2>2
  <2>4. data'[tail'.fh] = data[h] /\ Len(data[h]) = a + 1
    BY <1>1, <1>4, <2>1 DEF Size
  <2>5. /\ tail'.pos \in 1..Len(data'[tail'.fh])
        /\ tail'.partial = <<data'[tail'.fh][tail'.pos]>>
        /\ data'[tail'.fh][tail'.pos][2] = "start"
    BY <2>1, <2>3, <2>4 DEF EndsLine
  <2> QED
    BY <1>7, <2>5 DEF InPlace, Size, EndsLine
<1>9. ASSUME ~(a < Size(h)) PROVE InPlace'
  <2>1. rest = <<>>
    <3>1. Len(data[h]) <= a /\ Size(h) = Len(data[h])
      BY <1>5, <1>9 DEF Size
    <3> QED
      BY <1>5, <3>1, LastOne
  <2>2. tail'.pos = a /\ tail'.partial = stash
    BY <1>4, <2>1
  <2>3. data'[tail'.fh] = data[tail.fh] /\ tail'.pos = tail.pos /\ tail'.partial = tail.partial
    BY <1>1, <1>3, <1>4, <2>2
  <2>4. \/ tail'.partial = <<>>
        \/ /\ tail'.pos \in 1..Len(data'[tail'.fh])
           /\ tail'.partial = <<data'[tail'.fh][tail'.pos]>>
           /\ data'[tail'.fh][tail'.pos][2] = "start"
    BY <1>2, <2>3 DEF InPlace, Size, EndsLine
  <2> QED
    BY <1>7, <2>4 DEF InPlace, Size, EndsLine
<1>10. InPlace'
  BY <1>8, <1>9
<1>11. ASSUME tail.ino = path PROVE tail'.fh = path' /\ Covered(path, tail.offset)'
  <2>1. h = path /\ Covered(path, o)
    BY <1>1, <1>3, <1>11 DEF Place
  <2> QED
    BY <1>1, <1>4, <1>6, <2>1
<1>12. ASSUME NEW c \in {mem', disk'} \ {None}, c.ino = path' PROVE Covered(path, c.offset)'
  <2>1. CASE c = mem'
    <3>1. c.ino = tail.ino /\ c.offset = o
      BY <1>4, <2>1
    <3> QED
      BY <1>1, <1>3, <1>6, <1>12, <3>1 DEF Place
  <2>2. CASE c = disk
    BY <1>1, <1>6, <1>12, <2>2 DEF Place
  <2> QED
    BY <1>1, <1>12, <2>1, <2>2
<1> QED
  BY <1>1, <1>4, <1>10, <1>11, <1>12 DEF Place

\* Every step of the agent leaves the tailer and the checkpoints in place.
LEMMA PlaceAgent == ASSUME FromBeginning, TypeInv, Place, AgentStep PROVE Place'
<1>1. ASSUME Start \/ Crash \/ Stop \/ Flush \/ ReadError \/ Discover \/ \E l \in Lines : Ship(l)
      PROVE  Place'
  <2>1. /\ emitted' = emitted /\ tail' \in {tail, None} /\ {mem', disk'} \subseteq {mem, disk}
        /\ pc' = "read" => pc = "read"
    BY <1>1 DEF Start, Crash, Stop, Flush, ReadError, Discover, Ship, Down
  <2> QED
    BY <2>1, PlaceKept
<1>2. CASE Open
  <2>1. ASSUME path = None, UNCHANGED <<tail, mem>> PROVE Place'
    BY <1>2, <2>1, PlaceKept DEF Open
  <2> QED
    BY <1>2, <2>1, PlaceOpen DEF Open, OpenSucceeds
<1>3. CASE Poll
  <2>1. CASE path = None \/ Rotated
    BY <1>3, <2>1, PlaceKept DEF Poll
  <2> QED
    BY <1>3, <2>1, PlacePoll
<1>4. CASE Reopen
  <2>1. CASE path = None
    BY <1>4, <2>1, PlaceKept DEF Reopen
  <2> QED
    BY <1>4, <2>1, PlaceReopen
<1> QED
  BY <1>1, <1>2, <1>3, <1>4, PlaceReadLine, PlaceReadEOF DEF AgentStep, InputStep

LEMMA PlaceNext ==
  ASSUME FromBeginning, ~ReuseInodes PROVE TypeInv /\ PlaceInv /\ [Next]_vars => PlaceInv'
<1>1. ASSUME PlaceInv, UNCHANGED vars PROVE PlaceInv'
  <2>1. UNCHANGED <<path, data, pc, tail, mem, disk, emitted, left>>
    BY <1>1 DEF vars
  <2>2. Emitted' = Emitted /\ (InPlace' <=> InPlace) /\ (NeverTruncated' <=> NeverTruncated)
    BY <2>1 DEF Emitted, InPlace, Boundary, Size, NeverTruncated
  <2>3. \A i, p : Covered(i, p)' <=> Covered(i, p)
    BY <2>1, <2>2 DEF Covered, Boundary, WholeLines, Size
  <2> QED
    BY <1>1, <2>1, <2>2, <2>3 DEF PlaceInv, Place
<1>2. Next => ApplicationStep \/ AgentStep
  BY DEF Next, ApplicationStep, AgentStep
<1>3. TypeInv /\ Next /\ NeverTruncated' => NeverTruncated
  <2>1. ASSUME TypeInv, Next
        PROVE  /\ left["truncate"] \in Nat /\ left["truncate"] <= MaxTruncations
               /\ left'["truncate"] <= left["truncate"]
    <3>1. /\ left \in [DOMAIN Budget -> Nat] /\ DOMAIN Budget = Kinds \cup {"any"}
          /\ \A kind \in DOMAIN Budget : left[kind] <= Budget[kind]
      BY <2>1 DEF TypeInv, TypeOK, StepsInv, Budget, Kinds
    <3>2. left["truncate"] \in Nat /\ left["truncate"] <= MaxTruncations
      BY <3>1 DEF Budget, Kinds
    <3>3. left' = left \/ \E kind \in Kinds : Spend(kind)
      BY <2>1 DEF Next, WriteLine, WriteEnd, Rotate, Truncate, Create, Start, Crash, Stop, Flush,
                  InputStep, Discover, Open, Poll, Reopen, ReadLine, ReadEOF, ReadError, Ship, Kinds
    <3>4. ASSUME NEW kind \in Kinds, Spend(kind) PROVE left'["truncate"] <= left["truncate"]
      <4>1. CASE kind = "truncate"
        BY <3>1, <3>2, <3>4, <4>1 DEF Spend, Kinds
      <4>2. CASE kind # "truncate"
        BY <3>1, <3>2, <3>4, <4>2, Spent DEF Kinds
      <4> QED
        BY <4>1, <4>2
    <3> QED
      BY <3>2, <3>3, <3>4
  <2> QED
    BY <2>1, FileTailAssumption DEF NeverTruncated
<1> QED
  BY <1>1, <1>2, <1>3, PlaceApplication, PlaceAgent DEF PlaceInv

\* If files are read from their beginning and inode numbers are not used again, then until a
\* truncation no record mixes pieces of two lines, however polls interleave with
\* half-written lines, rotations, crashes and restarts.
THEOREM NoTornRecords ==
  ASSUME FromBeginning, ~ReuseInodes PROVE Spec => []NoTornRecord
<1>1. PlaceInv => NoTornRecord
  BY DEF PlaceInv, Place, NoTornRecord
<1> QED
  BY <1>1, TypeInit, TypeNext, PlaceInit, PlaceNext, PTL DEF Spec

\* Under the same two conditions, until a truncation no checkpoint of the file at the path,
\* in memory or in the registry file, covers a line that was not emitted.
THEOREM CheckpointsCovered ==
  ASSUME FromBeginning, ~ReuseInodes PROVE Spec => []CheckpointCovered
<1>1. PlaceInv => CheckpointCovered
  BY DEF PlaceInv, Place, Covered, CheckpointCovered
<1> QED
  BY <1>1, TypeInit, TypeNext, PlaceInit, PlaceNext, PTL DEF Spec

\* Under the same two conditions, until a truncation the committed offset is the reader's
\* position less the stashed partial line, and is on a line boundary of the open file.
THEOREM OffsetsOnBoundary ==
  ASSUME FromBeginning, ~ReuseInodes PROVE Spec => []OffsetOnBoundary
<1>1. TypeInv /\ PlaceInv => OffsetOnBoundary
  BY DEF TypeInv, StepsInv, PlaceInv, Place, InPlace, Boundary, OffsetOnBoundary
<1> QED
  BY <1>1, TypeInit, TypeNext, PlaceInit, PlaceNext, PTL DEF Spec
=============================================================================
