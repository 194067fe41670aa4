------------------------- MODULE ApiPaginationProofs -------------------------
(***************************************************************************)
(* Theorems about ApiPagination for lists of any length, pages of any size *)
(* and any number of changes.                                              *)
(***************************************************************************)
EXTENDS ApiPagination, FiniteSetTheorems, SequenceTheorems, TLAPS

(* How much of the list a read has passed, and what it has yet to pass.      *)
Passed == (IF call.pc = "page" THEN call.page - 1 ELSE call.page) * PageSize
Ahead(x) == \E p \in DOMAIN list : p > Passed /\ list[p] = x
Begins(s) == Len(s) <= Len(list) /\ \A i \in 1..Len(s) : s[i] = list[i]

Progress ==
  /\ call.pc = "page" => Len(call.result) = Passed
  /\ call.pc = "extra" => Len(call.result) <= Passed
  /\ ToSet(call.result) \subseteq used
  /\ call.pc = "returned" => answers # <<>> /\ LastAnswer = call.result
  /\ Awaiting => Len(answers) < Reads

(* What a read of a growing list has is the beginning of the list as it is,  *)
(* or some of it comes again.  Nothing that was there at its start is missed.*)
Grown ==
  GrowsOnly =>
    /\ call.pc = "page" =>
         \/ Begins(call.result)
         \/ ~Distinct(call.result)
         \/ \E x \in ToSet(call.result) : Ahead(x)
    /\ call.pc = "extra" =>
         call.result \in held \/ ~Distinct(call.result) \/ Len(list) > Passed
    /\ Awaiting => \A x \in ToSet(start) : x \in ToSet(call.result) \/ Ahead(x)

(* The total of the first answer compared with the list as it is.            *)
Counted ==
  HasTotal /\ Awaiting =>
    /\ call.reportedTotal = None => call.result = <<>>
    /\ call.reportedTotal # None =>
         /\ "remove" \notin disturbed => Len(list) >= call.reportedTotal
         /\ "insert" \notin disturbed => Len(list) <= call.reportedTotal
         /\ ~({"insert", "remove"} \subseteq disturbed) /\ Len(list) = call.reportedTotal
              => Begins(call.result)

(* A record that left the list does not come back.                           *)
GoneForGood(x) ==
  /\ x \in used /\ x \notin ToSet(list)
  /\ Awaiting => x \notin ToSet(call.result)
  /\ Len(answers) = Reads => x \notin ToSet(answers[2])

(* The list when the first read returned had as many records as the read,    *)
(* and those of the read that it had not are gone for good.                  *)
Between ==
  HasTotal /\ answers # <<>> =>
    \E h \in held :
      /\ IsInjective(h) /\ Len(h) = Len(answers[1])
      /\ \A x \in ToSet(answers[1]) : x \in ToSet(h) \/ GoneForGood(x)

(* A read that nothing has disturbed so far.                                 *)
Quiet ==
  disturbed = {} =>
    /\ start = list
    /\ Awaiting =>
         /\ Begins(call.result)
         /\ call.declaredLastPage # None =>
              call.declaredLastPage = PageCount /\ PageCount > 0 /\ style # "next"
         /\ call.reportedTotal \in {None, Len(list)}
         /\ call.page = 1 \/ call.page <= PageCount
    /\ call.pc = "extra" => call.result = list /\ PageCount <= call.page

-----------------------------------------------------------------------------
(* Sizes *)

LEMMA Product ==
  ASSUME NEW n \in Nat
  PROVE  /\ n * PageSize \in Nat /\ (n + 1) * PageSize = n * PageSize + PageSize
         /\ (n + 1 - 1) * PageSize = n * PageSize
         /\ \A m \in Nat : /\ n < m => n * PageSize + PageSize <= m * PageSize
                           /\ n >= m => n * PageSize >= m * PageSize
BY LimitsAssumption

LEMMA Maximum == maxPages \in Nat \ {0} /\ maxPages * PageSize = MaxItems
<1>1. /\ maxPages \in Nat /\ maxPages * PageSize = MaxItems
      /\ MaxItems # 0 /\ PageSize \in Nat
  BY LimitsAssumption DEF maxPages
<1>2. maxPages # 0
  BY <1>1
<1>3. QED BY <1>1, <1>2

(* A page goes on where the ones before it end, and is full unless it is the *)
(* last.                                                                     *)
LEMMA PageIs ==
  ASSUME list \in Seq(Item), NEW n \in Nat \ {0}, NEW h, h = (n - 1) * PageSize
  PROVE  /\ h \in Nat /\ n * PageSize = h + PageSize /\ Len(list) \in Nat
         /\ Page(n) \in Seq(Item)
         /\ Len(Page(n)) = IF h + PageSize < Len(list) THEN PageSize
                           ELSE IF h < Len(list) THEN Len(list) - h ELSE 0
         /\ \A i \in 1..Len(Page(n)) : Page(n)[i] = list[h + i]
         /\ PageCount \in Nat /\ (n < PageCount <=> h + PageSize < Len(list))
<1>1. PageSize \in Nat \ {0} /\ Len(list) \in Nat
  BY LimitsAssumption, LenProperties
<1>2. h \in Nat /\ n * PageSize = h + PageSize
  <2> PICK k \in Nat : k = n - 1
    OBVIOUS
  <2>1. n = k + 1 /\ h = k * PageSize
    OBVIOUS
  <2>2. QED BY <2>1, Product
<1>3. PICK e \in Nat : e = IF n * PageSize < Len(list) THEN n * PageSize ELSE Len(list)
  BY <1>1, <1>2
<1>4. Page(n) = SubSeq(list, h + 1, e)
  BY <1>3 DEF Page
<1>5. \A i \in (h + 1)..e : list[i] \in Item
  BY <1>1, <1>2, <1>3, ElementOfSeq
<1>6. /\ Page(n) \in Seq(Item)
      /\ Len(Page(n)) = IF h + 1 <= e THEN e - (h + 1) + 1 ELSE 0
      /\ \A i \in 1..(e - (h + 1) + 1) : Page(n)[i] = list[(h + 1) + i - 1]
  <2> DEFINE first == h + 1
  <2>1. first \in Int /\ e \in Int
    BY <1>2, <1>3
  <2>2. Page(n) = SubSeq(list, first, e) /\ \A i \in first..e : list[i] \in Item
    BY <1>4, <1>5
  <2> HIDE DEF first
  <2>3. /\ Page(n) \in Seq(Item)
        /\ Len(Page(n)) = IF first <= e THEN e - first + 1 ELSE 0
        /\ \A i \in 1..(e - first + 1) : Page(n)[i] = list[first + i - 1]
    BY <2>1, <2>2, SubSeqProperties
  <2>4. QED BY <2>3 DEF first
<1>7. PageCount \in Nat /\ (n < PageCount <=> n * PageSize < Len(list))
  <2> DEFINE a == Len(list) + PageSize - 1
             q == a \div PageSize
  <2>1. a \in Nat
    BY <1>1
  <2>2. q \in Nat /\ q * PageSize <= a /\ a < q * PageSize + PageSize
    <3> HIDE DEF a
    <3> QED BY <1>1, <2>1
  <2>3. PageCount = q
    BY DEF PageCount
  <2> HIDE DEF q
  <2>4. n < q => n * PageSize + PageSize <= q * PageSize
    BY <2>2, Product
  <2>5. n >= q => n * PageSize >= q * PageSize
    BY <2>2, Product
  <2>6. q * PageSize \in Nat /\ n * PageSize \in Nat
    BY <2>2, Product
  <2>7. QED BY <1>1, <2>2, <2>3, <2>4, <2>5, <2>6
<1>8. Len(Page(n)) = IF h + PageSize < Len(list) THEN PageSize
                      ELSE IF h < Len(list) THEN Len(list) - h ELSE 0
  <2>1. e = IF h + PageSize < Len(list) THEN h + PageSize ELSE Len(list)
    BY <1>2, <1>3
  <2>2. CASE h + PageSize < Len(list)
    <3>1. e - (h + 1) + 1 = PageSize /\ h + 1 <= e
      BY <1>1, <1>2, <2>1, <2>2
    <3>2. QED BY <1>6, <2>2, <3>1
  <2>3. CASE ~(h + PageSize < Len(list)) /\ h < Len(list)
    <3>1. e - (h + 1) + 1 = Len(list) - h /\ h + 1 <= e
      BY <1>1, <1>2, <2>1, <2>3
    <3>2. QED BY <1>6, <2>3, <3>1
  <2>4. CASE ~(h + PageSize < Len(list)) /\ ~(h < Len(list))
    <3>1. ~(h + 1 <= e)
      BY <1>1, <1>2, <2>1, <2>4
    <3>2. QED BY <1>6, <2>4, <3>1
  <2>5. QED BY <2>2, <2>3, <2>4
<1>9. \A i \in 1..Len(Page(n)) : Page(n)[i] = list[h + i]
  <2> SUFFICES ASSUME NEW i \in 1..Len(Page(n)) PROVE Page(n)[i] = list[h + i]
    OBVIOUS
  <2>1. i \in 1..(e - (h + 1) + 1) /\ (h + 1) + i - 1 = h + i
    BY <1>2, <1>3, <1>6
  <2>2. Page(n)[i] = list[(h + 1) + i - 1]
    BY <1>6, <2>1
  <2>3. QED BY <2>1, <2>2
<1>10. QED BY <1>1, <1>2, <1>6, <1>7, <1>8, <1>9

-----------------------------------------------------------------------------
(* The list *)

Inserted(s, at, x, t) ==
  /\ t \in Seq(Item) /\ Len(t) = Len(s) + 1 /\ t[at] = x
  /\ \A i \in 1..(at - 1) : t[i] = s[i]
  /\ \A i \in at..Len(s) : t[i + 1] = s[i]

LEMMA InsertShifts ==
  ASSUME NEW s \in Seq(Item), NEW at \in 1..(Len(s) + 1), NEW x \in Item
  PROVE  Inserted(s, at, x, InsertAt(s, at, x))
<1> PICK t : t = InsertAt(s, at, x)
  OBVIOUS
<1> DEFINE a == SubSeq(s, 1, at - 1)
           b == SubSeq(s, at, Len(s))
<1>1. Len(s) \in Nat /\ \A i \in 1..Len(s) : s[i] \in Item
  BY LenProperties, ElementOfSeq
<1>2. /\ a \in Seq(Item) /\ Len(a) = at - 1
      /\ \A i \in 1..(at - 1) : a[i] = s[i]
  <2>1. /\ a \in Seq(Item) /\ Len(a) = IF 1 <= at - 1 THEN at - 1 - 1 + 1 ELSE 0
        /\ \A i \in 1..(at - 1 - 1 + 1) : a[i] = s[1 + i - 1]
    <3>1. 1 \in Int /\ at - 1 \in Int /\ \A i \in 1..(at - 1) : s[i] \in Item
      BY <1>1
    <3>2. QED BY <3>1, SubSeqProperties
  <2> HIDE DEF a
  <2>2. QED BY <1>1, <2>1
<1>3. /\ b \in Seq(Item) /\ Len(b) = Len(s) - at + 1
      /\ \A i \in 1..(Len(s) - at + 1) : b[i] = s[at + i - 1]
  <2>1. /\ b \in Seq(Item) /\ Len(b) = IF at <= Len(s) THEN Len(s) - at + 1 ELSE 0
        /\ \A i \in 1..(Len(s) - at + 1) : b[i] = s[at + i - 1]
    <3>1. at \in Int /\ Len(s) \in Int /\ \A i \in at..Len(s) : s[i] \in Item
      BY <1>1
    <3>2. QED BY <3>1, SubSeqProperties
  <2> HIDE DEF b
  <2>2. QED BY <1>1, <2>1
<1> DEFINE c == a \o <<x>>
<1>4. /\ c \in Seq(Item) /\ Len(c) = at /\ c[at] = x
      /\ \A i \in 1..(at - 1) : c[i] = s[i]
  <2>1. <<x>> \in Seq(Item) /\ Len(<<x>>) = 1 /\ <<x>>[1] = x
    OBVIOUS
  <2> HIDE DEF a
  <2>2. /\ c \in Seq(Item) /\ Len(c) = Len(a) + 1
        /\ \A i \in 1..(Len(a) + 1) : c[i] = IF i <= Len(a) THEN a[i] ELSE <<x>>[i - Len(a)]
    BY <1>2, <2>1, ConcatProperties
  <2> HIDE DEF c
  <2>3. QED BY <1>1, <1>2, <2>1, <2>2
<1>5. t = c \o b
  BY DEF InsertAt
<1> HIDE DEF a, b, c
<1>6. /\ t \in Seq(Item) /\ Len(t) = Len(c) + Len(b)
      /\ \A i \in 1..(Len(c) + Len(b)) : t[i] = IF i <= Len(c) THEN c[i] ELSE b[i - Len(c)]
  <2>1. /\ c \o b \in Seq(Item) /\ Len(c \o b) = Len(c) + Len(b)
        /\ \A i \in 1..(Len(c) + Len(b)) :
             (c \o b)[i] = IF i <= Len(c) THEN c[i] ELSE b[i - Len(c)]
    BY <1>3, <1>4, ConcatProperties
  <2>2. QED BY <1>5, <2>1, Zenon
<1>7. ASSUME NEW i \in at..Len(s) PROVE t[i + 1] = s[i]
  <2>1. i + 1 \in 1..(Len(c) + Len(b)) /\ i + 1 > Len(c) /\ i + 1 - Len(c) \in 1..(Len(s) - at + 1)
    BY <1>1, <1>3, <1>4
  <2>2. t[i + 1] = b[i + 1 - at]
    BY <1>4, <1>6, <2>1
  <2>3. b[i + 1 - at] = s[at + (i + 1 - at) - 1]
    BY <1>3, <1>4, <2>1
  <2>4. QED BY <1>1, <2>2, <2>3
<1>8. Inserted(s, at, x, t)
  BY <1>1, <1>3, <1>4, <1>6, <1>7 DEF Inserted
<1>9. QED BY <1>8

LEMMA RemoveShifts ==
  ASSUME NEW s \in Seq(Item), NEW at \in 1..Len(s), NEW t, t = RemoveAt(s, at)
  PROVE  /\ t \in Seq(Item) /\ Len(t) = Len(s) - 1
         /\ \A i \in 1..(at - 1) : t[i] = s[i]
         /\ \A i \in at..(Len(s) - 1) : t[i] = s[i + 1]
<1> DEFINE a == SubSeq(s, 1, at - 1)
           b == SubSeq(s, at + 1, Len(s))
<1>1. Len(s) \in Nat /\ \A i \in 1..Len(s) : s[i] \in Item
  BY LenProperties, ElementOfSeq
<1>2. /\ a \in Seq(Item) /\ Len(a) = at - 1
      /\ \A i \in 1..(at - 1) : a[i] = s[i]
  <2>1. /\ a \in Seq(Item) /\ Len(a) = IF 1 <= at - 1 THEN at - 1 - 1 + 1 ELSE 0
        /\ \A i \in 1..(at - 1 - 1 + 1) : a[i] = s[1 + i - 1]
    <3>1. 1 \in Int /\ at - 1 \in Int /\ \A i \in 1..(at - 1) : s[i] \in Item
      BY <1>1
    <3>2. QED BY <3>1, SubSeqProperties
  <2> HIDE DEF a
  <2>2. QED BY <1>1, <2>1
<1>3. /\ b \in Seq(Item) /\ Len(b) = Len(s) - at
      /\ \A i \in 1..(Len(s) - at) : b[i] = s[at + i]
  <2>1. /\ b \in Seq(Item) /\ Len(b) = IF at + 1 <= Len(s) THEN Len(s) - (at + 1) + 1 ELSE 0
        /\ \A i \in 1..(Len(s) - (at + 1) + 1) : b[i] = s[(at + 1) + i - 1]
    <3>1. at + 1 \in Int /\ Len(s) \in Int /\ \A i \in (at + 1)..Len(s) : s[i] \in Item
      BY <1>1
    <3>2. QED BY <3>1, SubSeqProperties
  <2> HIDE DEF b
  <2>2. QED BY <1>1, <2>1
<1>4. t = a \o b
  BY DEF RemoveAt
<1> HIDE DEF a, b
<1>5. /\ t \in Seq(Item) /\ Len(t) = Len(a) + Len(b)
      /\ \A i \in 1..(Len(a) + Len(b)) : t[i] = IF i <= Len(a) THEN a[i] ELSE b[i - Len(a)]
  <2>1. /\ a \o b \in Seq(Item) /\ Len(a \o b) = Len(a) + Len(b)
        /\ \A i \in 1..(Len(a) + Len(b)) :
             (a \o b)[i] = IF i <= Len(a) THEN a[i] ELSE b[i - Len(a)]
    BY <1>2, <1>3, ConcatProperties
  <2>2. QED BY <1>4, <2>1, Zenon
<1>6. ASSUME NEW i \in at..(Len(s) - 1) PROVE t[i] = s[i + 1]
  <2>1. i \in 1..(Len(a) + Len(b)) /\ i > Len(a) /\ i - Len(a) \in 1..(Len(s) - at)
    BY <1>1, <1>2, <1>3
  <2>2. t[i] = b[i - (at - 1)]
    BY <1>2, <1>5, <2>1
  <2>3. b[i - (at - 1)] = s[at + (i - (at - 1))]
    BY <1>2, <1>3, <2>1
  <2>4. QED BY <1>1, <2>2, <2>3
<1>7. Len(t) = Len(s) - 1
  BY <1>1, <1>2, <1>3, <1>5
<1>8. \A i \in 1..(at - 1) : t[i] = s[i]
  <2> SUFFICES ASSUME NEW i \in 1..(at - 1) PROVE t[i] = s[i]
    OBVIOUS
  <2>1. i \in 1..(Len(a) + Len(b)) /\ i <= Len(a)
    BY <1>1, <1>2, <1>3
  <2>2. QED BY <1>2, <1>5, <2>1
<1>9. QED BY <1>5, <1>6, <1>7, <1>8

-----------------------------------------------------------------------------
(* Steps *)

CallType ==
  [pc : {"page", "extra", "returned", "refused"},
   page : 1..maxPages, attempt : 0..MaxRetries,
   result : Seq(Item), declaredLastPage : Nat \cup {None},
   reportedTotal : Nat \cup {None}]

ReadShape ==
  /\ call.pc \in {"page", "extra", "returned", "refused"}
  /\ call.page \in 1..maxPages /\ call.attempt \in 0..MaxRetries
  /\ call.result \in Seq(Item)
  /\ call.declaredLastPage \in Nat \cup {None}
  /\ call.reportedTotal \in Nat \cup {None}

LEMMA ReadShapes ==
  ASSUME TypeOK
  PROVE  /\ ReadShape /\ call.page \in Nat \ {0} /\ Len(call.result) \in Nat
         /\ Len(list) \in Nat /\ DOMAIN list = 1..Len(list)
         /\ DOMAIN call.result = 1..Len(call.result)
         /\ \A p \in 1..Len(list) : list[p] \in used /\ list[p] \in ToSet(list)
         /\ Passed \in Nat
<1>1. /\ call \in CallType
      /\ list \in Seq(Item) /\ ToSet(list) \subseteq used
  BY DEF TypeOK, CallType
<1>2. ReadShape
  BY <1>1 DEF ReadShape, CallType
<1>3. call.page \in Nat \ {0}
  BY <1>2, Maximum DEF ReadShape
<1>4. /\ Len(call.result) \in Nat /\ DOMAIN call.result = 1..Len(call.result)
      /\ Len(list) \in Nat /\ DOMAIN list = 1..Len(list)
  BY <1>1, <1>2, LenProperties DEF ReadShape
<1>5. Passed \in Nat
  <2>1. call.page - 1 \in Nat /\ call.page \in Nat
    BY <1>3
  <2>2. QED BY <2>1, Product DEF Passed
<1>6. QED BY <1>1, <1>2, <1>3, <1>4, <1>5 DEF ToSet

(* A change of the list: records keep their order; one that comes is new.    *)
LEMMA EditIs ==
  ASSUME TypeOK, Edits
  PROVE  /\ list' \in Seq(Item) /\ IsInjective(list')
         /\ used \subseteq used' /\ used' \subseteq Item /\ ToSet(list') \subseteq used'
         /\ held' = held \cup {list'} /\ edits' \in 0..MaxEdits
         /\ UNCHANGED <<kind, style, call, answers, start>> /\ ~Finished
         /\ \A x \in used : x \in ToSet(list') => x \in ToSet(list)
         /\ \/ disturbed' = disturbed \cup {"insert"} /\ Len(list') = Len(list) + 1
            \/ /\ disturbed' = disturbed \cup {"remove"} /\ Len(list') = Len(list) - 1
               /\ HasTotal
         /\ kind = "reviews" => \A p \in 1..Len(list) : list'[p] = list[p]
         /\ kind = "statuses" => \A p \in 1..Len(list) : list'[p + 1] = list[p]
<1>1. /\ list \in Seq(Item) /\ IsInjective(list) /\ used \subseteq Item /\ edits \in Nat
      /\ ToSet(list) \subseteq used /\ Len(list) \in Nat /\ DOMAIN list = 1..Len(list)
      /\ kind \in {"check_runs", "statuses", "reviews"}
      /\ MaxEdits \in Nat /\ edits \in 0..MaxEdits
  <2>1. /\ list \in Seq(Item) /\ IsInjective(list) /\ used \subseteq Item
        /\ ToSet(list) \subseteq used /\ edits \in 0..MaxEdits
        /\ kind \in {"check_runs", "statuses", "reviews"}
    BY DEF TypeOK
  <2>2. QED BY <2>1, ReadShapes, LimitsAssumption
<1>2. CASE Insert
  <2>1. PICK x \in Item \ used, at \in Places :
          Edit(InsertAt(list, at, x), "insert") /\ used' = used \cup {x}
    BY <1>2 DEF Insert
  <2>2. /\ at \in 1..(Len(list) + 1)
        /\ kind = "reviews" => at = Len(list) + 1
        /\ kind = "statuses" => at = 1
    BY <1>1 DEF Places
  <2>3. /\ list' = InsertAt(list, at, x) /\ ~Finished
        /\ held' = held \cup {list'} /\ edits' = edits + 1 /\ edits < MaxEdits
        /\ disturbed' = disturbed \cup {"insert"}
        /\ UNCHANGED <<kind, style, call, answers, start>>
    BY <2>1 DEF Edit
  <2>4. /\ list' \in Seq(Item) /\ Len(list') = Len(list) + 1 /\ list'[at] = x
        /\ \A i \in 1..(at - 1) : list'[i] = list[i]
        /\ \A i \in at..Len(list) : list'[i + 1] = list[i]
    <3>1. /\ list \in Seq(Item) /\ at \in 1..(Len(list) + 1) /\ x \in Item
          /\ list' = InsertAt(list, at, x)
      BY <1>1, <2>1, <2>2, <2>3
    <3>2. Inserted(list, at, x, list')
      BY <3>1, InsertShifts
    <3>3. QED BY <3>2 DEF Inserted
  <2>5. DOMAIN list' = 1..(Len(list) + 1)
    BY <2>4, LenProperties
  <2>6. ASSUME NEW i \in DOMAIN list'
        PROVE  \/ i = at
               \/ i < at /\ i \in DOMAIN list /\ list'[i] = list[i]
               \/ i > at /\ i - 1 \in DOMAIN list /\ list'[i] = list[i - 1]
    <3>1. i > at => i - 1 \in at..Len(list) /\ (i - 1) + 1 = i
      BY <1>1, <2>2, <2>5
    <3>2. i < at => i \in 1..(at - 1) /\ i \in DOMAIN list
      BY <1>1, <2>2, <2>5
    <3>3. QED BY <1>1, <2>2, <2>4, <2>5, <3>1, <3>2
  <2>7. \A i \in DOMAIN list : list[i] # x /\ list[i] \in used
    BY <1>1, <2>1 DEF ToSet
  <2>8. IsInjective(list')
    <3> SUFFICES ASSUME NEW i \in DOMAIN list', NEW j \in DOMAIN list', list'[i] = list'[j]
                 PROVE  i = j
      BY DEF IsInjective
    <3>1. i = at <=> j = at
      BY <2>4, <2>6, <2>7
    <3>2. QED BY <1>1, <2>2, <2>5, <2>6, <3>1 DEF IsInjective
  <2>9. ToSet(list') \subseteq used'
    BY <2>1, <2>4, <2>6, <2>7 DEF ToSet
  <2>10. \A y \in used : y \in ToSet(list') => y \in ToSet(list)
    BY <2>1, <2>4, <2>6 DEF ToSet
  <2>11. edits' \in 0..MaxEdits /\ used' \subseteq Item /\ used \subseteq used'
    BY <1>1, <2>1, <2>3
  <2>12. kind = "reviews" => \A p \in 1..Len(list) : list'[p] = list[p]
    BY <1>1, <2>2, <2>4
  <2>13. kind = "statuses" => \A p \in 1..Len(list) : list'[p + 1] = list[p]
    BY <1>1, <2>2, <2>4
  <2>14. QED BY <2>3, <2>4, <2>8, <2>9, <2>10, <2>11, <2>12, <2>13
<1>3. CASE Drop
  <2>1. PICK at \in DOMAIN list : Edit(RemoveAt(list, at), "remove")
    BY <1>3 DEF Drop
  <2>2. kind = "check_runs" /\ used' = used
    BY <1>3 DEF Drop
  <2>3. /\ list' = RemoveAt(list, at) /\ ~Finished
        /\ held' = held \cup {list'} /\ edits' = edits + 1 /\ edits < MaxEdits
        /\ disturbed' = disturbed \cup {"remove"}
        /\ UNCHANGED <<kind, style, call, answers, start>>
    BY <2>1 DEF Edit
  <2>4. /\ list' \in Seq(Item) /\ Len(list') = Len(list) - 1
        /\ \A i \in 1..(at - 1) : list'[i] = list[i]
        /\ \A i \in at..(Len(list) - 1) : list'[i] = list[i + 1]
    <3> PICK t : t = RemoveAt(list, at)
      OBVIOUS
    <3>1. /\ t \in Seq(Item) /\ Len(t) = Len(list) - 1
          /\ \A i \in 1..(at - 1) : t[i] = list[i]
          /\ \A i \in at..(Len(list) - 1) : t[i] = list[i + 1]
      <4>1. list \in Seq(Item) /\ at \in 1..Len(list)
        BY <1>1, <2>1
      <4>2. QED BY <4>1, RemoveShifts, Zenon
    <3>2. QED BY <2>3, <3>1
  <2>5. DOMAIN list' = 1..(Len(list) - 1)
    BY <2>4, LenProperties
  <2>6. ASSUME NEW i \in DOMAIN list'
        PROVE  \/ i < at /\ i \in DOMAIN list /\ list'[i] = list[i]
               \/ i >= at /\ i + 1 \in DOMAIN list /\ list'[i] = list[i + 1]
    BY <1>1, <2>4, <2>5
  <2>7. IsInjective(list')
    <3> SUFFICES ASSUME NEW i \in DOMAIN list', NEW j \in DOMAIN list', list'[i] = list'[j]
                 PROVE  i = j
      BY DEF IsInjective
    <3>1. QED BY <1>1, <2>5, <2>6 DEF IsInjective
  <2>8. ToSet(list') \subseteq ToSet(list)
    BY <2>6 DEF ToSet
  <2>9. edits' \in 0..MaxEdits /\ HasTotal
    BY <1>1, <2>2, <2>3 DEF HasTotal
  <2>10. QED BY <1>1, <2>2, <2>3, <2>4, <2>7, <2>8, <2>9
<1>4. QED BY <1>2, <1>3 DEF Edits

(* The answers that a read takes. *)
TakesPage(link) ==
  LET items == Page(call.page) IN
  /\ call.pc = "page"
  /\ TotalAccepted(items) /\ PageAccepted(items, link) /\ NextAccepted(link)
  /\ call' = [pc |-> IF link.hasNext THEN "page" ELSE "extra",
              page |-> IF link.hasNext THEN call.page + 1 ELSE call.page,
              attempt |-> 0,
              result |-> call.result \o items,
              declaredLastPage |-> DeclaredAfter(link),
              reportedTotal |-> TotalAfter]
  /\ UNCHANGED answers

Returns(link) ==
  /\ call.pc = "extra"
  /\ TotalAccepted(Page(call.page + 1)) /\ ExtraAccepted(Page(call.page + 1), link)
  /\ WholeAccepted
  /\ call' = [call EXCEPT !.pc = "returned"]
  /\ answers' = Append(answers, call.result)

Faulty(link) ==
  disturbed' = disturbed \cup (IF link = ProperLink(Requested) THEN {} ELSE {"fault"})

LEMMA AnswerIs ==
  ASSUME Answer
  PROVE  /\ Unedited /\ Awaiting
         /\ \E link \in Links :
              Faulty(link) /\ (TakesPage(link) \/ Returns(link) \/ (Refuse /\ Awaiting))
BY DEF Answer, PageArrives, ExtraArrives, TakesPage, Returns, Faulty, Awaiting

(* A step that takes no answer. *)
LEMMA ReadStays ==
  ASSUME TypeOK, Refuse \/ Retry \/ \E link \in Links : Returns(link)
  PROVE  /\ call' \in CallType /\ call'.result = call.result
         /\ Refuse => call'.pc = "refused" /\ UNCHANGED answers
         /\ Retry => UNCHANGED answers /\ call'.pc = call.pc /\ call'.page = call.page
                      /\ call'.declaredLastPage = call.declaredLastPage
                      /\ call'.reportedTotal = call.reportedTotal
         /\ (\E link \in Links : Returns(link)) => call'.pc = "returned"
<1>1. call \in CallType
  BY DEF TypeOK, CallType
<1>2. CASE Refuse
  BY <1>1, <1>2 DEF Refuse, Retry, Returns, Awaiting, CallType
<1>3. CASE Retry
  <2>1. /\ call.pc \in {"page", "extra"} /\ UNCHANGED answers
        /\ call' = [call EXCEPT !.attempt = call.attempt + 1]
        /\ call.attempt + 1 \in 0..MaxRetries
    BY <1>1, <1>3, LimitsAssumption DEF Retry, Awaiting, CallType
  <2>2. /\ call' \in CallType /\ call'.result = call.result
        /\ call'.pc = call.pc /\ call'.page = call.page
        /\ call'.declaredLastPage = call.declaredLastPage
        /\ call'.reportedTotal = call.reportedTotal
    BY <1>1, <2>1 DEF CallType
  <2>3. ~Refuse /\ ~ \E link \in Links : Returns(link)
    BY <1>1, <2>1, <2>2 DEF Refuse, Returns, CallType
  <2>4. QED BY <2>1, <2>2, <2>3
<1>4. CASE \E link \in Links : Returns(link)
  BY <1>1, <1>4 DEF Refuse, Retry, Returns, Awaiting, CallType
<1>5. QED BY <1>2, <1>3, <1>4

(* A page that is taken: the read has passed one page more, and what it adds *)
(* are the records of that page.  Only a full page leads to another.         *)
LEMMA TakenPage ==
  ASSUME TypeOK, Progress, NEW link \in Links, TakesPage(link), NEW h, h = Passed
  PROVE  /\ h \in Nat /\ Len(call.result) = h /\ Passed' = h + PageSize
         /\ call' \in CallType /\ call'.pc \in {"page", "extra"}
         /\ Len(call'.result) \in Nat /\ Len(call'.result) < MaxItems
         /\ h <= Len(call'.result) /\ Len(call'.result) <= h + PageSize
         /\ DOMAIN call'.result = 1..Len(call'.result)
         /\ \A i \in 1..h : call'.result[i] = call.result[i]
         /\ \A i \in (h + 1)..Len(call'.result) :
              i \in 1..Len(list) /\ call'.result[i] = list[i]
         /\ \A p \in 1..Len(list) : p > h /\ p <= h + PageSize => p <= Len(call'.result)
         /\ call'.pc = "page" =>
              h + PageSize < Len(list) /\ Len(call'.result) = h + PageSize
         /\ call'.reportedTotal = TotalAfter /\ call'.declaredLastPage = DeclaredAfter(link)
<1> DEFINE items == Page(call.page)
<1>1. /\ call.pc = "page" /\ call.page \in Nat \ {0} /\ list \in Seq(Item)
      /\ call.result \in Seq(Item) /\ h = (call.page - 1) * PageSize
      /\ Len(call.result) = h /\ PageSize \in Nat
      /\ call.page \in 1..maxPages
  BY ReadShapes, LimitsAssumption DEF TakesPage, Progress, Passed, ReadShape, TypeOK
<1>2. /\ h \in Nat /\ call.page * PageSize = h + PageSize /\ Len(list) \in Nat
      /\ items \in Seq(Item)
      /\ Len(items) = IF h + PageSize < Len(list) THEN PageSize
                      ELSE IF h < Len(list) THEN Len(list) - h ELSE 0
      /\ \A i \in 1..Len(items) : items[i] = list[h + i]
      /\ call.page < PageCount <=> h + PageSize < Len(list)
  BY <1>1, PageIs
<1>3. Len(items) \in Nat
  BY <1>2, LenProperties
<1>4. /\ TotalAccepted(items) /\ PageAccepted(items, link) /\ NextAccepted(link)
      /\ call' = [pc |-> IF link.hasNext THEN "page" ELSE "extra",
                  page |-> IF link.hasNext THEN call.page + 1 ELSE call.page,
                  attempt |-> 0,
                  result |-> call.result \o items,
                  declaredLastPage |-> DeclaredAfter(link),
                  reportedTotal |-> TotalAfter]
  BY DEF TakesPage
<1> HIDE DEF items
<1>5. /\ call'.result = call.result \o items
      /\ call'.pc = (IF link.hasNext THEN "page" ELSE "extra")
      /\ call'.page = (IF link.hasNext THEN call.page + 1 ELSE call.page)
      /\ call'.attempt = 0 /\ call'.declaredLastPage = DeclaredAfter(link)
      /\ call'.reportedTotal = TotalAfter
  BY <1>4
<1>6. /\ call.result \o items \in Seq(Item)
      /\ Len(call.result \o items) = h + Len(items)
      /\ \A i \in 1..(h + Len(items)) :
           (call.result \o items)[i] = IF i <= h THEN call.result[i] ELSE items[i - h]
  <2>1. call.result \in Seq(Item) /\ items \in Seq(Item)
    BY <1>1, <1>2
  <2>2. /\ call.result \o items \in Seq(Item)
        /\ Len(call.result \o items) = Len(call.result) + Len(items)
        /\ \A i \in 1..(Len(call.result) + Len(items)) :
             (call.result \o items)[i] = IF i <= Len(call.result) THEN call.result[i]
                                         ELSE items[i - Len(call.result)]
    BY <2>1, ConcatProperties, Zenon
  <2>3. QED BY <1>1, <2>2
<1>7. /\ call'.result \in Seq(Item) /\ Len(call'.result) = h + Len(items)
      /\ \A i \in 1..(h + Len(items)) :
           call'.result[i] = IF i <= h THEN call.result[i] ELSE items[i - h]
  BY <1>5, <1>6
<1>8. DOMAIN call'.result = 1..Len(call'.result)
  BY <1>7, LenProperties
<1>9. link.hasNext => call.page < PageCount /\ call.page # maxPages
  <2> SUFFICES ASSUME link.hasNext PROVE call.page < PageCount /\ call.page # maxPages
    OBVIOUS
  <2>1. link.nextPage = call.page + 1 /\ call.page # maxPages
    BY <1>4 DEF NextAccepted
  <2>2. link # Garbled
    BY <1>1, <2>1, LimitsAssumption DEF Garbled
  <2>3. link = ProperLink(call.page)
    BY <1>1, <2>2 DEF Links, Requested, Hidden
  <2>4. QED BY <2>1, <2>3 DEF ProperLink
<1>10. ASSUME NEW i \in (h + 1)..Len(call'.result)
       PROVE  i \in 1..Len(list) /\ call'.result[i] = list[i]
  <2>1. i \in 1..(h + Len(items)) /\ ~(i <= h) /\ i - h \in 1..Len(items) /\ h + (i - h) = i
    BY <1>2, <1>3, <1>7
  <2>2. call'.result[i] = items[i - h]
    BY <1>7, <2>1
  <2>3. i \in 1..Len(list) /\ items[i - h] = list[h + (i - h)]
    BY <1>2, <2>1
  <2>4. QED BY <2>1, <2>2, <2>3
<1>11. call' \in CallType
  <2>1. call'.page \in 1..maxPages
    <3> PICK k \in Nat \ {0} : k = maxPages
      BY Maximum
    <3>1. call.page \in 1..k
      BY <1>1
    <3>2. QED BY <1>5, <1>9, <3>1
  <2>2. DeclaredAfter(link) \in Nat \cup {None}
    <3>1. link.hasLast => link.lastPage \in Nat \cup {None}
      <4>1. PageCount \in Nat
        BY <1>1, PageIs
      <4>2. link \in {ProperLink(call.page), Garbled, Hidden}
        BY <1>1 DEF Links, Requested
      <4>3. ProperLink(call.page).lastPage \in {PageCount, None}
        BY DEF ProperLink
      <4>4. Garbled.lastPage = None /\ Hidden.lastPage = None
        BY DEF Garbled, Hidden
      <4>5. QED BY <4>1, <4>2, <4>3, <4>4
    <3>2. QED BY <3>1, ReadShapes DEF DeclaredAfter, ReadShape
  <2>3. TotalAfter \in Nat \cup {None}
    BY <1>2 DEF TotalAfter
  <2>4. QED BY <1>4, <1>5, <1>7, <2>1, <2>2, <2>3, LimitsAssumption DEF CallType
<1>12. Passed' = h + PageSize
  <2>1. /\ call'.pc = "page" => call'.page - 1 = call.page
        /\ call'.pc # "page" => call'.page = call.page
    BY <1>1, <1>5
  <2>2. Passed' = call.page * PageSize
    BY <2>1 DEF Passed
  <2>3. QED BY <1>2, <2>2
<1>13. Len(call'.result) < MaxItems
  BY <1>1, <1>4, <1>7 DEF PageAccepted
<1>14. Len(items) <= PageSize
  BY <1>1, <1>4 DEF PageAccepted
<1>15. \A p \in 1..Len(list) : p > h /\ p <= h + PageSize => p <= Len(call'.result)
  BY <1>1, <1>2, <1>3, <1>7
<1>16. call'.pc = "page" => h + PageSize < Len(list) /\ Len(call'.result) = h + PageSize
  BY <1>2, <1>5, <1>7, <1>9
<1>17. /\ Len(call'.result) \in Nat
       /\ h <= Len(call'.result) /\ Len(call'.result) <= h + PageSize
  <2>1. /\ Len(items) \in Nat /\ h \in Nat /\ PageSize \in Nat
        /\ Len(call'.result) = h + Len(items) /\ Len(items) <= PageSize
    BY <1>1, <1>2, <1>3, <1>7, <1>14
  <2>2. QED BY <2>1
<1>18. \A i \in 1..h : call'.result[i] = call.result[i]
  BY <1>2, <1>3, <1>7
<1>19. call'.pc \in {"page", "extra"}
  BY <1>5
<1>20. QED
  BY <1>1, <1>2, <1>5, <1>8, <1>10, <1>11, <1>12, <1>13, <1>15, <1>16, <1>17, <1>18, <1>19

-----------------------------------------------------------------------------
(* Types and progress *)

LEMMA PagesTypeNext ==
  ASSUME TypeOK, Progress, [Next]_vars
  PROVE  TypeOK' /\ Progress'
<1>1. /\ list \in Seq(Item) /\ IsInjective(list) /\ used \subseteq Item
      /\ ToSet(list) \subseteq used /\ edits \in 0..MaxEdits
      /\ kind \in {"check_runs", "statuses", "reviews"}
      /\ style \in {"next", "last while next", "last always"}
      /\ call \in CallType /\ Len(call.result) < MaxItems
      /\ answers \in Seq(Seq(Item)) /\ Len(answers) <= Reads
      /\ held \subseteq Seq(Item) /\ list \in held /\ start \in held
      /\ disturbed \subseteq {"insert", "remove", "fault"}
  BY DEF TypeOK, CallType
<1>2. CASE UNCHANGED vars
  BY <1>2 DEF vars, TypeOK, Progress, Passed, LastAnswer, Awaiting
<1>3. CASE Edits
  <2>1. /\ list' \in Seq(Item) /\ IsInjective(list')
        /\ used \subseteq used' /\ used' \subseteq Item /\ ToSet(list') \subseteq used'
        /\ held' = held \cup {list'} /\ edits' \in 0..MaxEdits
        /\ UNCHANGED <<kind, style, call, answers, start>>
    BY <1>3, EditIs
  <2>2. disturbed' \subseteq {"insert", "remove", "fault"}
    BY <1>1, <1>3, EditIs
  <2>3. TypeOK'
    BY <1>1, <2>1, <2>2 DEF TypeOK, CallType
  <2>4. Progress'
    BY <2>1 DEF Progress, Passed, LastAnswer, Awaiting
  <2>5. QED BY <2>3, <2>4
<1>4. ASSUME Unedited, disturbed' \subseteq {"insert", "remove", "fault"},
             call' \in CallType, Len(call'.result) < MaxItems,
             answers' \in Seq(Seq(Item)), Len(answers') <= Reads
      PROVE  TypeOK'
  BY <1>1, <1>4 DEF TypeOK, Unedited, CallType
<1>5. CASE Answer
  <2>1. Unedited /\ Awaiting
    BY <1>5, AnswerIs
  <2>2. PICK link \in Links : /\ Faulty(link)
                              /\ TakesPage(link) \/ Returns(link) \/ (Refuse /\ Awaiting)
    BY <1>5, AnswerIs
  <2>3. disturbed' \subseteq {"insert", "remove", "fault"}
    BY <1>1, <2>2 DEF Faulty
  <2>4. CASE TakesPage(link)
    <3>1. PICK h : h = Passed
      OBVIOUS
    <3>2. /\ call' \in CallType /\ Len(call'.result) < MaxItems /\ UNCHANGED answers
          /\ call'.pc \in {"page", "extra"}
      BY <2>4, <3>1, TakenPage DEF TakesPage
    <3>3. TypeOK'
      BY <1>1, <1>4, <2>1, <2>3, <3>2
    <3>4. /\ call'.pc = "page" => Len(call'.result) = Passed'
          /\ Len(call'.result) <= Passed'
      BY <2>4, <3>1, TakenPage
    <3>5. ToSet(call'.result) \subseteq used'
      <4> SUFFICES ASSUME NEW i \in DOMAIN call'.result PROVE call'.result[i] \in used
        BY <2>1 DEF Unedited, ToSet
      <4>1. /\ i \in 1..Len(call'.result) /\ h \in Nat /\ Len(call.result) = h
            /\ Len(call'.result) \in Nat
            /\ \A j \in 1..h : call'.result[j] = call.result[j]
            /\ \A j \in (h + 1)..Len(call'.result) :
                 j \in 1..Len(list) /\ call'.result[j] = list[j]
        BY <2>4, <3>1, TakenPage
      <4>2. CASE i \in 1..h
        BY <4>1, <4>2, ReadShapes DEF Progress, ToSet
      <4>3. CASE i \in (h + 1)..Len(call'.result)
        BY <4>1, <4>3, ReadShapes
      <4>4. QED BY <4>1, <4>2, <4>3
    <3>6. Len(answers') < Reads /\ call'.pc # "returned"
      BY <2>1, <3>2 DEF Progress
    <3>7. QED BY <3>3, <3>4, <3>5, <3>6 DEF Progress
  <2>5. CASE Returns(link)
    <3>1. /\ call' \in CallType /\ call'.result = call.result /\ call'.pc = "returned"
      BY <2>5, ReadStays
    <3>2. /\ answers' = Append(answers, call.result) /\ call.result \in Seq(Item)
      BY <1>1, <2>5 DEF Returns, CallType
    <3>3. /\ answers' \in Seq(Seq(Item)) /\ Len(answers') = Len(answers) + 1
          /\ answers'[Len(answers) + 1] = call.result
      <4> DEFINE S == Seq(Item)
      <4>1. answers \in Seq(S) /\ call.result \in S
        BY <1>1, <3>2
      <4> HIDE DEF S
      <4>2. /\ Append(answers, call.result) \in Seq(S)
            /\ Len(Append(answers, call.result)) = Len(answers) + 1
            /\ Append(answers, call.result)[Len(answers) + 1] = call.result
        BY <4>1, AppendProperties
      <4>3. QED BY <3>2, <4>2 DEF S
    <3>4. Len(answers) < Reads /\ Len(answers) \in Nat
      BY <1>1, <2>1, LenProperties DEF Progress
    <3>5. Len(answers') <= Reads
      BY <3>3, <3>4 DEF Reads
    <3>6. TypeOK'
      BY <1>1, <1>4, <2>1, <2>3, <3>1, <3>3, <3>5
    <3>7. answers' # <<>> /\ LastAnswer' = call'.result
      BY <3>1, <3>3, <3>4 DEF LastAnswer
    <3>8. Progress'
      BY <2>1, <3>1, <3>7 DEF Progress, Unedited, Awaiting
    <3>9. QED BY <3>6, <3>8
  <2>6. CASE Refuse /\ Awaiting
    <3>1. /\ call' \in CallType /\ call'.result = call.result /\ call'.pc = "refused"
          /\ UNCHANGED answers
      BY <2>6, ReadStays
    <3>2. QED BY <1>1, <1>4, <2>1, <2>3, <3>1 DEF Progress, Unedited, Awaiting
  <2>7. QED BY <2>2, <2>4, <2>5, <2>6
<1>6. CASE Retry
  <2>1. /\ call' \in CallType /\ call'.result = call.result /\ call'.pc = call.pc
        /\ call'.page = call.page /\ UNCHANGED <<answers, disturbed>> /\ Unedited
    BY <1>6, ReadStays DEF Retry
  <2>2. TypeOK'
    BY <1>1, <1>4, <2>1
  <2>3. Progress'
    BY <2>1 DEF Progress, Unedited, Awaiting, Passed, LastAnswer
  <2>4. QED BY <2>2, <2>3
<1>7. CASE Fail
  <2>1. Refuse /\ Unedited /\ disturbed' = disturbed \cup {"fault"}
    BY <1>7 DEF Fail
  <2>2. /\ call' \in CallType /\ call'.result = call.result /\ call'.pc = "refused"
        /\ UNCHANGED answers
    BY <2>1, ReadStays
  <2>3. TypeOK'
    BY <1>1, <1>4, <2>1, <2>2
  <2>4. QED BY <2>1, <2>2, <2>3 DEF Progress, Unedited, Awaiting
<1>8. CASE ReadAgain
  <2>1. /\ call' = FirstRequest /\ start' = list /\ disturbed' = {} /\ Len(answers) < Reads
        /\ UNCHANGED <<kind, style, list, used, edits, answers, held>>
    BY <1>8 DEF ReadAgain
  <2>2. /\ FirstRequest \in CallType /\ Len(FirstRequest.result) = 0
        /\ FirstRequest.result = <<>>
        /\ FirstRequest.pc = "page" /\ FirstRequest.page = 1
    <3>1. <<>> \in Seq(Item) /\ Len(<<>>) = 0
      BY EmptySeq
    <3>2. 1 \in 1..maxPages /\ 0 \in 0..MaxRetries
      BY Maximum, LimitsAssumption
    <3>3. QED BY <3>1, <3>2 DEF FirstRequest, CallType
  <2>3. TypeOK'
    <3>1. Len(call'.result) < MaxItems /\ call' \in CallType
      BY <2>1, <2>2, LimitsAssumption
    <3>2. start' \in held' /\ list' \in held' /\ disturbed' \subseteq {"insert", "remove", "fault"}
      BY <1>1, <2>1
    <3>3. QED BY <1>1, <2>1, <3>1, <3>2 DEF TypeOK, CallType
  <2>4. Passed' = 0
    BY <2>1, <2>2, LimitsAssumption DEF Passed
  <2>5. Progress'
    BY <2>1, <2>2, <2>4 DEF Progress, Awaiting, ToSet
  <2>6. QED BY <2>3, <2>5
<1>9. QED BY <1>2, <1>3, <1>5, <1>6, <1>7, <1>8 DEF Next, Collect

-----------------------------------------------------------------------------
(* The kinds of steps, as the invariants tell them apart. *)

Waits ==
  /\ Unedited /\ UNCHANGED <<answers, disturbed>>
  /\ call'.pc = call.pc /\ call'.page = call.page /\ call'.result = call.result
  /\ call'.declaredLastPage = call.declaredLastPage
  /\ call'.reportedTotal = call.reportedTotal

Ends ==
  /\ Unedited /\ UNCHANGED answers /\ Awaiting
  /\ call'.pc = "refused" /\ call'.result = call.result

Restarts ==
  /\ UNCHANGED <<kind, style, list, used, edits, answers, held>>
  /\ start' = list /\ disturbed' = {} /\ answers # <<>> /\ Len(answers) < Reads
  /\ call' = FirstRequest

LEMMA StepKinds ==
  ASSUME TypeOK, Progress, [Next]_vars
  PROVE  \/ Edits \/ Waits \/ Ends \/ Restarts
         \/ \E link \in Links : Unedited /\ Faulty(link) /\ TakesPage(link)
         \/ \E link \in Links : Unedited /\ Faulty(link) /\ Returns(link)
<1>1. UNCHANGED vars => Waits
  BY DEF vars, Waits, Unedited
<1>2. Retry => Waits
  BY ReadStays DEF Retry, Waits
<1>3. Fail => Ends
  BY ReadStays DEF Fail, Ends
<1>4. ReadAgain => Restarts
  BY DEF ReadAgain, Restarts, Progress
<1>5. Answer => \/ \E link \in Links : Unedited /\ Faulty(link) /\ TakesPage(link)
                \/ \E link \in Links : Unedited /\ Faulty(link) /\ Returns(link)
                \/ Ends
  BY AnswerIs, ReadStays DEF Ends
<1>6. QED BY <1>1, <1>2, <1>3, <1>4, <1>5 DEF Next, Collect

(* A read ends only when nothing is left of the list to pass.                *)
LEMMA Returned ==
  ASSUME TypeOK, Progress, NEW link \in Links, Returns(link)
  PROVE  /\ Len(list) <= Passed /\ Awaiting /\ call.pc = "extra" /\ WholeAccepted
         /\ call'.pc = "returned" /\ call'.result = call.result
         /\ Len(answers) \in {0, 1} /\ Len(answers') = Len(answers) + 1
         /\ DOMAIN answers = 1..Len(answers) /\ DOMAIN answers' = 1..(Len(answers) + 1)
         /\ \A i \in 1..Len(answers) : answers'[i] = answers[i]
         /\ answers'[Len(answers) + 1] = call.result /\ LastAnswer' = call.result
         /\ ~Awaiting'
<1>1. /\ call.pc = "extra" /\ WholeAccepted /\ Page(call.page + 1) = <<>>
      /\ answers' = Append(answers, call.result)
  BY DEF Returns, ExtraAccepted
<1>2. Len(list) <= Passed
  <2>1. call.page \in Nat \ {0} /\ list \in Seq(Item)
    BY ReadShapes DEF TypeOK
  <2>2. PICK n \in Nat \ {0} : n = call.page + 1
    BY <2>1
  <2>3. Passed = (n - 1) * PageSize
    BY <1>1, <2>1, <2>2 DEF Passed
  <2>4. /\ Passed \in Nat /\ Len(list) \in Nat
        /\ Len(Page(n)) = IF Passed + PageSize < Len(list) THEN PageSize
                          ELSE IF Passed < Len(list) THEN Len(list) - Passed ELSE 0
    BY <2>1, <2>3, PageIs
  <2>5. Len(Page(n)) = 0
    BY <1>1, <2>2
  <2>6. QED BY <2>4, <2>5, LimitsAssumption
<1>3. Awaiting
  BY <1>1 DEF Awaiting
<1>4. call'.pc = "returned" /\ call'.result = call.result
  BY ReadStays
<1>5. answers \in Seq(Seq(Item)) /\ call.result \in Seq(Item) /\ Len(answers) < 2
  BY <1>3, ReadShapes DEF TypeOK, Progress, ReadShape, Reads
<1>6. /\ Len(answers) \in Nat /\ DOMAIN answers = 1..Len(answers)
      /\ Len(answers') = Len(answers) + 1 /\ DOMAIN answers' = 1..(Len(answers) + 1)
      /\ \A i \in 1..Len(answers) : answers'[i] = answers[i]
      /\ answers'[Len(answers) + 1] = call.result
  <2> DEFINE S == Seq(Item)
  <2>1. answers \in Seq(S) /\ call.result \in S
    BY <1>5
  <2> HIDE DEF S
  <2>2. /\ Append(answers, call.result) \in Seq(S)
        /\ Len(Append(answers, call.result)) = Len(answers) + 1
        /\ Append(answers, call.result)[Len(answers) + 1] = call.result
        /\ \A i \in 1..Len(answers) : Append(answers, call.result)[i] = answers[i]
    BY <2>1, AppendProperties
  <2>3. /\ Len(answers) \in Nat /\ DOMAIN answers = 1..Len(answers)
        /\ DOMAIN Append(answers, call.result) = 1..Len(Append(answers, call.result))
    BY <2>1, <2>2, LenProperties
  <2>4. QED BY <1>1, <2>2, <2>3
<1>7. LastAnswer' = call.result
  BY <1>6 DEF LastAnswer
<1>8. ~Awaiting'
  BY <1>4 DEF Awaiting
<1>9. Len(answers) \in {0, 1}
  BY <1>5, <1>6
<1>10. QED BY <1>1, <1>2, <1>3, <1>4, <1>6, <1>7, <1>8, <1>9

LEMMA Restarted ==
  ASSUME Restarts
  PROVE  /\ call'.pc = "page" /\ call'.page = 1 /\ call'.result = <<>> /\ Passed' = 0
         /\ call'.declaredLastPage = None /\ call'.reportedTotal = None
         /\ Awaiting'
BY LimitsAssumption DEF Restarts, FirstRequest, Passed, Awaiting

(* What a page that is taken does to what was ahead and what was read.       *)
LEMMA TakenAhead ==
  ASSUME TypeOK, Progress, NEW link \in Links, TakesPage(link), Unedited
  PROVE  /\ ToSet(call.result) \subseteq ToSet(call'.result)
         /\ ToSet(call'.result) \subseteq ToSet(call.result) \cup ToSet(list)
         /\ \A x : Ahead(x) => x \in ToSet(call'.result) \/ Ahead(x)'
         /\ ~Distinct(call.result) => ~Distinct(call'.result)
         /\ Begins(call.result) => Begins(call.result)'
         /\ Begins(call.result) /\ Len(list) <= Passed' => call'.result = list
         /\ (\E x \in ToSet(call.result) : Ahead(x)) =>
              ~Distinct(call'.result) \/ \E x \in ToSet(call'.result) : Ahead(x)'
<1>1. PICK h : h = Passed
  OBVIOUS
<1> DEFINE r == call.result
           s == call'.result
<1>2. /\ h \in Nat /\ Len(r) = h /\ Passed' = h + PageSize /\ PageSize \in Nat \ {0}
      /\ Len(s) \in Nat /\ h <= Len(s) /\ Len(s) <= h + PageSize
      /\ DOMAIN s = 1..Len(s) /\ DOMAIN r = 1..h
      /\ \A i \in 1..h : s[i] = r[i]
      /\ \A i \in (h + 1)..Len(s) : i \in 1..Len(list) /\ s[i] = list[i]
      /\ \A p \in 1..Len(list) : p > h /\ p <= h + PageSize => p <= Len(s)
      /\ Len(list) \in Nat /\ DOMAIN list = 1..Len(list) /\ list' = list
      /\ s \in Seq(Item) /\ list \in Seq(Item)
  BY <1>1, TakenPage, ReadShapes, LimitsAssumption DEF Unedited, CallType, TypeOK
<1> HIDE DEF r, s
<1>3. /\ ToSet(r) \subseteq ToSet(s)
      /\ ToSet(s) \subseteq ToSet(r) \cup ToSet(list)
  <2>1. \A i \in 1..h : i \in DOMAIN s /\ s[i] = r[i]
    BY <1>2
  <2>2. \A i \in DOMAIN s : i \in 1..h \/ i \in (h + 1)..Len(s)
    BY <1>2
  <2>3. QED BY <1>2, <2>1, <2>2 DEF ToSet
<1>4. ASSUME NEW x, NEW p \in DOMAIN list, p > h, list[p] = x
      PROVE  \/ p \in (h + 1)..Len(s) /\ s[p] = x
             \/ p > Passed'
  BY <1>2, <1>4
<1>5. \A x : Ahead(x) => x \in ToSet(s) \/ Ahead(x)'
  <2> SUFFICES ASSUME NEW x, NEW p \in DOMAIN list, p > h, list[p] = x
               PROVE  x \in ToSet(s) \/ Ahead(x)'
    BY <1>1 DEF Ahead
  <2>1. CASE p \in (h + 1)..Len(s) /\ s[p] = x
    BY <1>2, <2>1 DEF ToSet
  <2>2. CASE p > Passed'
    BY <1>2, <2>2 DEF Ahead
  <2>3. QED BY <1>4, <2>1, <2>2
<1>6. ~Distinct(r) => ~Distinct(s)
  BY <1>2 DEF Distinct, IsInjective
<1>7. Begins(r) => Len(s) <= Len(list) /\ \A i \in 1..Len(s) : s[i] = list[i]
  <2> SUFFICES ASSUME Begins(r) PROVE Len(s) <= Len(list) /\ \A i \in 1..Len(s) : s[i] = list[i]
    OBVIOUS
  <2>1. h <= Len(list) /\ \A i \in 1..h : r[i] = list[i]
    BY <1>2 DEF Begins
  <2>2. Len(s) > h => Len(s) \in (h + 1)..Len(s)
    BY <1>2
  <2>3. Len(s) <= Len(list)
    BY <1>2, <2>1, <2>2
  <2>4. \A i \in 1..Len(s) : i \in 1..h \/ i \in (h + 1)..Len(s)
    BY <1>2
  <2>5. QED BY <1>2, <2>1, <2>3, <2>4
<1>8. Begins(r) /\ Len(list) <= Passed' => s = list
  <2> SUFFICES ASSUME Begins(r), Len(list) <= h + PageSize PROVE s = list
    BY <1>2
  <2>1. Len(s) <= Len(list) /\ \A i \in 1..Len(s) : s[i] = list[i]
    BY <1>7
  <2>2. Len(list) > h => Len(list) <= Len(s)
    <3>1. Len(list) > h => Len(list) \in 1..Len(list)
      BY <1>2
    <3>2. QED BY <1>2, <3>1
  <2>3. Len(s) = Len(list)
    <3>1. Len(s) \in Nat /\ Len(list) \in Nat /\ h \in Nat /\ h <= Len(s)
      BY <1>2
    <3>2. QED BY <2>1, <2>2, <3>1
  <2>4. QED BY <1>2, <2>1, <2>3, SeqEqual
<1>9. (\E x \in ToSet(r) : Ahead(x)) => ~Distinct(s) \/ \E x \in ToSet(s) : Ahead(x)'
  <2> SUFFICES ASSUME NEW x \in ToSet(r), NEW p \in DOMAIN list, p > h, list[p] = x
               PROVE  ~Distinct(s) \/ Ahead(x)'
    BY <1>1, <1>3 DEF Ahead
  <2>1. PICK i \in 1..h : r[i] = x
    BY <1>2 DEF ToSet
  <2>2. CASE p \in (h + 1)..Len(s) /\ s[p] = x
    <3>1. i \in DOMAIN s /\ p \in DOMAIN s /\ i # p /\ s[i] = s[p]
      BY <1>2, <2>1, <2>2
    <3>2. QED BY <3>1 DEF Distinct, IsInjective
  <2>3. CASE p > Passed'
    BY <1>2, <2>3 DEF Ahead
  <2>4. QED BY <1>4, <2>2, <2>3
<1>10. Begins(r) => Begins(call.result)'
  BY <1>2, <1>7 DEF Begins, s
<1>11. QED BY <1>3, <1>5, <1>6, <1>8, <1>9, <1>10 DEF r, s

-----------------------------------------------------------------------------
(* Lists that only grow *)

LEMMA GrownEdit ==
  ASSUME TypeOK, Progress, Grown, GrowsOnly, Edits
  PROVE  Grown'
<1>1. /\ list' \in Seq(Item) /\ held' = held \cup {list'}
      /\ UNCHANGED <<kind, style, call, answers, start>>
      /\ Len(list') = Len(list) + 1
      /\ kind = "reviews" => \A p \in 1..Len(list) : list'[p] = list[p]
      /\ kind = "statuses" => \A p \in 1..Len(list) : list'[p + 1] = list[p]
  BY EditIs DEF GrowsOnly, HasTotal
<1>2. /\ Len(list) \in Nat /\ DOMAIN list = 1..Len(list) /\ Passed \in Nat
      /\ DOMAIN call.result = 1..Len(call.result) /\ Len(call.result) \in Nat
      /\ DOMAIN list' = 1..(Len(list) + 1)
      /\ kind \in {"reviews", "statuses"} /\ Passed' = Passed
  BY <1>1, ReadShapes, LenProperties DEF TypeOK, GrowsOnly, Passed
<1>3. ASSUME NEW x, Ahead(x) PROVE Ahead(x)'
  <2>1. PICK p \in DOMAIN list : p > Passed /\ list[p] = x
    BY <1>3 DEF Ahead
  <2>2. CASE kind = "reviews"
    <3>1. p \in DOMAIN list' /\ list'[p] = x
      BY <1>1, <1>2, <2>1, <2>2
    <3>2. QED BY <1>2, <2>1, <3>1 DEF Ahead
  <2>3. CASE kind = "statuses"
    <3>1. p + 1 \in DOMAIN list' /\ list'[p + 1] = x /\ p + 1 > Passed
      BY <1>1, <1>2, <2>1, <2>3
    <3>2. QED BY <1>2, <3>1 DEF Ahead
  <2>4. QED BY <1>2, <2>2, <2>3
<1>4. call.pc = "page" /\ Begins(call.result) =>
        Begins(call.result)' \/ \E x \in ToSet(call.result) : Ahead(x)'
  <2> SUFFICES ASSUME call.pc = "page", Begins(call.result)
               PROVE  Begins(call.result)' \/ \E x \in ToSet(call.result) : Ahead(x)'
    OBVIOUS
  <2>1. Len(call.result) = Passed
    BY DEF Progress
  <2>2. CASE kind = "reviews" \/ Len(call.result) = 0
    <3>1. /\ Len(call.result) <= Len(list)
          /\ \A i \in 1..Len(call.result) : call.result[i] = list[i]
      BY DEF Begins
    <3>2. \A i \in 1..Len(call.result) : i \in 1..Len(list) /\ kind = "reviews"
      BY <1>2, <2>2, <3>1
    <3>3. call'.result = call.result /\ Len(call.result) <= Len(list')
      BY <1>1, <1>2, <3>1
    <3>4. \A i \in 1..Len(call.result) : call.result[i] = list'[i]
      BY <1>1, <3>1, <3>2
    <3>5. QED BY <3>3, <3>4 DEF Begins
  <2>3. CASE kind = "statuses" /\ Len(call.result) # 0
    <3> PICK n \in 1..Len(call.result) : n = Len(call.result)
      BY <1>2, <2>3
    <3> PICK x \in ToSet(call.result) : x = call.result[n]
      BY <1>2 DEF ToSet
    <3>1. x = list[n] /\ n \in 1..Len(list)
      BY <1>2 DEF Begins
    <3>2. n + 1 \in DOMAIN list' /\ n + 1 > Passed' /\ list'[n + 1] = x
      BY <1>1, <1>2, <2>1, <2>3, <3>1
    <3>3. Ahead(x)'
      BY <3>2 DEF Ahead
    <3>4. QED BY <3>3
  <2>4. kind = "reviews" \/ kind = "statuses"
    BY <1>2
  <2>5. QED BY <2>2, <2>3, <2>4
<1>5. QED
  BY <1>1, <1>2, <1>3, <1>4 DEF Grown, Awaiting, Distinct

LEMMA GrownTaken ==
  ASSUME TypeOK, Progress, Grown, GrowsOnly, NEW link \in Links, TakesPage(link), Unedited
  PROVE  Grown'
<1>1. /\ UNCHANGED <<kind, list, held, start>> /\ call.pc = "page" /\ list \in held
      /\ call'.pc \in {"page", "extra"} /\ Awaiting
      /\ Len(list) \in Nat /\ Passed' \in Nat
  <2>1. Passed' = Passed + PageSize /\ call'.pc \in {"page", "extra"} /\ Passed \in Nat
    BY TakenPage
  <2>2. PageSize \in Nat
    BY LimitsAssumption
  <2>3. Passed' \in Nat
    BY <2>1, <2>2
  <2>4. list \in held /\ Len(list) \in Nat
    BY ReadShapes DEF TypeOK
  <2>5. call.pc = "page" /\ Awaiting
    BY DEF TakesPage, Awaiting
  <2>6. QED BY <2>1, <2>3, <2>4, <2>5 DEF Unedited
<1>2. call'.pc = "page" =>
        \/ Begins(call.result)'
        \/ ~Distinct(call'.result)
        \/ \E x \in ToSet(call'.result) : Ahead(x)'
  BY <1>1, TakenAhead DEF Grown
<1>3. call'.pc = "extra" =>
        call'.result \in held \/ ~Distinct(call'.result) \/ Len(list) > Passed'
  <2>1. CASE Begins(call.result)
    <3>1. Len(list) <= Passed' => call'.result = list
      BY <2>1, TakenAhead
    <3>2. QED BY <1>1, <3>1
  <2>2. CASE ~Distinct(call.result)
    BY <2>2, TakenAhead
  <2>3. CASE \E x \in ToSet(call.result) : Ahead(x)
    <3>1. ~Distinct(call'.result) \/ \E x \in ToSet(call'.result) : Ahead(x)'
      BY <2>3, TakenAhead
    <3>2. (\E x \in ToSet(call'.result) : Ahead(x)') => Len(list) > Passed'
      <4> SUFFICES ASSUME NEW p \in DOMAIN list', p > Passed' PROVE Len(list) > Passed'
        BY DEF Ahead
      <4>1. p \in 1..Len(list)
        BY <1>1, ReadShapes
      <4>2. QED BY <1>1, <4>1
    <3>3. QED BY <3>1, <3>2
  <2>4. QED BY <1>1, <2>1, <2>2, <2>3 DEF Grown
<1>4. \A x \in ToSet(start) : x \in ToSet(call'.result) \/ Ahead(x)'
  BY <1>1, TakenAhead DEF Grown
<1>5. QED
  BY <1>1, <1>2, <1>3, <1>4 DEF Grown

LEMMA GrownNext ==
  ASSUME TypeOK, Progress, Grown, GrowingReadWasHeld, StandingItemsRead, [Next]_vars
  PROVE  Grown' /\ GrowingReadWasHeld' /\ StandingItemsRead'
<1>1. CASE ~GrowsOnly
  <2>1. kind' = kind
    BY <1>1, EditIs, StepKinds DEF Waits, Ends, Restarts, Unedited
  <2>2. QED BY <1>1, <2>1 DEF GrowsOnly, Grown, GrowingReadWasHeld, StandingItemsRead
<1>2. CASE GrowsOnly /\ Edits
  <2>1. UNCHANGED <<kind, call, answers, start>> /\ held \subseteq held'
    BY <1>2, EditIs
  <2>2. GrowingReadWasHeld' /\ StandingItemsRead'
    BY <2>1 DEF GrowingReadWasHeld, StandingItemsRead, GrowsOnly, LastAnswer, Distinct
  <2>3. QED BY <1>2, <2>2, GrownEdit
<1>3. CASE GrowsOnly /\ Waits
  <2>1. /\ UNCHANGED <<kind, list, answers, start, held>> /\ Passed' = Passed
        /\ Awaiting' = Awaiting /\ call'.pc = call.pc /\ call'.result = call.result
    BY <1>3 DEF Waits, Unedited, Passed, Awaiting
  <2>2. \A x : Ahead(x)' <=> Ahead(x)
    BY <2>1 DEF Ahead
  <2>3. Begins(call.result)' <=> Begins(call.result)
    BY <2>1 DEF Begins
  <2>4. Grown'
    BY <1>3, <2>1, <2>2, <2>3 DEF Grown
  <2>5. GrowingReadWasHeld' /\ StandingItemsRead'
    BY <2>1 DEF GrowingReadWasHeld, StandingItemsRead, GrowsOnly, LastAnswer
  <2>6. QED BY <2>4, <2>5
<1>4. CASE GrowsOnly /\ Ends
  <2>1. /\ UNCHANGED <<kind, list, answers, start, held>> /\ call'.pc = "refused" /\ ~Awaiting'
    BY <1>4 DEF Ends, Unedited, Awaiting
  <2>2. QED BY <2>1 DEF Grown, GrowingReadWasHeld, StandingItemsRead, GrowsOnly
<1>5. CASE GrowsOnly /\ Restarts
  <2>1. /\ UNCHANGED <<kind, list, answers, held>> /\ start' = list
        /\ call'.pc = "page" /\ call'.result = <<>> /\ Passed' = 0
    BY <1>5, Restarted DEF Restarts
  <2>2. Begins(call.result)'
    BY <2>1, ReadShapes DEF Begins
  <2>3. \A x \in ToSet(list) : Ahead(x)'
    <3> SUFFICES ASSUME NEW x \in ToSet(list) PROVE Ahead(x)'
      OBVIOUS
    <3>1. PICK p \in DOMAIN list : list[p] = x
      BY DEF ToSet
    <3>2. p \in DOMAIN list' /\ p > Passed' /\ list'[p] = x
      BY <2>1, <3>1, ReadShapes
    <3>3. QED BY <3>2 DEF Ahead
  <2>4. QED
    BY <2>1, <2>2, <2>3 DEF Grown, GrowingReadWasHeld, StandingItemsRead, GrowsOnly
<1>6. ASSUME GrowsOnly, NEW link \in Links, TakesPage(link), Unedited
      PROVE  Grown' /\ GrowingReadWasHeld' /\ StandingItemsRead'
  <2>1. UNCHANGED <<kind, answers, held>> /\ call'.pc # "returned"
    BY <1>6, TakenPage DEF Unedited, TakesPage
  <2>2. GrowingReadWasHeld' /\ StandingItemsRead'
    BY <2>1 DEF GrowingReadWasHeld, StandingItemsRead, GrowsOnly
  <2>3. QED BY <1>6, <2>2, GrownTaken
<1>7. ASSUME GrowsOnly, NEW link \in Links, Returns(link), Unedited
      PROVE  Grown' /\ GrowingReadWasHeld' /\ StandingItemsRead'
  <2>1. /\ Len(list) <= Passed /\ Awaiting /\ call.pc = "extra"
        /\ call'.pc = "returned" /\ ~Awaiting'
        /\ Len(answers) \in {0, 1} /\ DOMAIN answers = 1..Len(answers)
        /\ DOMAIN answers' = 1..(Len(answers) + 1)
        /\ \A i \in 1..Len(answers) : answers'[i] = answers[i]
        /\ answers'[Len(answers) + 1] = call.result /\ LastAnswer' = call.result
    BY <1>7, Returned
  <2>2. UNCHANGED <<kind, list, start, held>>
    BY <1>7 DEF Unedited
  <2>3. Distinct(call.result) => call.result \in held
    BY <1>7, <2>1, ReadShapes DEF Grown
  <2>4. ASSUME NEW i \in DOMAIN answers', Distinct(answers'[i]) PROVE answers'[i] \in held
    <3>1. i \in 1..Len(answers) \/ i = Len(answers) + 1
      BY <2>1
    <3>2. QED BY <1>7, <2>1, <2>3, <2>4, <3>1 DEF GrowingReadWasHeld
  <2>5. \A x : ~Ahead(x)
    BY <2>1, ReadShapes DEF Ahead
  <2>6. ToSet(start) \subseteq ToSet(call.result)
    BY <1>7, <2>1, <2>5 DEF Grown
  <2>7. Grown'
    BY <2>1 DEF Grown
  <2>8. GrowingReadWasHeld'
    BY <2>2, <2>4 DEF GrowingReadWasHeld, Distinct
  <2>9. StandingItemsRead'
    BY <2>1, <2>2, <2>6 DEF StandingItemsRead
  <2>10. QED BY <2>7, <2>8, <2>9
<1>8. QED
  BY <1>1, <1>2, <1>3, <1>4, <1>5, <1>6, <1>7, StepKinds

-----------------------------------------------------------------------------
(* Lists with a total *)

LEMMA CountedEdit ==
  ASSUME TypeOK, Counted, OneSidedReadWasHeld, Edits
  PROVE  Counted' /\ OneSidedReadWasHeld'
<1>1. /\ held \subseteq held' /\ UNCHANGED <<kind, call, answers>>
      /\ HasTotal' = HasTotal /\ Awaiting' = Awaiting /\ LastAnswer' = LastAnswer
  BY EditIs DEF HasTotal, Awaiting, LastAnswer
<1>2. disturbed \subseteq disturbed'
  BY EditIs
<1>3. OneSidedReadWasHeld'
  BY <1>1, <1>2 DEF OneSidedReadWasHeld
<1>4. ASSUME HasTotal, Awaiting, call.reportedTotal # None
      PROVE  /\ "remove" \notin disturbed' => Len(list') >= call.reportedTotal
             /\ "insert" \notin disturbed' => Len(list') <= call.reportedTotal
             /\ {"insert", "remove"} \subseteq disturbed' \/ Len(list') # call.reportedTotal
  <2>1. /\ "remove" \notin disturbed => Len(list) >= call.reportedTotal
        /\ "insert" \notin disturbed => Len(list) <= call.reportedTotal
    BY <1>4 DEF Counted
  <2>2. PICK n \in Nat : n = Len(list)
    BY ReadShapes
  <2>3. PICK t \in Nat : t = call.reportedTotal
    BY <1>4, ReadShapes DEF ReadShape
  <2>4. CASE disturbed' = disturbed \cup {"insert"} /\ Len(list') = Len(list) + 1
    BY <2>1, <2>2, <2>3, <2>4
  <2>5. CASE disturbed' = disturbed \cup {"remove"} /\ Len(list') = Len(list) - 1
    BY <2>1, <2>2, <2>3, <2>5
  <2>6. QED BY <2>4, <2>5, EditIs
<1>5. Counted'
  BY <1>1, <1>4 DEF Counted
<1>6. QED BY <1>3, <1>5

(* What a total that is accepted says of the records read so far.            *)
LEMMA TotalTells ==
  ASSUME TypeOK, Counted, HasTotal, Awaiting, NEW items, TotalAccepted(items)
  PROVE  /\ call.reportedTotal = None => call.result = <<>>
         /\ call.reportedTotal # None => call.reportedTotal = Len(list)
         /\ ~({"insert", "remove"} \subseteq disturbed) => Begins(call.result)
<1>1. /\ call.reportedTotal = None => call.result = <<>>
      /\ call.reportedTotal # None => call.reportedTotal = Len(list)
  BY DEF Counted, TotalAccepted
<1>2. call.result = <<>> => Begins(call.result)
  BY ReadShapes DEF Begins
<1>3. ~({"insert", "remove"} \subseteq disturbed) => Begins(call.result)
  BY <1>1, <1>2 DEF Counted
<1>4. QED BY <1>1, <1>3

LEMMA CountedNext ==
  ASSUME TypeOK, Progress, Counted, OneSidedReadWasHeld, [Next]_vars
  PROVE  Counted' /\ OneSidedReadWasHeld'
<1>1. CASE Edits
  BY <1>1, CountedEdit
<1>2. CASE Waits
  <2>1. /\ UNCHANGED <<kind, list, answers, disturbed, held>> /\ call'.pc = call.pc
        /\ call'.result = call.result /\ call'.reportedTotal = call.reportedTotal
    BY <1>2 DEF Waits, Unedited
  <2>2. QED
    BY <2>1 DEF Counted, OneSidedReadWasHeld, HasTotal, Awaiting, LastAnswer, Begins
<1>3. CASE Ends
  <2>1. call'.pc = "refused" /\ ~Awaiting'
    BY <1>3 DEF Ends, Awaiting
  <2>2. QED BY <2>1 DEF Counted, OneSidedReadWasHeld
<1>4. CASE Restarts
  <2>1. call'.pc = "page" /\ call'.result = <<>> /\ call'.reportedTotal = None
    BY <1>4, Restarted
  <2>2. QED BY <2>1 DEF Counted, OneSidedReadWasHeld
<1>5. ASSUME NEW link \in Links, TakesPage(link), Faulty(link), Unedited
      PROVE  Counted' /\ OneSidedReadWasHeld'
  <2>1. /\ UNCHANGED <<kind, list>> /\ call'.pc # "returned" /\ Awaiting
        /\ call'.reportedTotal = TotalAfter /\ TotalAccepted(Page(call.page))
    BY <1>5, TakenPage DEF Unedited, TakesPage, Awaiting
  <2>2. OneSidedReadWasHeld'
    BY <2>1 DEF OneSidedReadWasHeld
  <2>3. ASSUME HasTotal
        PROVE  /\ call'.reportedTotal = Len(list') /\ Len(list') \in Nat
               /\ call'.reportedTotal # None
               /\ ~({"insert", "remove"} \subseteq disturbed') => Begins(call.result)'
    <3>1. call'.reportedTotal = Len(list') /\ Len(list') \in Nat
      BY <2>1, <2>3, ReadShapes DEF TotalAfter
    <3>2. disturbed \subseteq disturbed'
      BY <1>5 DEF Faulty
    <3>3. ~({"insert", "remove"} \subseteq disturbed) => Begins(call.result)
      BY <2>1, <2>3, TotalTells
    <3>4. Begins(call.result) => Begins(call.result)'
      BY <1>5, TakenAhead
    <3>5. QED BY <3>1, <3>2, <3>3, <3>4, LimitsAssumption
  <2>4. Counted'
    <3>1. HasTotal' = HasTotal
      BY <2>1 DEF HasTotal
    <3>2. HasTotal => Len(list') >= Len(list') /\ Len(list') <= Len(list')
      BY <2>3
    <3>3. QED BY <2>3, <3>1, <3>2 DEF Counted
  <2>5. QED BY <2>2, <2>4
<1>6. ASSUME NEW link \in Links, Returns(link), Faulty(link), Unedited
      PROVE  Counted' /\ OneSidedReadWasHeld'
  <2>1. /\ Awaiting /\ ~Awaiting' /\ WholeAccepted /\ LastAnswer' = call.result
        /\ TotalAccepted(Page(call.page + 1))
    BY <1>6, Returned DEF Returns
  <2>2. /\ UNCHANGED <<kind, list, held>> /\ disturbed \subseteq disturbed'
        /\ HasTotal' = HasTotal
    BY <1>6 DEF Unedited, Faulty, HasTotal
  <2>3. Counted'
    BY <2>1 DEF Counted
  <2>4. ASSUME HasTotal, Begins(call.result) PROVE call.result = list
    <3>1. Len(call.result) = Len(list)
      BY <2>1, <2>4 DEF WholeAccepted, TotalAfter
    <3>2. call.result \in Seq(Item) /\ list \in Seq(Item)
      BY ReadShapes DEF ReadShape, TypeOK
    <3>3. \A i \in 1..Len(call.result) : call.result[i] = list[i]
      BY <2>4 DEF Begins
    <3>4. QED BY <3>1, <3>2, <3>3, SeqEqual
  <2>5. OneSidedReadWasHeld'
    <3>1. HasTotal /\ ~({"insert", "remove"} \subseteq disturbed) => Begins(call.result)
      BY <2>1, TotalTells
    <3>2. list \in held
      BY DEF TypeOK
    <3>3. QED BY <2>1, <2>2, <2>4, <3>1, <3>2 DEF OneSidedReadWasHeld
  <2>6. QED BY <2>3, <2>5
<1>7. QED
  BY <1>1, <1>2, <1>3, <1>4, <1>5, <1>6, StepKinds

-----------------------------------------------------------------------------
(* Two reads that agree *)

LEMMA DistinctSize ==
  ASSUME NEW s \in Seq(Item), Distinct(s)
  PROVE  IsFiniteSet(ToSet(s)) /\ Cardinality(ToSet(s)) = Len(s)
<1>1. Len(s) \in Nat /\ DOMAIN s = 1..Len(s) /\ s \in [1..Len(s) -> Item]
  BY LenProperties
<1>2. s \in Surjection(1..Len(s), ToSet(s)) /\ s \in Injection(1..Len(s), ToSet(s))
  BY <1>1 DEF Surjection, Injection, Distinct, ToSet
<1>3. IsFiniteSet(1..Len(s)) /\ Cardinality(1..Len(s)) = Len(s)
  BY <1>1, FS_Interval
<1>4. QED BY <1>2, <1>3, FS_Surjection

(* No step brings back a record that is gone. *)
LEMMA StaysGone ==
  ASSUME TypeOK, Progress, [Next]_vars, answers # <<>>, NEW x, GoneForGood(x)
  PROVE  GoneForGood(x)'
<1>1. /\ x \in used /\ x \notin ToSet(list)
      /\ Awaiting => x \notin ToSet(call.result)
      /\ Len(answers) = Reads => x \notin ToSet(answers[2])
  BY DEF GoneForGood
<1>2. CASE Edits
  <2>1. /\ UNCHANGED <<call, answers>> /\ used \subseteq used'
        /\ x \in ToSet(list') => x \in ToSet(list)
    BY <1>1, <1>2, EditIs
  <2>2. QED BY <1>1, <2>1 DEF GoneForGood, Awaiting
<1>3. CASE Waits
  <2>1. UNCHANGED <<list, used, answers>> /\ call'.result = call.result /\ Awaiting' = Awaiting
    BY <1>3 DEF Waits, Unedited, Awaiting
  <2>2. QED BY <1>1, <2>1 DEF GoneForGood
<1>4. CASE Ends
  <2>1. UNCHANGED <<list, used, answers>> /\ ~Awaiting'
    BY <1>4 DEF Ends, Unedited, Awaiting
  <2>2. QED BY <1>1, <2>1 DEF GoneForGood
<1>5. CASE Restarts
  <2>1. UNCHANGED <<list, used, answers>> /\ ToSet(call'.result) = {}
    BY <1>5, Restarted DEF Restarts, ToSet
  <2>2. QED BY <1>1, <2>1 DEF GoneForGood
<1>6. ASSUME NEW link \in Links, TakesPage(link), Unedited PROVE GoneForGood(x)'
  <2>1. UNCHANGED <<list, used, answers>> /\ Awaiting
    BY <1>6 DEF TakesPage, Unedited, Awaiting
  <2>2. x \notin ToSet(call'.result)
    BY <1>1, <1>6, <2>1, TakenAhead
  <2>3. QED BY <1>1, <2>1, <2>2 DEF GoneForGood
<1>7. ASSUME NEW link \in Links, Returns(link), Unedited PROVE GoneForGood(x)'
  <2>1. /\ Awaiting /\ ~Awaiting' /\ Len(answers) \in {0, 1}
        /\ Len(answers') = Len(answers) + 1 /\ answers'[Len(answers) + 1] = call.result
    BY <1>7, Returned
  <2>2. Len(answers) = 1
    BY <2>1, EmptySeq DEF TypeOK
  <2>3. answers'[2] = call.result /\ UNCHANGED <<list, used>>
    BY <1>7, <2>1, <2>2 DEF Unedited
  <2>4. QED BY <1>1, <2>1, <2>3 DEF GoneForGood
<1>8. QED BY <1>2, <1>3, <1>4, <1>5, <1>6, <1>7, StepKinds

LEMMA BetweenNext ==
  ASSUME TypeOK, Progress, Between, [Next]_vars
  PROVE  Between'
<1>1. kind' = kind /\ held \subseteq held'
  BY EditIs, StepKinds DEF Waits, Ends, Restarts, Unedited
<1>2. answers # <<>> => answers' # <<>> /\ answers'[1] = answers[1]
  <2>1. CASE \E link \in Links : Returns(link)
    <3>1. /\ Len(answers) \in {0, 1} /\ Len(answers') = Len(answers) + 1
          /\ \A i \in 1..Len(answers) : answers'[i] = answers[i]
      BY <2>1, Returned
    <3>2. answers # <<>> => Len(answers) = 1
      BY <3>1, EmptySeq DEF TypeOK
    <3>3. Len(answers') # 0
      BY <3>1
    <3>4. QED BY <3>1, <3>2, <3>3
  <2>2. QED BY <2>1, EditIs, StepKinds DEF Waits, Ends, Restarts, TakesPage
<1>3. CASE answers # <<>>
  <2> SUFFICES ASSUME HasTotal
               PROVE  \E h \in held' :
                        /\ IsInjective(h) /\ Len(h) = Len(answers[1])
                        /\ \A x \in ToSet(answers[1]) : x \in ToSet(h) \/ GoneForGood(x)'
    BY <1>1, <1>2, <1>3 DEF Between, HasTotal
  <2>1. PICK h \in held :
          /\ IsInjective(h) /\ Len(h) = Len(answers[1])
          /\ \A x \in ToSet(answers[1]) : x \in ToSet(h) \/ GoneForGood(x)
    BY <1>3 DEF Between
  <2>2. \A x : GoneForGood(x) => GoneForGood(x)'
    BY <1>3, StaysGone
  <2>3. QED BY <1>1, <2>1, <2>2
<1>4. CASE answers = <<>> /\ \E link \in Links : Returns(link) /\ Unedited
  <2>1. /\ Len(answers) = 0 /\ WholeAccepted /\ ~Awaiting'
        /\ Len(answers') = Len(answers) + 1 /\ answers'[Len(answers) + 1] = call.result
        /\ UNCHANGED <<kind, list, used, held>>
    BY <1>4, Returned, EmptySeq DEF Unedited
  <2>2. answers'[1] = call.result /\ Len(answers') # Reads
    BY <2>1 DEF Reads
  <2>3. ASSUME NEW x \in ToSet(call.result), x \notin ToSet(list) PROVE GoneForGood(x)'
    BY <2>1, <2>2, <2>3 DEF GoneForGood, Progress
  <2>4. list \in held /\ IsInjective(list)
    BY DEF TypeOK
  <2>5. HasTotal => Len(list) = Len(call.result)
    BY <2>1 DEF WholeAccepted, TotalAfter
  <2>6. HasTotal' = HasTotal
    BY <1>1 DEF HasTotal
  <2>7. QED BY <2>1, <2>2, <2>3, <2>4, <2>5, <2>6 DEF Between
<1>5. CASE answers = <<>> /\ ~\E link \in Links : Returns(link) /\ Unedited
  <2>1. answers' = answers
    BY <1>5, EditIs, StepKinds DEF Waits, Ends, Restarts, TakesPage
  <2>2. QED BY <1>5, <2>1 DEF Between
<1>6. QED BY <1>3, <1>4, <1>5

LEMMA AgreeingHeld ==
  ASSUME TypeOK, GrowingReadWasHeld, Between
  PROVE  AgreeingReadsWereHeld
<1> SUFFICES ASSUME Len(answers) = Reads, Distinct(answers[1]), Distinct(answers[2]),
                    ToSet(answers[1]) = ToSet(answers[2])
             PROVE  \E h \in held : ToSet(h) = ToSet(answers[1])
  BY DEF AgreeingReadsWereHeld
<1>1. answers \in Seq(Seq(Item)) /\ held \subseteq Seq(Item)
  BY DEF TypeOK
<1>2. 1 \in DOMAIN answers /\ answers # <<>> /\ answers[1] \in Seq(Item)
  <2> DEFINE S == Seq(Item)
  <2>1. answers \in Seq(S) /\ Len(answers) = 2
    BY <1>1 DEF Reads
  <2> HIDE DEF S
  <2>2. 1 \in DOMAIN answers /\ answers[1] \in S
    BY <2>1, LenProperties, ElementOfSeq
  <2>3. QED BY <2>1, <2>2 DEF S
<1>3. CASE GrowsOnly
  BY <1>2, <1>3 DEF GrowingReadWasHeld
<1>4. CASE HasTotal
  <2>1. PICK h \in held :
          /\ IsInjective(h) /\ Len(h) = Len(answers[1])
          /\ \A x \in ToSet(answers[1]) : x \in ToSet(h) \/ GoneForGood(x)
    BY <1>2, <1>4 DEF Between
  <2>2. ToSet(answers[1]) \subseteq ToSet(h)
    BY <2>1 DEF GoneForGood
  <2>3. /\ IsFiniteSet(ToSet(h)) /\ Cardinality(ToSet(h)) = Len(h)
        /\ Cardinality(ToSet(answers[1])) = Len(answers[1])
    BY <1>1, <1>2, <2>1, DistinctSize DEF Distinct
  <2>4. ToSet(answers[1]) = ToSet(h)
    BY <2>1, <2>2, <2>3, FS_Subset
  <2>5. QED BY <2>4
<1>5. QED BY <1>3, <1>4 DEF GrowsOnly, HasTotal

-----------------------------------------------------------------------------
(* Undisturbed reads *)

LEMMA ProperIs ==
  ASSUME list \in Seq(Item), NEW n \in Nat \ {0}, NEW link, link = ProperLink(n)
  PROVE  /\ PageCount \in Nat
         /\ link.hasNext <=> n < PageCount
         /\ link.nextPage = IF link.hasNext THEN n + 1 ELSE None
         /\ link.hasLast => PageCount > 0 /\ style # "next" /\ link.lastPage = PageCount
         /\ ~link.hasLast /\ PageCount > 0 =>
              style # "last always" /\ (style = "last while next" => ~(n < PageCount))
<1>1. PageCount \in Nat
  BY PageIs
<1>2. QED BY <1>1 DEF ProperLink

(* The state of a read that nothing has disturbed while it awaits a page.    *)
LEMMA QuietRead ==
  ASSUME TypeOK, Quiet, disturbed = {}, Awaiting
  PROVE  /\ Begins(call.result) /\ list \in Seq(Item) /\ call.page \in Nat \ {0}
         /\ PageCount \in Nat /\ Len(list) \in Nat
         /\ call.declaredLastPage # None =>
              call.declaredLastPage = PageCount /\ PageCount > 0 /\ style # "next"
         /\ call.reportedTotal \in {None, Len(list)}
         /\ call.page = 1 \/ call.page <= PageCount
<1>1. list \in Seq(Item) /\ call.page \in Nat \ {0} /\ Len(list) \in Nat
  BY ReadShapes DEF TypeOK
<1>2. PageCount \in Nat
  BY <1>1, PageIs
<1>3. QED BY <1>1, <1>2 DEF Quiet

LEMMA QuietTaken ==
  ASSUME TypeOK, Progress, Quiet, disturbed = {}, Unedited,
         NEW link \in Links, link = ProperLink(call.page), TakesPage(link)
  PROVE  Quiet'
<1>1. /\ call.pc = "page" /\ Awaiting /\ UNCHANGED <<style, list, start>>
      /\ list \in Seq(Item) /\ call.page \in Nat \ {0} /\ PageCount \in Nat
      /\ Len(list) \in Nat /\ PageCount' = PageCount
  BY QuietRead DEF TakesPage, Awaiting, Unedited, PageCount
<1>2. /\ call'.pc = (IF link.hasNext THEN "page" ELSE "extra")
      /\ call'.page = (IF link.hasNext THEN call.page + 1 ELSE call.page)
      /\ call'.declaredLastPage = DeclaredAfter(link)
      /\ call'.reportedTotal = TotalAfter
  BY DEF TakesPage
<1>3. /\ link.hasNext <=> call.page < PageCount
      /\ link.hasLast => PageCount > 0 /\ style # "next" /\ link.lastPage = PageCount
  BY <1>1, ProperIs
<1>4. start' = list'
  BY <1>1 DEF Quiet
<1>5. Begins(call.result)'
  BY <1>1, QuietRead, TakenAhead
<1>6. call'.declaredLastPage # None =>
        call'.declaredLastPage = PageCount /\ PageCount > 0 /\ style # "next"
  BY <1>1, <1>2, <1>3, QuietRead DEF DeclaredAfter
<1>7. call'.reportedTotal \in {None, Len(list)}
  BY <1>2 DEF TotalAfter
<1>8. call'.page = 1 \/ call'.page <= PageCount
  BY <1>1, <1>2, <1>3, QuietRead
<1>9. call'.pc = "extra" => call'.result = list /\ PageCount <= call'.page
  <2> SUFFICES ASSUME call'.pc = "extra"
               PROVE  call'.result = list /\ PageCount <= call'.page
    OBVIOUS
  <2>1. ~link.hasNext /\ ~(call.page < PageCount) /\ call'.page = call.page
    BY <1>2, <1>3
  <2>2. PICK h : h = (call.page - 1) * PageSize
    OBVIOUS
  <2>3. h \in Nat /\ (call.page < PageCount <=> h + PageSize < Len(list))
    BY <1>1, <2>2, PageIs
  <2>4. h = Passed
    BY <1>1, <2>2 DEF Passed
  <2>5. Passed' = h + PageSize
    BY <2>4, TakenPage
  <2>6. Len(list) <= Passed'
    BY <1>1, <2>1, <2>3, <2>5, LimitsAssumption
  <2>7. call'.result = list
    BY <1>1, <2>6, QuietRead, TakenAhead
  <2>8. PageCount <= call'.page
    BY <1>1, <2>1
  <2>9. QED BY <2>7, <2>8
<1>10. QED
  BY <1>1, <1>4, <1>5, <1>6, <1>7, <1>8, <1>9 DEF Quiet

(* What the client refuses of an undisturbed read is a list that is too long. *)
LEMMA QuietPageAccepted ==
  ASSUME TypeOK, Progress, Quiet, disturbed = {}, call.pc = "page",
         NEW link \in Links, link = ProperLink(call.page), Len(list) < MaxItems
  PROVE  LET items == Page(call.page) IN
         TotalAccepted(items) /\ PageAccepted(items, link) /\ NextAccepted(link)
<1> DEFINE items == Page(call.page)
<1>1. Awaiting /\ call.page \in Nat \ {0} /\ PageCount \in Nat /\ Len(list) \in Nat
  BY QuietRead DEF Awaiting
<1> PICK n \in Nat \ {0} : n = call.page
  BY <1>1
<1> PICK count \in Nat : count = PageCount
  BY <1>1
<1> PICK size \in Nat : size = Len(list)
  BY <1>1
<1> PICK h : h = Passed
  OBVIOUS
<1>2. /\ call.declaredLastPage # None =>
           call.declaredLastPage = count /\ count > 0 /\ style # "next"
      /\ call.reportedTotal \in {None, size}
      /\ n = 1 \/ n <= count
  BY <1>1, QuietRead
<1>3. /\ link.hasNext <=> n < count
      /\ link.nextPage = IF link.hasNext THEN n + 1 ELSE None
      /\ link.hasLast => count > 0 /\ style # "next" /\ link.lastPage = count
      /\ ~link.hasLast /\ count > 0 =>
           style # "last always" /\ (style = "last while next" => ~(n < count))
  BY <1>1, ProperIs DEF TypeOK
<1>4. h = (n - 1) * PageSize /\ Len(call.result) = h /\ h <= size
  <2>1. h = (n - 1) * PageSize
    BY DEF Passed
  <2>2. Len(call.result) = h
    BY DEF Progress
  <2>3. Begins(call.result)
    BY <1>1, QuietRead
  <2>4. QED BY <2>1, <2>2, <2>3 DEF Begins
<1>5. /\ h \in Nat /\ n * PageSize = h + PageSize
      /\ Len(items) = IF h + PageSize < size THEN PageSize
                      ELSE IF h < size THEN size - h ELSE 0
      /\ n < count <=> h + PageSize < size
  <2>1. list \in Seq(Item)
    BY DEF TypeOK
  <2>2. QED BY <1>4, <2>1, PageIs
<1> HIDE DEF items
<1>6. PageSize \in Nat /\ MaxItems \in Nat
  BY LimitsAssumption
<1>7. /\ Len(items) \in Nat /\ Len(items) <= PageSize
      /\ Len(items) <= size /\ h + Len(items) <= size
  <2>1. h <= size /\ h \in Nat /\ size \in Nat /\ PageSize \in Nat
    BY <1>4, <1>5, <1>6
  <2>2. CASE h + PageSize < size
    <3>1. Len(items) = PageSize
      BY <1>5, <2>2
    <3>2. QED BY <2>1, <2>2, <3>1
  <2>3. CASE ~(h + PageSize < size) /\ h < size
    <3>1. Len(items) = size - h
      BY <1>5, <2>3
    <3>2. QED BY <2>1, <2>3, <3>1
  <2>4. CASE ~(h + PageSize < size) /\ ~(h < size)
    <3>1. Len(items) = 0
      BY <1>5, <2>4
    <3>2. QED BY <2>1, <2>4, <3>1
  <2>5. QED BY <2>2, <2>3, <2>4
<1>8. TotalAccepted(items)
  BY <1>2, <1>7 DEF TotalAccepted
<1>9. style \in {"next", "last while next", "last always"}
  BY DEF TypeOK
<1>10. PageAccepted(items, link)
  <2>1. Len(call.result) + Len(items) < MaxItems
    <3>1. h + Len(items) <= size /\ h \in Nat /\ Len(items) \in Nat
      BY <1>5, <1>7
    <3>2. size < MaxItems /\ MaxItems \in Nat /\ Len(call.result) = h
      BY <1>4, <1>6
    <3>3. QED BY <3>1, <3>2
  <2>2. link.hasLast =>
          link.lastPage # None /\ call.declaredLastPage \in {None, link.lastPage}
    BY <1>2, <1>3, LimitsAssumption
  <2>3. ~link.hasLast /\ call.declaredLastPage # None => call.page >= call.declaredLastPage
    <3> SUFFICES ASSUME ~link.hasLast, call.declaredLastPage # None
                 PROVE  call.page >= call.declaredLastPage
      OBVIOUS
    <3>1. call.declaredLastPage = count /\ count > 0 /\ style # "next"
      BY <1>2
    <3>2. ~(n < count)
      BY <1>3, <1>9, <3>1
    <3>3. n >= count
      BY <3>2
    <3>4. QED BY <3>1, <3>3
  <2>4. QED BY <1>7, <2>1, <2>2, <2>3 DEF PageAccepted
<1>11. DeclaredAfter(link) # None => DeclaredAfter(link) = count /\ count > 0
  BY <1>2, <1>3 DEF DeclaredAfter
<1>12. NextAccepted(link)
  <2>1. CASE link.hasNext
    <3>1. n < count /\ h + PageSize < size /\ link.nextPage = n + 1
      BY <1>3, <1>5, <2>1
    <3>2. n # maxPages
      <4>1. n * PageSize # MaxItems
        BY <1>5, <1>6, <3>1
      <4>2. QED BY <4>1, Maximum
    <3>3. count >= n + 1
      BY <3>1
    <3>4. QED BY <1>11, <2>1, <3>1, <3>2, <3>3 DEF NextAccepted
  <2>2. CASE ~link.hasNext
    <3>1. count > 0 => count = n
      <4>1. ~(n < count) /\ (n = 1 \/ n <= count)
        BY <1>2, <1>3, <2>2
      <4>2. QED BY <4>1
    <3>2. QED BY <1>11, <2>2, <3>1 DEF NextAccepted
  <2>3. QED BY <2>1, <2>2
<1>13. QED BY <1>8, <1>10, <1>12 DEF items

LEMMA QuietExtraAccepted ==
  ASSUME TypeOK, Progress, Quiet, disturbed = {}, call.pc = "extra",
         NEW link \in Links, link = ProperLink(call.page + 1)
  PROVE  LET items == Page(call.page + 1) IN
         TotalAccepted(items) /\ ExtraAccepted(items, link) /\ WholeAccepted
<1> DEFINE items == Page(call.page + 1)
<1>1. /\ Awaiting /\ call.page \in Nat \ {0} /\ PageCount \in Nat /\ Len(list) \in Nat
      /\ list \in Seq(Item)
      /\ call.reportedTotal \in {None, Len(list)}
      /\ call.page = 1 \/ call.page <= PageCount
  BY QuietRead DEF Awaiting
<1>2. call.result = list /\ PageCount <= call.page /\ Len(list) < MaxItems
  BY DEF Quiet, TypeOK
<1>3. PICK n \in Nat \ {0} : n = call.page + 1
  BY <1>1
<1>4. /\ link.hasNext <=> n < PageCount
      /\ link.nextPage = IF link.hasNext THEN n + 1 ELSE None
      /\ link.hasLast => PageCount > 0 /\ style # "next" /\ link.lastPage = PageCount
  BY <1>1, <1>3, ProperIs
<1>5. PICK h : h = (n - 1) * PageSize
  OBVIOUS
<1>6. /\ h \in Nat /\ items \in Seq(Item)
      /\ Len(items) = IF h + PageSize < Len(list) THEN PageSize
                      ELSE IF h < Len(list) THEN Len(list) - h ELSE 0
  BY <1>1, <1>3, <1>5, PageIs
<1>7. ~(h < Len(list))
  <2>1. PICK g : g = (call.page - 1) * PageSize
    OBVIOUS
  <2>2. /\ call.page * PageSize = g + PageSize
        /\ call.page < PageCount <=> g + PageSize < Len(list)
    BY <1>1, <2>1, PageIs
  <2>3. h = call.page * PageSize
    BY <1>1, <1>3, <1>5
  <2>4. QED BY <1>1, <1>2, <2>2, <2>3
<1> HIDE DEF items
<1>8. items = <<>>
  <2>1. Len(items) = 0
    BY <1>1, <1>6, <1>7, LimitsAssumption
  <2>2. QED BY <1>6, <2>1, EmptySeq
<1>9. TotalAccepted(items)
  BY <1>1, <1>2, <1>8 DEF TotalAccepted
<1>10. ExtraAccepted(items, link)
  <2>1. ~link.hasNext /\ link.nextPage = None
    BY <1>1, <1>2, <1>3, <1>4
  <2>2. link.hasLast => link.lastPage = call.page
    BY <1>1, <1>2, <1>4
  <2>3. QED BY <1>8, <2>1, <2>2 DEF ExtraAccepted
<1>11. WholeAccepted
  BY <1>2 DEF WholeAccepted, TotalAfter
<1>12. QED BY <1>9, <1>10, <1>11 DEF items

LEMMA QuietAnswer ==
  ASSUME TypeOK, Progress, Quiet, Answer, disturbed' = {}
  PROVE  Quiet' /\ QuietReadIsExact'
<1>1. Unedited /\ Awaiting
  BY AnswerIs
<1>2. PICK link \in Links : /\ PageArrives(link) \/ ExtraArrives(link)
                            /\ Faulty(link)
  BY DEF Answer, Faulty
<1>3. disturbed = {} /\ link = ProperLink(Requested)
  BY <1>2 DEF Faulty
<1>4. list' = list
  BY <1>1 DEF Unedited
<1>5. CASE TakesPage(link)
  <2>1. call.pc = "page"
    BY <1>5 DEF TakesPage
  <2>2. link = ProperLink(call.page)
    BY <1>3, <2>1 DEF Requested
  <2>3. Quiet'
    BY <1>1, <1>3, <1>5, <2>2, QuietTaken
  <2>4. call'.pc \in {"page", "extra"}
    BY <1>5, TakenPage
  <2>5. QED BY <2>3, <2>4 DEF QuietReadIsExact
<1>6. CASE Returns(link)
  <2>1. /\ call.pc = "extra" /\ call'.pc = "returned" /\ ~Awaiting' /\ LastAnswer' = call.result
    BY <1>6, Returned
  <2>2. call.result = list /\ start = list
    BY <1>3, <2>1 DEF Quiet
  <2>3. start' = list'
    BY <1>1, <2>2 DEF Unedited
  <2>4. Quiet'
    BY <2>1, <2>3 DEF Quiet
  <2>5. QuietReadIsExact'
    BY <1>4, <2>1, <2>2 DEF QuietReadIsExact
  <2>6. QED BY <2>4, <2>5
<1>7. CASE Refuse /\ ~TakesPage(link) /\ ~Returns(link)
  <2>1. call'.pc = "refused" /\ ~Awaiting'
    BY <1>7, ReadStays DEF Awaiting
  <2>2. start' = list'
    BY <1>1, <1>3 DEF Quiet, Unedited
  <2>3. Quiet'
    BY <2>1, <2>2 DEF Quiet
  <2>4. Len(list) >= MaxItems
    <3>1. CASE call.pc = "page"
      <4>1. link = ProperLink(call.page)
        BY <1>3, <3>1 DEF Requested
      <4>2. ~(/\ TotalAccepted(Page(call.page)) /\ PageAccepted(Page(call.page), link)
              /\ NextAccepted(link))
        BY <1>2, <1>7, <3>1 DEF PageArrives, ExtraArrives, TakesPage
      <4>3. ~(Len(list) < MaxItems)
        BY <1>3, <3>1, <4>1, <4>2, QuietPageAccepted
      <4>4. QED BY <4>3, ReadShapes, LimitsAssumption
    <3>2. CASE call.pc = "extra"
      <4>1. link = ProperLink(call.page + 1)
        BY <1>3, <3>2 DEF Requested
      <4>2. ~(/\ TotalAccepted(Page(call.page + 1))
              /\ ExtraAccepted(Page(call.page + 1), link) /\ WholeAccepted)
        BY <1>2, <1>7, <3>2 DEF PageArrives, ExtraArrives, Returns
      <4>3. QED BY <1>3, <3>2, <4>1, <4>2, QuietExtraAccepted
    <3>3. QED BY <1>1, <3>1, <3>2 DEF Awaiting
  <2>5. QuietReadIsExact'
    BY <1>4, <2>1, <2>4 DEF QuietReadIsExact
  <2>6. QED BY <2>3, <2>5
<1>8. QED
  BY <1>2, <1>5, <1>6, <1>7 DEF PageArrives, ExtraArrives, TakesPage, Returns

LEMMA QuietNext ==
  ASSUME TypeOK, Progress, Quiet, QuietReadIsExact, [Next]_vars
  PROVE  Quiet' /\ QuietReadIsExact'
<1> SUFFICES ASSUME disturbed' = {} PROVE Quiet' /\ QuietReadIsExact'
  BY DEF Quiet, QuietReadIsExact
<1>1. CASE Edits
  BY <1>1, EditIs
<1>2. CASE Retry \/ UNCHANGED vars
  <2>1. Waits
    BY <1>2, ReadStays DEF Retry, Waits, vars, Unedited
  <2>2. /\ UNCHANGED <<style, list, start, disturbed, answers>> /\ call'.pc = call.pc
        /\ call'.page = call.page /\ call'.result = call.result
        /\ call'.declaredLastPage = call.declaredLastPage
        /\ call'.reportedTotal = call.reportedTotal
    BY <2>1 DEF Waits, Unedited
  <2>3. PageCount' = PageCount /\ Awaiting' = Awaiting /\ LastAnswer' = LastAnswer
    BY <2>2 DEF PageCount, Awaiting, LastAnswer
  <2>4. Begins(call.result)' <=> Begins(call.result)
    BY <2>2 DEF Begins
  <2>5. Quiet'
    BY <2>2, <2>3, <2>4 DEF Quiet
  <2>6. QuietReadIsExact'
    BY <2>2, <2>3 DEF QuietReadIsExact
  <2>7. QED BY <2>5, <2>6
<1>3. CASE Fail
  BY <1>3 DEF Fail
<1>4. CASE ReadAgain
  <2>1. Restarts
    BY <1>4 DEF ReadAgain, Restarts, Progress
  <2>2. /\ call'.pc = "page" /\ call'.page = 1 /\ call'.result = <<>>
        /\ call'.declaredLastPage = None /\ call'.reportedTotal = None
        /\ start' = list /\ list' = list
    BY <2>1, Restarted DEF Restarts
  <2>3. Begins(call.result)'
    BY <2>2, ReadShapes DEF Begins
  <2>4. QED BY <2>2, <2>3 DEF Quiet, QuietReadIsExact
<1>5. CASE Answer
  BY <1>5, QuietAnswer
<1>6. QED BY <1>1, <1>2, <1>3, <1>4, <1>5 DEF Next, Collect

-----------------------------------------------------------------------------
(* The invariant *)

PagesInv ==
  /\ TypeOK /\ Progress
  /\ Grown /\ GrowingReadWasHeld /\ StandingItemsRead
  /\ Counted /\ OneSidedReadWasHeld
  /\ Between
  /\ Quiet /\ QuietReadIsExact

LEMMA FirstRead ==
  ASSUME Init
  PROVE  TypeOK /\ Progress
<1>1. PICK n \in 0..Records : list = [i \in 1..n |-> i] /\ used = 1..n
  BY DEF Init
<1>2. n \in Nat /\ 1..n \subseteq Item
  BY <1>1, LimitsAssumption DEF Item
<1>3. list \in Seq(Item)
  BY <1>1, <1>2
<1>4. DOMAIN list = 1..n /\ IsInjective(list) /\ ToSet(list) \subseteq used /\ used \subseteq Item
  BY <1>1, <1>2 DEF IsInjective, ToSet
<1>5. /\ kind \in {"check_runs", "statuses", "reviews"}
      /\ style \in {"next", "last while next", "last always"}
      /\ edits = 0 /\ call = FirstRequest /\ answers = <<>>
      /\ held = {list} /\ start = list /\ disturbed = {}
  BY DEF Init
<1>6. call \in CallType /\ Len(call.result) < MaxItems
  <2>1. <<>> \in Seq(Item) /\ Len(<<>>) = 0
    BY EmptySeq
  <2>2. 1 \in 1..maxPages /\ 0 \in 0..MaxRetries
    BY Maximum, LimitsAssumption
  <2>3. call = FirstRequest /\ FirstRequest \in CallType
    BY <1>5, <2>1, <2>2 DEF FirstRequest, CallType
  <2>4. call.result = <<>> /\ MaxItems \in Nat \ {0}
    BY <2>3, LimitsAssumption DEF FirstRequest
  <2>5. QED BY <2>1, <2>3, <2>4
<1>7. answers \in Seq(Seq(Item)) /\ Len(answers) = 0
  <2> DEFINE S == Seq(Item)
  <2> HIDE DEF S
  <2>1. <<>> \in Seq(S) /\ Len(<<>>) = 0
    BY EmptySeq
  <2>2. QED BY <1>5, <2>1 DEF S
<1>8. edits \in 0..MaxEdits
  <2>1. MaxEdits \in Nat /\ edits = 0
    BY <1>5, LimitsAssumption
  <2>2. QED BY <2>1
<1>9. TypeOK
  <2>1. held \subseteq Seq(Item) /\ list \in held /\ start \in held
    BY <1>3, <1>5
  <2>2. Len(answers) <= Reads
    BY <1>7 DEF Reads
  <2>3. QED BY <1>3, <1>4, <1>5, <1>6, <1>7, <1>8, <2>1, <2>2 DEF TypeOK, CallType
<1>10. call.pc = "page" /\ call.page = 1 /\ call.result = <<>>
  BY <1>5 DEF FirstRequest
<1>11. Len(call.result) = Passed
  BY <1>10, EmptySeq, LimitsAssumption DEF Passed
<1>12. Progress
  BY <1>7, <1>10, <1>11 DEF Progress, ToSet, Reads
<1>13. QED BY <1>9, <1>12

LEMMA PagesInit == Init => PagesInv
<1> SUFFICES ASSUME Init PROVE PagesInv
  OBVIOUS
<1>1. TypeOK /\ Progress
  BY FirstRead
<1>2. /\ call.pc = "page" /\ call.page = 1 /\ call.result = <<>> /\ Passed = 0
      /\ call.declaredLastPage = None /\ call.reportedTotal = None
      /\ answers = <<>> /\ DOMAIN answers = {} /\ start = list /\ disturbed = {}
  <2>1. call = FirstRequest /\ answers = <<>> /\ start = list /\ disturbed = {}
    BY DEF Init
  <2>2. /\ call.pc = "page" /\ call.page = 1 /\ call.result = <<>>
        /\ call.declaredLastPage = None /\ call.reportedTotal = None
    BY <2>1 DEF FirstRequest
  <2>3. Passed = 0
    BY <2>2, LimitsAssumption DEF Passed
  <2>4. QED BY <2>1, <2>2, <2>3
<1>3. Begins(call.result)
  BY <1>1, <1>2, ReadShapes DEF Begins
<1>4. \A x \in ToSet(list) : Ahead(x)
  <2> SUFFICES ASSUME NEW x \in ToSet(list) PROVE Ahead(x)
    OBVIOUS
  <2>1. PICK p \in DOMAIN list : list[p] = x
    BY DEF ToSet
  <2>2. p > Passed
    BY <1>1, <1>2, <2>1, ReadShapes
  <2>3. QED BY <2>1, <2>2 DEF Ahead
<1>5. Grown /\ GrowingReadWasHeld /\ StandingItemsRead
  BY <1>2, <1>3, <1>4 DEF Grown, GrowingReadWasHeld, StandingItemsRead
<1>6. Counted /\ OneSidedReadWasHeld /\ Between
  BY <1>2 DEF Counted, OneSidedReadWasHeld, Between
<1>7. Quiet /\ QuietReadIsExact
  BY <1>2, <1>3 DEF Quiet, QuietReadIsExact
<1>8. QED BY <1>1, <1>5, <1>6, <1>7 DEF PagesInv

LEMMA PagesAlways == Spec => []PagesInv
<1>1. PagesInv /\ [Next]_vars => PagesInv'
  BY PagesTypeNext, GrownNext, CountedNext, BetweenNext, QuietNext DEF PagesInv
<1>2. QED BY PagesInit, <1>1, PTL DEF Spec

-----------------------------------------------------------------------------
(* Every state of the model has the shape TypeOK gives it; in particular     *)
(* collectApiPages never holds as many records as its maximum, and takes no  *)
(* page past the last one that the maximum leaves room for.                  *)
THEOREM PagesTypeCorrect == Spec => []TypeOK
<1>1. PagesInv => TypeOK
  BY DEF PagesInv
<1>2. QED BY <1>1, PagesAlways, PTL

(* Reviews and commit statuses: however many records arrive between the      *)
(* pages, a read in which none repeats is the list GitHub held at one        *)
(* instant.                                                                  *)
THEOREM GrowingReadAlwaysHeld == Spec => []GrowingReadWasHeld
<1>1. PagesInv => GrowingReadWasHeld
  BY DEF PagesInv
<1>2. QED BY <1>1, PagesAlways, PTL

(* Reviews and commit statuses: a read misses none of the records that were  *)
(* in the list when it began.                                                *)
THEOREM StandingItemsAlwaysRead == Spec => []StandingItemsRead
<1>1. PagesInv => StandingItemsRead
  BY DEF PagesInv
<1>2. QED BY <1>1, PagesAlways, PTL

(* Check Runs: the totals that allCheckRuns compares make a read during which *)
(* records only came, or only left, a list GitHub held.                      *)
THEOREM OneSidedReadAlwaysHeld == Spec => []OneSidedReadWasHeld
<1>1. PagesInv => OneSidedReadWasHeld
  BY DEF PagesInv
<1>2. QED BY <1>1, PagesAlways, PTL

(* Two reads that return the same records, none of them twice, return the    *)
(* records of a list that GitHub held: the loader's comparison of two reads  *)
(* makes a snapshot of what pages alone do not.                              *)
THEOREM AgreeingReadsAlwaysHeld == Spec => []AgreeingReadsWereHeld
<1>1. PagesInv => AgreeingReadsWereHeld
  BY AgreeingHeld DEF PagesInv
<1>2. QED BY <1>1, PagesAlways, PTL

(* A read that nothing disturbs is exact whichever way the server writes its *)
(* links: every check collectApiPages makes of them passes, and the one list *)
(* it refuses is the one that reaches the maximum.                           *)
THEOREM QuietReadAlwaysExact == Spec => []QuietReadIsExact
<1>1. PagesInv => QuietReadIsExact
  BY DEF PagesInv
<1>2. QED BY <1>1, PagesAlways, PTL
=============================================================================
