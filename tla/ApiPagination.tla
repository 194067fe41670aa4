--------------------------- MODULE ApiPagination ---------------------------
(***************************************************************************)
(* collectApiPages of github-api.ts: one list of GitHub's is read page by  *)
(* page while it changes, each request retried at most once, and the       *)
(* loader reads it a second time.  Every page is an answer of its own      *)
(* instant, so what the pages add up to need never have existed.           *)
(*                                                                         *)
(* An item stands for a record of the list; its identity is all that the   *)
(* pages tell apart.  Lists are of three kinds: Check Runs, inserted and   *)
(* removed anywhere and answered with a total_count; commit statuses,      *)
(* newest first; reviews, oldest first.  The last two only grow.           *)
(***************************************************************************)
EXTENDS Integers, Sequences, FiniteSets, SequencesExt

CONSTANTS
  Records,       \* bound: how many records are ever in the list
  MaxEdits,      \* bound: how often the list changes while it is read
  PageSize,      \* CHECK_RUN_PAGE_SIZE
  MaxItems,      \* MAX_CHECK_RUNS, MAX_COMMIT_STATUSES, MAX_REVIEWS
  MaxRetries,    \* MAX_GITHUB_RETRIES
  None

ASSUME LimitsAssumption ==
  /\ PageSize \in Nat \ {0} /\ MaxRetries \in Nat /\ MaxEdits \in Nat
  /\ Records \in Nat
  /\ MaxItems \in Nat \ {0} /\ MaxItems % PageSize = 0
  /\ None \notin Nat

VARIABLES
  kind,      \* which of the three lists is read
  style,     \* how the server writes its links: next alone, or with last
  list,      \* the list as GitHub holds it
  used,      \* the items that have ever been in the list
  edits,
  call,      \* the state of the running collectApiPages
  answers,   \* what each read returned
  held,      \* the lists that GitHub held since the first request
  start,     \* the list when the running read began
  disturbed  \* what changed or went wrong during the running read

vars == <<kind, style, list, used, edits, call, answers, held, start, disturbed>>

Item == 1..Records
Reads == 2                        \* the loader compares two reads
maxPages == MaxItems \div PageSize
HasTotal == kind = "check_runs"   \* only listForRef answers a total_count
GrowsOnly == kind # "check_runs"

(* Mutant: the first page has number 2.                                      *)
FirstRequestLate ==
  [pc |-> "page", page |-> 2, attempt |-> 0, result |-> <<>>,
   declaredLastPage |-> None, reportedTotal |-> None]

FirstRequest ==
  [pc |-> "page", page |-> 1, attempt |-> 0, result |-> <<>>,
   declaredLastPage |-> None, reportedTotal |-> None]

Link == [hasNext : BOOLEAN, nextPage : Nat \cup {None},
         hasLast : BOOLEAN, lastPage : Nat \cup {None}]

TypeOK ==
  /\ kind \in {"check_runs", "statuses", "reviews"}
  /\ style \in {"next", "last while next", "last always"}
  /\ list \in Seq(Item) /\ IsInjective(list)
  /\ used \subseteq Item /\ ToSet(list) \subseteq used
  /\ edits \in 0..MaxEdits
  /\ call \in [pc : {"page", "extra", "returned", "refused"},
               page : 1..maxPages, attempt : 0..MaxRetries,
               result : Seq(Item), declaredLastPage : Nat \cup {None},
               reportedTotal : Nat \cup {None}]
  /\ Len(call.result) < MaxItems
  /\ answers \in Seq(Seq(Item)) /\ Len(answers) <= Reads
  /\ held \subseteq Seq(Item) /\ list \in held /\ start \in held
  /\ disturbed \subseteq {"insert", "remove", "fault"}

-----------------------------------------------------------------------------
(* The server.                                                             *)

Page(n) == SubSeq(list, (n - 1) * PageSize + 1,
                  IF n * PageSize < Len(list) THEN n * PageSize ELSE Len(list))
PageCount == (Len(list) + PageSize - 1) \div PageSize

Garbled == [hasNext |-> TRUE, nextPage |-> None, hasLast |-> FALSE, lastPage |-> None]
Hidden == [hasNext |-> FALSE, nextPage |-> None, hasLast |-> FALSE, lastPage |-> None]

(* The Link header of page n as nextPageLink reads it.  A header it cannot   *)
(* read counts as a next page without a number.                              *)
ProperLink(n) ==
  LET more == n < PageCount
      last == /\ PageCount > 0
              /\ style = "last always" \/ (style = "last while next" /\ more)
  IN [hasNext |-> more, nextPage |-> IF more THEN n + 1 ELSE None,
      hasLast |-> last, lastPage |-> IF last THEN PageCount ELSE None]

Requested == IF call.pc = "extra" THEN call.page + 1 ELSE call.page
Links == {ProperLink(Requested), Garbled, Hidden}

(* Where an item can appear: statuses at the front, reviews at the back.     *)
Places ==
  CASE kind = "statuses" -> {1}
    [] kind = "reviews" -> {Len(list) + 1}
    [] OTHER -> 1..(Len(list) + 1)

Finished == call.pc = "refused" \/ Len(answers) = Reads

Edit(new, change) ==
  /\ ~Finished /\ edits < MaxEdits
  /\ list' = new
  /\ edits' = edits + 1 /\ held' = held \cup {new} 
  /\ disturbed' = disturbed \cup {change}
  /\ UNCHANGED <<kind, style, call, answers, start>>

Insert ==
  \E i \in Item \ used, at \in Places :
    /\ \A j \in Item \ used : i <= j
    /\ Edit(InsertAt(list, at, i), "insert")
    /\ used' = used \cup {i}

Drop ==
  /\ kind = "check_runs"
  /\ \E at \in DOMAIN list : Edit(RemoveAt(list, at), "remove")
  /\ UNCHANGED used
-----------------------------------------------------------------------------
(* The client.  Every throw of incompleteEvidence, and every error that is   *)
(* not retried, refuses the whole list.                                      *)

Awaiting == call.pc \in {"page", "extra"}

(* Mutant: each answer's total is checked against its own page only.         *)
TotalAcceptedAlone(items) ==
  HasTotal => Len(items) <= Len(list) /\ Len(list) < MaxItems

(* The closure of allCheckRuns on each answer, the extra page's included.    *)
TotalAccepted(items) ==
  HasTotal =>
    /\ Len(items) <= Len(list) /\ Len(list) < MaxItems
    /\ call.reportedTotal \in {None, Len(list)}
TotalAfter == IF HasTotal THEN Len(list) ELSE None

DeclaredAfter(link) ==
  IF link.hasLast THEN link.lastPage ELSE call.declaredLastPage

(* Mutant: the maximum itself is accepted.                                   *)
PageAcceptedFull(items, link) ==
  /\ Len(items) <= PageSize
  /\ Len(call.result) + Len(items) <= MaxItems

PageAccepted(items, link) ==
  /\ Len(items) <= PageSize
  /\ Len(call.result) + Len(items) < MaxItems
  /\ IF link.hasLast
     THEN link.lastPage # None /\ call.declaredLastPage \in {None, link.lastPage}
     ELSE call.declaredLastPage # None => call.page >= call.declaredLastPage

NextAccepted(link) ==
  LET declared == DeclaredAfter(link) IN
  IF link.hasNext
  THEN /\ link.nextPage = call.page + 1
       /\ declared # None => declared >= call.page + 1
       /\ call.page # maxPages
  ELSE declared \in {None, call.page}

(* Mutants: the extra page may hold records; it must name itself the last.   *)
ExtraAcceptedFilled(items, link) == ~link.hasNext
ExtraAcceptedLater(items, link) ==
  /\ items = <<>> /\ ~link.hasNext
  /\ link.hasLast => link.lastPage = call.page + 1

(* The page after the last must be empty and end the list where it ended.    *)
ExtraAccepted(items, link) ==
  /\ items = <<>> /\ ~link.hasNext /\ link.nextPage = None
  /\ link.hasLast => link.lastPage = call.page

(* What allCheckRuns asks of the collected records.                          *)
WholeAccepted ==
  HasTotal => Len(call.result) = TotalAfter

Refuse ==
  /\ call' = [call EXCEPT !.pc = "refused"]
  /\ UNCHANGED answers

Unedited == UNCHANGED <<kind, style, list, used, edits, held, start>>

PageArrives(link) ==
  LET items == Page(call.page)
      accepted == /\ TotalAccepted(items)
                  /\ PageAccepted(items, link) /\ NextAccepted(link)
  IN
  /\ call.pc = "page"
  /\ \/ accepted
        /\ call' = [pc |-> IF link.hasNext THEN "page" ELSE "extra",
                    page |-> IF link.hasNext THEN call.page + 1 ELSE call.page,
                    attempt |-> 0,
                    result |-> call.result \o items,
                    declaredLastPage |-> DeclaredAfter(link),
                    reportedTotal |-> TotalAfter]
        /\ UNCHANGED answers
     \/ ~accepted /\ Refuse

ExtraArrives(link) ==
  LET items == Page(call.page + 1)
      accepted == /\ TotalAccepted(items)
                  /\ ExtraAccepted(items, link) /\ WholeAccepted
  IN
  /\ call.pc = "extra"
  /\ \/ accepted
        /\ call' = [call EXCEPT !.pc = "returned"]
        /\ answers' = Append(answers, call.result)
     \/ ~accepted /\ Refuse

Answer ==
  /\ \E link \in Links :
       /\ PageArrives(link) \/ ExtraArrives(link)
       /\ disturbed' = disturbed \cup (IF link = ProperLink(Requested) THEN {}
                                    ELSE {"fault"})
  /\ Unedited

(* Mutant: the retry reads the list from its start, uncounted.               *)
RetryFromStart ==
  /\ Awaiting /\ call.attempt < MaxRetries
  /\ call' = FirstRequest
  /\ Unedited /\ UNCHANGED <<answers, disturbed>>

(* withGitHubRetry: an error with an acceptable delay is retried.            *)
Retry ==
  /\ Awaiting /\ call.attempt < MaxRetries
  /\ call' = [call EXCEPT !.attempt = @ + 1]
  /\ Unedited /\ UNCHANGED <<answers, disturbed>>

(* An error that is not retried, or the last one, or the request's timeout.  *)
Fail ==
  /\ Awaiting
  /\ Refuse /\ disturbed' = disturbed \cup {"fault"}
  /\ Unedited

(* The loader reads the list once more.                                      *)
ReadAgain ==
  /\ call.pc = "returned" /\ Len(answers) < Reads
  /\ call' = FirstRequest
  /\ start' = list /\ disturbed' = {}
  /\ UNCHANGED <<kind, style, list, used, edits, answers, held>>

-----------------------------------------------------------------------------
Init ==
  /\ kind \in {"check_runs", "statuses", "reviews"}
  /\ style \in {"next", "last while next", "last always"}
  /\ \E n \in 0..Records :
       list = [i \in 1..n |-> i] /\ used = 1..n
  /\ edits = 0 /\ call = FirstRequest /\ answers = <<>>
  /\ held = {list} /\ start = list /\ disturbed = {}

Edits == Insert \/ Drop
Collect == Answer \/ Retry \/ Fail \/ ReadAgain
Next == Edits \/ Collect

(* Requests end: the client's AbortSignal ends those that GitHub does not    *)
(* answer.  Of GitHub's users nothing is assumed.                            *)
Spec == Init /\ [][Next]_vars /\ WF_vars(Collect)

-----------------------------------------------------------------------------
Distinct(answer) == IsInjective(answer)
LastAnswer == answers[Len(answers)]

(* A list that only grows is never read into a mixture: if no record repeats *)
(* in what one read returns, GitHub held exactly that list at one instant.   *)
GrowingReadWasHeld ==
  GrowsOnly => \A i \in DOMAIN answers : Distinct(answers[i]) => answers[i] \in held

(* Nor does such a read miss a record that was there when it began.          *)
StandingItemsRead ==
  (GrowsOnly /\ call.pc = "returned") => ToSet(start) \subseteq ToSet(LastAnswer)

(* Check Runs are removed too, which shifts the rest past a page boundary.    *)
(* A read during which records only left, or only came, is caught by the     *)
(* total_count of each answer: what it returns was held.                     *)
OneSidedReadWasHeld ==
  ( /\ call.pc = "returned" /\ HasTotal
    /\ ~({"insert", "remove"} \subseteq disturbed) )
  => LastAnswer \in held

(* total_count does not notice one removed for one inserted.  But when two reads return the same records, each once, *)
(* GitHub held those records at one instant: the loader's second read is     *)
(* what makes the first a snapshot.                                          *)
AgreeingReadsWereHeld ==
  ( /\ Len(answers) = Reads /\ Distinct(answers[1]) /\ Distinct(answers[2])
    /\ ToSet(answers[1]) = ToSet(answers[2]) )
  => \E h \in held : ToSet(h) = ToSet(answers[1])

(* A read that nothing disturbs returns the whole list, and refuses only one *)
(* that reaches the maximum.                                                 *)
QuietReadIsExact ==
  disturbed = {} =>
    /\ call.pc = "returned" => LastAnswer = list
    /\ call.pc = "refused" => Len(list) >= MaxItems

(* However the list changes under it, a read ends.                           *)
ReadsEnd == <>Finished
=============================================================================
