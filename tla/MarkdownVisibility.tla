-------------------------- MODULE MarkdownVisibility --------------------------
(***************************************************************************)
(* What src/src/engine.ts counts as evidence in a pull-request body: the   *)
(* line scanner visibleMarkdownLines, and hasNonEmptySection and           *)
(* hasAttestation over the lines it leaves.                                *)
(*                                                                         *)
(* Data abstraction: a body is a sequence of lines and a line is one of    *)
(* the kinds the scanner tells apart, for one heading asked for, one HTML  *)
(* tag and one reference label.  The example in the comment is a line of   *)
(* the kind; what the code does to it character by character is how the    *)
(* kind behaves below.                                                     *)
(***************************************************************************)
EXTENDS Naturals, Sequences, FiniteSets

CONSTANT MaxFragment \* maximumRawHtmlTagLength, ...SpecialFragmentLength in lines

(* What is left of a line once escapes and code spans are masked.            *)
Words ==
  { "text",       \* several words
    "word",       \* one word: also a link destination
    "indented" }  \* an indented code line

(* Lines that render nothing by themselves: white space, invisible           *)
(* characters and the entities that stand for them.                          *)
Blanks == {"blank"}

(* An image or link without text: nothing is left when its label is defined. *)
EmptyLinks == {"emptyref"} \* ![][x]

Headings ==
  { "wanted",     \* the heading asked for
    "peer",       \* another heading of its level or above
    "sub" }       \* a heading below it

Attestations == {"box"} \* - [x] the attestation asked for

Fences ==
  { "tick",       \* ```      opens or closes a fence
    "info",       \* ``` js   opens a fence, closes none
    "tilde" }     \* ~~~

Comments == {"open", "close"} \* <!-- and -->

(* What parseRawHtmlTagAt and scanRawHtmlTags find on a line.                *)
RawHtmlTags ==
  { "div",        \* <div>
    "undiv",      \* </div>
    "tagstart",   \* <div     a tag that goes on
    "tagend",     \* x>
    "inlinehtml" } \* a <b>c</b>

SpecialFragments ==
  { "pi",         \* <?x      a processing instruction, declaration or CDATA
    "unpi" }      \* ?>

References ==
  { "label",      \* [x]:
    "definition", \* [x]: /u
    "title" }     \* "t"

LineKind ==
  Words \cup Blanks \cup EmptyLinks \cup Headings \cup Attestations
  \cup Fences \cup Comments \cup RawHtmlTags \cup SpecialFragments \cup References

(* The lines that hold a ">" and the lines that hold a "<". *)
HasGreater == {"close", "div", "undiv", "tagend", "inlinehtml", "unpi"}
HasLess == {"div", "undiv", "tagstart", "inlinehtml", "pi"}

(* parseLinkReferenceContinuationLine: a line that is one destination. *)
Destination ==
  {"word", "tick", "tilde", "close", "div", "undiv", "tagend", "unpi",
   "label", "title", "emptyref"}

-----------------------------------------------------------------------------
(* Fences *)

(* fenceMarker *)
Marker(kind) ==
  CASE kind \notin Fences -> "none"
    [] kind = "tilde" -> "tilde"
    [] OTHER -> "tick"

(* Seeded fault: any marker closes a fence. *)
ClosesAny(kind, fence) == kind \in {"tick", "tilde"}

(* closesFence *)
Closes(kind, fence) == kind = fence

(* findFencedCodeLineIndexes: the lines of fences, ignored lines opening     *)
(* none.                                                                     *)
Fenced(doc, ignored) ==
  LET open[i \in 0..Len(doc)] ==
        IF i = 0 THEN "none"
        ELSE IF open[i - 1] # "none"
             THEN IF Closes(doc[i], open[i - 1]) THEN "none" ELSE open[i - 1]
             ELSE IF i \in ignored THEN "none" ELSE Marker(doc[i])
  IN {i \in 1..Len(doc) :
        open[i - 1] # "none" \/ (i \notin ignored /\ Marker(doc[i]) # "none")}

-----------------------------------------------------------------------------
(* Link reference definitions *)

TitleAfter(doc, i) ==
  IF i < Len(doc) /\ doc[i + 1] = "title" THEN {i + 1} ELSE {}

(* Whether a definition on several lines starts on line i. *)
StartsDefinition(doc, fenced, taken, i) ==
  /\ i \notin taken \cup fenced
  /\ doc[i] = "label" /\ i < Len(doc)
  /\ doc[i + 1] \in Destination

(* findMultilineLinkReferenceDefinitions: [starts, lines]. *)
Definitions(doc, fenced) ==
  LET found[i \in 0..Len(doc)] ==
        IF i = 0 THEN [starts |-> {}, lines |-> {}]
        ELSE LET f == found[i - 1]
             IN IF StartsDefinition(doc, fenced, f.lines, i)
                THEN [starts |-> f.starts \cup {i},
                      lines |-> f.lines \cup {i, i + 1}
                                  \cup TitleAfter(doc, i + 1)]
                ELSE f
  IN found[Len(doc)]

(* findSingleLineLinkReferenceTitleContinuations *)
Titles(doc, taken, fenced) ==
  UNION {TitleAfter(doc, i) :
           i \in {j \in 1..Len(doc) \ (taken \cup fenced) :
                    doc[j] = "definition"}}

Consumed(doc, fenced) ==
  LET lines == Definitions(doc, fenced).lines
  IN lines \cup Titles(doc, lines, fenced)

(* The second pass of visibleMarkdownLines: fences are found again without   *)
(* the lines the first pass gave to definitions.                             *)
FinalFences(doc) == Fenced(doc, Consumed(doc, Fenced(doc, {})))

-----------------------------------------------------------------------------
(* The scanner *)

Plain == [fence |-> "none", comment |-> FALSE, fragment |-> 0, torn |-> FALSE,
          tags |-> 0, special |-> 0, failed |-> FALSE, label |-> FALSE,
          visible |-> {}]

(* Outside every fence, comment and raw HTML. *)
Outside(s) ==
  /\ s.fence = "none" /\ ~s.comment /\ s.fragment = 0
  /\ s.tags = 0 /\ s.special = 0

(* updateRawHtmlTags *)
Tags(kind, tags) ==
  CASE kind = "div" -> tags + 1
    [] kind = "undiv" -> IF tags > 0 THEN tags - 1 ELSE 0
    [] OTHER -> tags

(* What comments leave of a line. *)
Uncommented(s, kind) ==
  IF s.comment \/ kind = "open" THEN "blank" ELSE kind

CommentAfter(s, kind) ==
  IF s.comment THEN kind # "close" ELSE kind = "open"

(* A tag that started on an earlier line goes on, or ends. *)
InFragment(s, kind) ==
  IF s.fragment >= MaxFragment \/ (kind \in HasGreater /\ (s.torn \/ kind \in HasLess))
  THEN [s EXCEPT !.failed = TRUE]
  ELSE IF kind \in HasGreater
  THEN [s EXCEPT !.fragment = 0, !.tags = @ + 1]
  ELSE [s EXCEPT !.fragment = @ + 1, !.torn = @ \/ kind \in HasLess]

InSpecial(s, kind) ==
  IF s.special >= MaxFragment THEN [s EXCEPT !.failed = TRUE]
  ELSE [s EXCEPT !.special = IF kind = "unpi" THEN 0 ELSE @ + 1]

(* A line outside raw HTML; a blank one is kept by the code and never counts. *)
InText(s, kind, i, definitions, titles) ==
  IF i \in definitions.lines
  THEN [s EXCEPT !.label = @ \/ i \in definitions.starts]
  ELSE IF i \in titles \/ kind \in Blanks THEN s
  ELSE IF Marker(kind) # "none" THEN [s EXCEPT !.fence = Marker(kind)]
  ELSE IF kind = "definition" THEN [s EXCEPT !.label = TRUE]
  ELSE [s EXCEPT !.visible = @ \cup {i}]

(* One line outside a fence: comments are taken out first. *)
ScanLine(before, whole, i, definitions, titles) ==
  LET kind == Uncommented(before, whole)
      s == [before EXCEPT !.comment = CommentAfter(before, whole)]
  IN IF s.fragment > 0 THEN InFragment(s, kind)
     ELSE IF kind = "tagstart"
     THEN [s EXCEPT !.fragment = 1, !.torn = FALSE]
     ELSE IF s.tags > 0 THEN [s EXCEPT !.tags = Tags(kind, @)]
     ELSE IF s.special > 0 THEN InSpecial(s, kind)
     ELSE IF kind = "pi" THEN [s EXCEPT !.special = 1]
     ELSE IF kind \in {"div", "undiv"} THEN [s EXCEPT !.tags = Tags(kind, 0)]
     ELSE InText(s, kind, i, definitions, titles)

(* visibleMarkdownLines: the scanner's state after each line. *)
Scan(doc) ==
  LET fenced == FinalFences(doc)
      definitions == Definitions(doc, fenced)
      titles == Titles(doc, definitions.lines, fenced)
      after[i \in 0..Len(doc)] ==
        IF i = 0 THEN Plain
        ELSE LET s == after[i - 1]
             IN IF s.failed THEN s
                ELSE IF s.fence = "none"
                THEN ScanLine(s, doc[i], i, definitions, titles)
                ELSE IF Closes(doc[i], s.fence)
                THEN [s EXCEPT !.fence = "none"]
                ELSE s
  IN after

(* A document left open in a comment or in raw HTML has no visible line. *)
Legible(end) ==
  /\ ~end.failed /\ ~end.comment
  /\ end.fragment = 0 /\ end.special = 0 /\ end.tags = 0

-----------------------------------------------------------------------------
(* Evidence *)

(* hasVisibleMarkdownText *)
HasText(kind, label) ==
  /\ kind \notin Blanks \cup {"indented", "inlinehtml"}
  /\ kind \in EmptyLinks => ~label

(* The lines of the section under visible heading h. *)
SectionOf(doc, visible, h) ==
  {i \in visible :
     /\ i > h /\ doc[i] \notin Headings
     /\ \A j \in visible : h < j /\ j < i => doc[j] \notin {"wanted", "peer"}}

(* hasNonEmptySection: the lines that make the section wanted non-empty. *)
SectionEvidence(doc) ==
  LET end == Scan(doc)[Len(doc)]
      sections == {SectionOf(doc, end.visible, h) :
                     h \in {i \in end.visible : doc[i] = "wanted"}}
      read == {s \in sections : \A i \in s : doc[i] # "inlinehtml"}
  IN IF Legible(end)
     THEN {i \in UNION read : HasText(doc[i], end.label)}
     ELSE {}

(* hasAttestation: the lines that attest. *)
AttestationEvidence(doc) ==
  LET end == Scan(doc)[Len(doc)]
  IN IF Legible(end) THEN {i \in end.visible : doc[i] \in Attestations} ELSE {}
=============================================================================
