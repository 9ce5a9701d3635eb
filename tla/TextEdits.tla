----------------------------- MODULE TextEdits -----------------------------
(***************************************************************************)
(* What the planner's text actions do to the bytes of one existing file:   *)
(* decode it (one newline style only), edit the LF text, render it in the  *)
(* file's own style again.  An edit that is refused changes nothing; jobs  *)
(* edit the same files one after the other, so every file a step produces  *)
(* is the input of the next.                                               *)
(*                                                                         *)
(* A text is a sequence of characters: letters, LF, CR and SEP, which      *)
(* stands for the characters (U+2028, U+0085, ...) that end a line for     *)
(* str.splitlines and not for a physical, LF-terminated line.              *)
(***************************************************************************)
EXTENDS Integers, SequencesExt

CONSTANTS
  Letter,        \* the characters that end no line
  Files,         \* bytes the edited file may have before the first edit
  Others,        \* and the file that lines are moved to
  Word,          \* texts an action may ask for, insert, replace or guard
  Diffs,         \* unified diffs: sequences of lines, see DiffLine
  MaxEdits,      \* bound: how many actions a behaviour has
  MaxLine,       \* bound: line numbers and counts an action may give
  MaxLength      \* bound: no edit makes a file longer than this

LF == "LF"
CR == "CR"
SEP == "SEP"

Text == Seq(Letter \cup {LF, CR, SEP})
LFText == Seq(Letter \cup {LF, SEP})

(* A line of a diff.  "---" and "+++" name a file, "@@" heads a hunk with   *)
(* the start and the count of both sides, " ", "-" and "+" are its lines,   *)
(* "\\" takes the newline of the line before it away; "meta" stands for     *)
(* creations, renames, modes and binary patches, "junk" for anything else.  *)
(* Line breaks are made LF before a diff is split into its lines, so none   *)
(* of them goes on behind a break.                                          *)
LineText == {t \in LFText : \A i \in DOMAIN t : t[i] \in {LF, SEP} => i = Len(t)}
DiffLine ==
  [mark : {"---", "+++"}, path : {"raw", "other", "unusable"}]
    \cup [mark : {"@@"}, oldStart : Nat, oldCount : Nat, newStart : Nat, newCount : Nat]
    \cup [mark : {" ", "-", "+"}, text : LineText]
    \cup [mark : {"\\", "diff --git", "index", "meta", "junk"}]

ASSUME TextAssumption ==
  /\ Letter \cap {LF, CR, SEP} = {}
  /\ Files \subseteq Text /\ Others \subseteq Text
  /\ Word \subseteq Text
  /\ Diffs \subseteq Seq(DiffLine)
  /\ MaxEdits \in Nat /\ MaxLine \in Nat /\ MaxLength \in Nat

VARIABLES
  raw,           \* bytes of the edited file
  other,         \* bytes of the file lines are moved to
  edits,         \* how many actions were applied
  request        \* history: the last action and the texts it was given

vars == <<raw, other, edits, request>>

-----------------------------------------------------------------------------
(* Line breaks *)

AfterCR(t, i) == i > 1 /\ t[i - 1] = CR
BeforeLF(t, i) == i < Len(t) /\ t[i + 1] = LF

(* _detect_newlines: the LF text of bytes with one newline style. *)
Decoded(t) == FlattenSeq([i \in DOMAIN t |-> IF t[i] = CR THEN <<>> ELSE <<t[i]>>])

(* normalize_newlines: CRLF and a lone CR become LF. *)
Normalize(t) ==
  FlattenSeq([i \in DOMAIN t |->
    CASE t[i] = LF /\ AfterCR(t, i) -> <<>>
      [] t[i] = CR                  -> <<LF>>
      [] OTHER                      -> <<t[i]>>])

(* The style of some bytes; a mixed or CR-only file takes no text change. *)
Style(t) ==
  LET crlf == \E i \in DOMAIN t : t[i] = CR /\ BeforeLF(t, i)
      lf   == \E i \in DOMAIN t : t[i] = LF /\ ~AfterCR(t, i)
      cr   == \E i \in DOMAIN t : t[i] = CR /\ ~BeforeLF(t, i)
  IN IF cr \/ (crlf /\ lf) THEN "unsupported"
     ELSE IF crlf THEN "crlf"
     ELSE IF lf THEN "lf"
     ELSE "none"

Editable(t) == Style(t) # "unsupported"

Render(t, style) ==
  FlattenSeq([i \in DOMAIN t |-> IF t[i] = LF /\ style = "crlf"
                                 THEN <<CR, LF>> ELSE <<t[i]>>])

(* Mutant: a text without line breaks is rendered in CRLF once it has one. *)
MutEncoded(t, style) == Render(t, IF style = "none" THEN "crlf" ELSE style)

(* _update_state: a file without line breaks takes LF when it gets one. *)
Encoded(t, style) ==
  Render(t, IF style = "none" /\ LF \in Range(t) THEN "lf" ELSE style)

(* The text split after every break; what follows the last one is a line if *)
(* it is not empty.                                                         *)
Ends(t, breaks) == {i \in DOMAIN t : t[i] \in breaks \/ i = Len(t)}
Upto(S, i) == Cardinality({j \in S : j <= i})
EndOf(S, n) == CHOOSE i \in {0} \cup S : Upto(S, i) = n
SplitAfter(t, breaks) ==
  LET ends == Ends(t, breaks) IN
  [n \in 1..Cardinality(ends) |-> SubSeq(t, EndOf(ends, n - 1) + 1, EndOf(ends, n))]

CanonicalLines(t) == SplitAfter(t, {LF})         \* canonical_lines
SplitLines(t) == SplitAfter(t, {LF, SEP})        \* str.splitlines(keepends=True)

(* Offset at which the n-th line starts: the characters of the lines before. *)
Offset(lines, n) == Len(FlattenSeq(SubSeq(lines, 1, n - 1)))

Cut(t, from, to, content) ==
  SubSeq(t, 1, from) \o content \o SubSeq(t, to + 1, Len(t))

-----------------------------------------------------------------------------
(* The text a request leads to: a set of one text, or none if it is refused. *)

Matches(t, w, i) == i + Len(w) - 1 <= Len(t) /\ SubSeq(t, i, i + Len(w) - 1) = w

(* Mutant: matches that overlap are all counted. *)
MutPositions(t, w) == {i \in DOMAIN t : Matches(t, w, i)}

(* Where str.count, str.find and str.replace see w: left to right, without  *)
(* overlaps.                                                                *)
Positions(t, w) ==
  LET found[i \in 0..Len(t)] ==
        IF i = 0 THEN {}
        ELSE IF Matches(t, w, i) /\ \A j \in found[i - 1] : j + Len(w) <= i
               THEN found[i - 1] \cup {i}
               ELSE found[i - 1]
  IN found[Len(t)]

Count(t, w) == Cardinality(Positions(t, w))

Replace(t, old, new) ==
  LET found == Positions(t, old) IN
  FlattenSeq([i \in DOMAIN t |->
    CASE i \in found                                     -> new
      [] \E j \in found : j < i /\ i < j + Len(old)       -> <<>>
      [] OTHER                                           -> <<t[i]>>])

ReplaceExact(t, old, new, n) ==
  IF Count(t, old) = n THEN {Replace(t, old, new)}
  ELSE IF Count(t, old) = 0 /\ new # <<>> /\ Count(t, new) = n THEN {t}
  ELSE {}

DeleteExact(t, w, n) == IF Count(t, w) = n THEN {Replace(t, w, <<>>)} ELSE {}

(* The content already stands beside the anchor at position i. *)
Adjacent(t, i, anchor, content, before) ==
  LET from == IF before THEN i - Len(content) ELSE i + Len(anchor)
  IN from >= 1 /\ Matches(t, content, from)

Insert(t, anchor, content, n, before) ==
  LET found == Positions(t, anchor)
      there == {i \in found : Adjacent(t, i, anchor, content, before)}
  IN IF Cardinality(found) # n THEN {}
     ELSE IF there = found THEN {t}
     ELSE IF there # {} THEN {}
     ELSE {Replace(t, anchor, IF before THEN content \o anchor ELSE anchor \o content)}

(* Mutant: the end of the range is taken for an exclusive bound. *)
MutSelected(t, first, last) ==
  LET lines == CanonicalLines(t) IN
  IF 1 <= first /\ first <= last /\ last <= Len(lines)
  THEN {[from |-> Offset(lines, first), to |-> Offset(lines, last)]}
  ELSE {}

(* select_line_range: the offsets of an inclusive range of physical lines. *)
Selected(t, first, last) ==
  LET lines == CanonicalLines(t) IN
  IF 1 <= first /\ first <= last /\ last <= Len(lines)
  THEN {[from |-> Offset(lines, first), to |-> Offset(lines, last + 1)]}
  ELSE {}

Content(t, range) == SubSeq(t, range.from + 1, range.to)

(* The range, if it still holds what the author of the job saw in it. *)
Guarded(t, first, last, guard) ==
  {r \in Selected(t, first, last) : Content(t, r) = Normalize(guard)}

ReplaceRange(t, first, last, guard, content) ==
  {Cut(t, r.from, r.to, content) : r \in Guarded(t, first, last, guard)}

InsertAtLine(t, line, guard, content, before) ==
  {LET at == IF before THEN r.from ELSE r.to IN Cut(t, at, at, content) :
     r \in Guarded(t, line, line, guard)}

Sides(mark) == CASE mark = " " -> {"old", "new"} [] mark = "-" -> {"old"} [] mark = "+" -> {"new"}

(* _parse_hunk: one line of the body; refused if the marker that takes a    *)
(* newline away follows no line, or one that has none.                      *)
AddLine(hunk, line) ==
  {[hunk EXCEPT !.last = line.mark,
      !.old = IF "old" \in Sides(line.mark) THEN Append(@, line.text) ELSE @,
      !.new = IF "new" \in Sides(line.mark) THEN Append(@, line.text) ELSE @]}

Chopped(lines) == [lines EXCEPT ![Len(lines)] = Front(@)]
EndsWithNewline(lines) == lines # <<>> /\ Last(lines) # <<>> /\ Last(Last(lines)) = LF

RemoveLastNewline(hunk) ==
  IF hunk.last # "none" /\ \A side \in Sides(hunk.last) : EndsWithNewline(hunk[side])
    THEN {[hunk EXCEPT !.old = IF "old" \in Sides(hunk.last) THEN Chopped(@) ELSE @,
                       !.new = IF "new" \in Sides(hunk.last) THEN Chopped(@) ELSE @]}
    ELSE {}

(* The header of a hunk; an empty side is the only one that may start at 0. *)
OpenHunk(line) ==
  IF (line.oldStart = 0 => line.oldCount = 0) /\ (line.newStart = 0 => line.newCount = 0)
    THEN {[start |-> line.oldStart, oldCount |-> line.oldCount, newCount |-> line.newCount,
           old |-> <<>>, new |-> <<>>, last |-> "none"]}
    ELSE {}

(* A hunk ends only when both sides have the lines its header announced.    *)
HunkClosed(s) ==
  s.mode = "hunk" =>
    LET hunk == Last(Last(s.files).hunks) IN
    Len(hunk.old) = hunk.oldCount /\ Len(hunk.new) = hunk.newCount

WithHunks(s, hunks) ==
  [s EXCEPT !.mode = "hunk", !.files[Len(s.files)].hunks = hunks]

(* One line of a diff, given what the lines before it were: the new state   *)
(* of the parser, or none if the diff is refused.                           *)
ParseLine(s, line) ==
  CASE s.mode = "hunk" /\ line.mark \in {" ", "-", "+", "\\"} ->
         LET hunks == Last(s.files).hunks IN
         {WithHunks(s, Append(Front(hunks), h)) :
            h \in IF line.mark = "\\" THEN RemoveLastNewline(Last(hunks))
                                       ELSE AddLine(Last(hunks), line)}
    [] s.mode \in {"headed", "hunk"} /\ line.mark = "@@" /\ HunkClosed(s) ->
         {WithHunks(s, Append(Last(s.files).hunks, h)) : h \in OpenHunk(line)}
    [] s.mode = "top" /\ line.mark \in {"diff --git", "index"} -> {s}
    [] s.mode = "hunk" /\ line.mark = "diff --git" /\ HunkClosed(s) ->
         {[s EXCEPT !.mode = "top"]}
    [] s.mode \in {"top", "hunk"} /\ line.mark = "---" /\ HunkClosed(s)
         /\ line.path # "unusable" ->
         {[s EXCEPT !.mode = "old", !.path = line.path]}
    [] s.mode = "old" /\ line.mark = "+++" /\ line.path = s.path
         /\ (\A k \in DOMAIN s.files : s.files[k].path # s.path) ->
         {[s EXCEPT !.mode = "headed", !.files = Append(@, [path |-> s.path, hunks |-> <<>>])]}
    [] OTHER -> {}

Blank == [mode |-> "top", path |-> "none", files |-> <<>>]

(* parse_unified_diff: the hunks of each file, in order. *)
ParseUnifiedDiff(document) ==
  LET after[n \in 0..Len(document)] ==
        IF n = 0 THEN {Blank} ELSE UNION {ParseLine(s, document[n]) : s \in after[n - 1]}
  IN {s.files : s \in {s \in after[Len(document)] :
        s.mode \in {"top", "hunk"} /\ HunkClosed(s) /\ s.files # <<>>}}

(* Mutant: hunk positions are taken as 0-based. *)
MutHunkStart(hunk) == hunk.start

(* An empty old side names the line it follows. *)
HunkStart(hunk) == IF hunk.old = <<>> THEN hunk.start ELSE hunk.start - 1

(* One hunk, where its header says and on the lines it names. *)
ApplyHunk(source, s, hunk) ==
  LET start == HunkStart(hunk)
      end == start + Len(hunk.old)
  IN IF start >= s.cursor /\ end <= Len(source) /\ SubSeq(source, start + 1, end) = hunk.old
     THEN {[cursor |-> end,
            output |-> s.output \o FlattenSeq(SubSeq(source, s.cursor + 1, start))
                                \o FlattenSeq(hunk.new)]}
     ELSE {}

(* apply_file_diff: hunks in order; the rest is copied. *)
ApplyFileDiff(t, hunks) ==
  LET source == SplitLines(t)
      after[n \in 0..Len(hunks)] ==
        IF n = 0 THEN {[cursor |-> 0, output |-> <<>>]}
        ELSE UNION {ApplyHunk(source, s, hunks[n]) : s \in after[n - 1]}
  IN {s.output \o FlattenSeq(SubSeq(source, s.cursor + 1, Len(source))) : s \in after[Len(hunks)]}

(* Mutant: the moved lines also stay where they were. *)
MutMoveRange(source, destination, first, last, line) ==
  LET lines == SplitLines(destination) IN
  {[source |-> source,
    destination |-> Cut(destination, Offset(lines, line), Offset(lines, line), Content(source, r))] :
     r \in {s \in Selected(source, first, last) :
              /\ line \in 1..(Len(lines) + 1)}}

(* move_range: the lines leave the source and enter the destination before  *)
(* one of its lines or at its end; both sides of the seam must be lines.    *)
MoveRange(source, destination, first, last, line) ==
  LET lines == SplitLines(destination)
      at == Offset(lines, line)
  IN {[source |-> Cut(source, r.from, r.to, <<>>),
       destination |-> Cut(destination, at, at, Content(source, r))] :
        r \in {s \in Selected(source, first, last) :
                 /\ line \in 1..(Len(lines) + 1)
                 /\ at > 0 => destination[at] = LF
                 /\ at < Len(destination) => source[s.to] = LF}}

-----------------------------------------------------------------------------
(* One action per kind of request *)

Init ==
  /\ raw \in Files
  /\ other \in Others
  /\ edits = 0
  /\ request = [action |-> "none"]

(* Bytes beyond execution.max_single_file_bytes are refused. *)
Write(updated) ==
  /\ edits' = edits + 1
  /\ Editable(raw)
  /\ raw' = Encoded(updated, Style(raw))
  /\ Len(raw') <= MaxLength

EditExactly(name, old, new, n) ==
  /\ \E updated \in
       CASE name = "replace_exact" -> ReplaceExact(Decoded(raw), Normalize(old), Normalize(new), n)
         [] name = "insert_before" -> Insert(Decoded(raw), Normalize(old), Normalize(new), n, TRUE)
         [] name = "insert_after"  -> Insert(Decoded(raw), Normalize(old), Normalize(new), n, FALSE)
         [] name = "delete_exact"  -> DeleteExact(Decoded(raw), Normalize(old), n) :
       Write(updated)
  /\ request' = [action |-> name, old |-> Normalize(old), new |-> Normalize(new), count |-> n]
  /\ UNCHANGED other

EditRange(name, first, last, guard, content) ==
  /\ \E updated \in
       CASE name = "replace_range" -> ReplaceRange(Decoded(raw), first, last, guard, Normalize(content))
         [] name = "before"        -> InsertAtLine(Decoded(raw), first, guard, Normalize(content), TRUE)
         [] name = "after"         -> InsertAtLine(Decoded(raw), first, guard, Normalize(content), FALSE) :
       Write(updated)
  /\ request' = [action |-> name, first |-> first, last |-> last, content |-> content]
  /\ UNCHANGED other

(* The bytes of a file after a parsed diff; none if it does not apply. *)
Patched(files, path, bytes) ==
  IF \A k \in DOMAIN files : files[k].path # path THEN {bytes}
  ELSE {Encoded(updated, Style(bytes)) :
          updated \in UNION {IF Editable(bytes) /\ files[k].path = path
                                THEN ApplyFileDiff(Decoded(bytes), files[k].hunks)
                                ELSE {} : k \in DOMAIN files}}

(* One file that does not take its part refuses the whole diff. *)
ApplyDiff(document) ==
  /\ \E files \in ParseUnifiedDiff(document) :
       /\ raw' \in Patched(files, "raw", raw)
       /\ other' \in Patched(files, "other", other)
  /\ Len(raw') <= MaxLength /\ Len(other') <= MaxLength
  /\ edits' = edits + 1
  /\ request' = [action |-> "apply_diff", document |-> document]

TransferRange(first, last, line) ==
  /\ Editable(other)
  /\ \E moved \in MoveRange(Decoded(raw), Decoded(other), first, last, line) :
       /\ Write(moved.source)
       /\ other' = Encoded(moved.destination, Style(other))
  /\ Len(other') <= MaxLength
  /\ request' = [action |-> "move_range", first |-> first, last |-> last, line |-> line]

Request ==
  \/ \E old \in Word \ {<<>>}, new \in Word \ {<<>>}, n \in 1..MaxLine :
       \E name \in {"replace_exact", "insert_before", "insert_after"} :
         EditExactly(name, old, new, n)
  \/ \E old \in Word \ {<<>>}, n \in 1..MaxLine :
       \E name \in {"replace_exact", "delete_exact"} : EditExactly(name, old, <<>>, n)
  \/ \E first, last \in 1..MaxLine, guard \in Word, content \in Word :
       EditRange("replace_range", first, last, guard, content)
  \/ \E line \in 1..MaxLine, guard \in Word, content \in Word :
       \E name \in {"before", "after"} : EditRange(name, line, line, guard, content)
  \/ \E document \in Diffs : ApplyDiff(document)
  \/ \E first, last, line \in 1..MaxLine : TransferRange(first, last, line)

Next == edits < MaxEdits /\ Request

Spec == Init /\ [][Next]_vars

-----------------------------------------------------------------------------
(* References: the same edits described without offsets or cursors *)

Breaks(t, m) == Cardinality({i \in 1..m : t[i] = LF})

(* The first n physical lines of a text. *)
FirstLines(t, n) ==
  LET whole == {m \in 0..Len(t) : Breaks(t, m) = n /\ (m = 0 \/ t[m] = LF)}
  IN IF whole = {} THEN t ELSE SubSeq(t, 1, Min(whole))
Rest(t, head) == SubSeq(t, Len(head) + 1, Len(t))

(* Where n disjoint copies of w stand. *)
Copies(t, w, n) ==
  {P \in SUBSET DOMAIN t :
     /\ Cardinality(P) = n
     /\ \A i \in P : Matches(t, w, i)
     /\ \A i, j \in P : i < j => i + Len(w) <= j}

(* A text with the copies of w at P replaced: right of every copy the text  *)
(* is shifted by what the copies before it gained.                          *)
Replaced(t, P, w, new, u) ==
  LET shift(i) == Cardinality({j \in P : j < i}) * (Len(new) - Len(w)) IN
  /\ Len(u) = Len(t) + Cardinality(P) * (Len(new) - Len(w))
  /\ \A i \in P : new = <<>> \/ Matches(u, new, i + shift(i))
  /\ \A i \in DOMAIN t :
       (\A j \in P : i \notin j..(j + Len(w) - 1)) => u[i + shift(i)] = t[i]

(* Where the hunks of a file begin in a diff, the lines below the header at *)
(* h that belong to a side, and the text with all of it done by hand.       *)
Names(line, path) == line.mark = "+++" /\ line.path = path
HunksOf(document, path) ==
  {h \in DOMAIN document :
     /\ document[h].mark = "@@"
     /\ \E n \in 1..h : /\ Names(document[n], path)
                        /\ \A k \in (n + 1)..h : document[k].mark # "+++"}
BodyMarks == {" ", "-", "+", "\\"}
LinesBelow(document, h, marks) ==
  LET own == {i \in DOMAIN document :
                /\ i > h /\ document[i].mark \in marks
                /\ \A k \in (h + 1)..i : document[k].mark \in BodyMarks}
      line(i) == IF i < Len(document) /\ document[i + 1].mark = "\\"
                   THEN Front(document[i].text) ELSE document[i].text
  IN [k \in 1..Cardinality(own) |-> line(EndOf(own, k))]
HunkByHand(document, h, lines) ==
  LET old == LinesBelow(document, h, {" ", "-"})
      above == document[h].oldStart - (IF old = <<>> THEN 0 ELSE 1)
  IN SubSeq(lines, 1, above) \o LinesBelow(document, h, {" ", "+"})
       \o SubSeq(lines, above + Len(old) + 1, Len(lines))
ByHand(document, path, t) ==
  LET hunks == HunksOf(document, path)
      K == Cardinality(hunks)
      lines[k \in 0..K] ==
        IF k = 0 THEN CanonicalLines(t)
        ELSE HunkByHand(document, EndOf(hunks, K - k + 1), lines[k - 1])
  IN FlattenSeq(lines[K])

Edited(names) == request'.action \in names /\ edits' # edits

StyleKept(a, b) ==
  Style(b) # Style(a) => Style(b) = "none" \/ <<Style(a), Style(b)>> = <<"none", "lf">>

(* An edit that asks for n copies of a text to be replaced made u of t. *)
Counted(t, u, q) ==
  u # t => \E P \in Copies(t, q.old, q.count) : Replaced(t, P, q.old, q.new, u)

(* What a range edit or an insertion at a line is to make of a text. *)
RangeResult(t, q) ==
  LET head == FirstLines(t, q.first - 1)
      upto == FirstLines(t, q.last)
  IN CASE q.action = "replace_range" -> head \o Normalize(q.content) \o Rest(t, upto)
       [] q.action = "before" -> head \o Normalize(q.content) \o Rest(t, head)
       [] q.action = "after"  -> upto \o Normalize(q.content) \o Rest(t, upto)

(* u is d with the moved lines at the start of a line. *)
Landing(d, u, line, moved) ==
  \E m \in 0..Len(d) :
    /\ m > 0 => d[m] = LF
    /\ SEP \notin Range(d) => SubSeq(d, 1, m) = FirstLines(d, line - 1)
    /\ u = Cut(d, m, m, moved)
    /\ m < Len(d) => moved[Len(moved)] = LF

-----------------------------------------------------------------------------
(* Properties *)

(* Whatever sequence of edits a file takes, and whatever line breaks their  *)
(* content came with, LF stays LF, CRLF stays CRLF and a file without any   *)
(* takes LF; so it never gets the mixed newlines that would bar every later *)
(* text action on it.                                                       *)
KeepsNewlineStyle == [][StyleKept(raw, raw') /\ StyleKept(other, other')]_vars

(* replace_exact and delete_exact change exactly the expected number of     *)
(* disjoint copies and keep every other character.                          *)
ExactEditsAreCounted ==
  [][Edited({"replace_exact", "delete_exact"}) =>
       Counted(Decoded(raw), Decoded(raw'), request')]_vars

(* A range edit or an insertion at a line keeps every character of the      *)
(* other physical lines, also where the file ends without a newline.        *)
RangeEditsAreLocal ==
  [][Edited({"replace_range", "before", "after"}) =>
       Decoded(raw') = RangeResult(Decoded(raw), request')]_vars

(* A diff that is accepted changes each file as its text says, read without *)
(* a parser or a cursor: hunk by hunk from the last, the lines below the    *)
(* header replace as many lines of the file, and no other line changes.     *)
(* Files with a separator only str.splitlines honours are another matter.   *)
DiffAppliesAtItsLines ==
  [][Edited({"apply_diff"}) =>
       /\ SEP \notin Range(raw) =>
            Decoded(raw') = ByHand(request'.document, "raw", Decoded(raw))
       /\ SEP \notin Range(other) =>
            Decoded(other') = ByHand(request'.document, "other", Decoded(other))]_vars

(* move_range loses and duplicates nothing: the characters that leave the   *)
(* source are whole lines of it and enter the destination in one piece, at  *)
(* the start of a physical line.                                            *)
MovesLoseNothing ==
  [][Edited({"move_range"}) =>
       LET t == Decoded(raw)
           head == FirstLines(t, request'.first - 1)
           upto == FirstLines(t, request'.last)
       IN /\ Decoded(raw') = head \o Rest(t, upto)
          /\ Landing(Decoded(other), Decoded(other'), request'.line, Rest(upto, head))]_vars

=============================================================================
