----------------------------- MODULE EditorText -----------------------------
(* The text of the source editor and its highlighted copy (edit_area: manage_area,
   highlight, regexp, search_replace). A timer compares the text with the one
   highlighted last, colours again the lines it takes for changed and keeps the
   rest. Of the characters the code tells apart there are a line break, a blank,
   a quote and others; comments and keywords are coloured like quotes. The
   selection is not a variable: keys and the mouse move it at any time, so every
   step is given one. *)
EXTENDS Integers, Sequences, SequencesExt, FiniteSetsExt

CONSTANTS Chars,     \* characters that are typed
          BaseStep,  \* the constant of checkTextEvolution, 200 in the code
          Needles,   \* what is searched for
          Opened,    \* texts the editor opens with
          Restored,  \* texts of the undo list or of other files
          PageLines, \* lines that page up and page down move by
          MaxEntry,  \* bound: characters selected, or entered, at once
          MaxLen,    \* bound: characters of the text
          MaxEdits   \* bound: changes of the text

ASSUME BoundsAssumption == {BaseStep, PageLines, MaxEntry, MaxLen, MaxEdits} \subseteq Nat

NL == "n"      \* a line break
Blank == "t"   \* a tabulation
Quote == "q"

VARIABLES
  text,   \* the textarea's value
  mode,   \* highlight: do_highlight, smooth: smooth_selection without it (with
          \* it, it is always on), wrap: word_wrap
  view,   \* last: last_selection, of: last_text_to_highlight, html:
          \* last_hightlighted_text, reload: reload_highlight, and misled:
          \* a change was misplaced since the whole text was highlighted
  edits   \* bound

vars == <<text, mode, view, edits>>

-----------------------------------------------------------------------------
(* String functions of JavaScript. Positions count from 0; a negative start
   counts from the end, bounds in the wrong order are swapped. *)
Least(a, b) == IF a < b THEN a ELSE b
Greatest(a, b) == IF a < b THEN b ELSE a
Clamped(s, i) == Greatest(0, Least(i, Len(s)))
Slice(s, i, j) == SubSeq(s, Clamped(s, i) + 1, Clamped(s, j))
Substring(s, i, j) == Slice(s, Least(i, j), Greatest(i, j))

Substr(s, i, n) ==
  LET start == IF i < 0 THEN Greatest(0, Len(s) + i) ELSE i
  IN Substring(s, start, start + n)

Before(s, i) == Slice(s, 0, i)
From(s, i) == Slice(s, i, Len(s))

IndexOf(s, needle, from) ==
  LET at == {i \in from..(Len(s) - Len(needle)) :
              SubSeq(s, i + 1, i + Len(needle)) = needle}
  IN IF at = {} THEN -1 ELSE Min(at)

Occurs(s, c) == Cardinality({i \in DOMAIN s : s[i] = c})

LinesOf(s) ==
  LET go[i \in Nat] ==
        IF i > Len(s) THEN << <<>> >>
        ELSE LET after == go[i + 1]
             IN IF s[i] = NL THEN << <<>> >> \o after
                ELSE << <<s[i]>> \o Head(after) >> \o Tail(after)
  IN go[1]

Joined(lines) ==
  LET go[i \in Nat] == IF i > Len(lines) THEN <<>> ELSE <<NL>> \o lines[i] \o go[i + 1]
  IN IF lines = <<>> THEN <<>> ELSE Tail(go[1])

LineAt(s, i) == Occurs(Before(s, i), NL)
LineStart(s, i) == i - Len(Last(LinesOf(Before(s, i))))

-----------------------------------------------------------------------------
(* checkTextEvolution: what the two texts share at their ends is skipped in
   steps that get smaller. *)
SameAtStart(last, new) ==
  LET end == Least(Len(last), Len(new))
      go[cpt \in Nat, step \in Nat] ==
        IF cpt >= end \/ step = 0 THEN cpt
        ELSE IF Substr(last, cpt, step) = Substr(new, cpt, step)
        THEN go[cpt + step, step] ELSE go[cpt, step \div 2]
  IN go[0, BaseStep]

\* cpt_last and cpt
EndsAsSearched(last, new) ==
  LET go[cptLast \in Int, cpt \in Int, step \in Nat] ==
        IF cpt < 0 \/ cptLast < 0 \/ step = 0 THEN <<cptLast, cpt>>
        ELSE IF Substr(last, cptLast - step, step) = Substr(new, cpt - step, step)
        THEN go[cptLast - step, cpt - step, step] ELSE go[cptLast, cpt, step \div 2]
  IN go[Len(last), Len(new), BaseStep]

\* posLastEnd and posNewEnd
EndsUncorrected(last, new) == EndsAsSearched(last, new)   \* mutant: no overlap test
Ends(last, new) ==
  LET longer == Len(new) - Len(last)
      Apart(start, ends) ==
        IF ends[2] > start THEN ends
        ELSE IF longer > 0 THEN <<start, start + longer>> ELSE <<start - longer, start>>
  IN Apart(SameAtStart(last, new), EndsAsSearched(last, new))

Evolution(last, new) ==
  LET Change(start, ends, first, lastEnd, newEnd) ==
        [lineStart |-> first, lineLastEnd |-> lastEnd, posLastEnd |-> ends[1],
         lastText |-> Substring(last, start, ends[1]),
         newText |-> Substring(new, start, ends[2]),
         lastTextLine |-> Joined(Slice(LinesOf(last), first, lastEnd + 1)),
         newTextLine |-> Joined(Slice(LinesOf(new), first, newEnd + 1))]
      Between(start, ends) ==
        Change(start, ends, LineAt(new, start), LineAt(last, ends[1]), LineAt(new, ends[2]))
  IN Between(SameAtStart(last, new), Ends(last, new))

\* What maj_highlight parses of it: the search went one character too far.
Reparsed(ch, begin) ==
  ch.newTextLine \o (IF begin = <<>> /\ ch.posLastEnd = -1 THEN <<NL>> ELSE <<>>)

\* Whether the lines taken for unchanged are unchanged.
Located(last, new, ch) ==
  LET begin == Before(LinesOf(last), ch.lineStart)
  IN LinesOf(new) = begin \o LinesOf(Reparsed(ch, begin))
                      \o From(LinesOf(last), ch.lineLastEnd + 1)

-----------------------------------------------------------------------------
(* regexp.js. Tags are characters of their own: "<" opens a span, ">" ends it. *)
\* comment_or_quote: one that is not closed is a span without an end, but for
\* the m flag, with which its own mark at the end of a line counts as the end.
Unclosed(s, open) == IF open = Len(s) \/ s[open + 1] = NL THEN <<">">> ELSE <<>>

colorize_text(s) ==
  LET go[i \in Nat, open \in Nat] ==   \* open: where the quote began, or 0
        CASE i > Len(s) -> IF open = 0 THEN <<>> ELSE Unclosed(s, open)
          [] i <= Len(s) /\ s[i] # Quote -> <<s[i]>> \o go[i + 1, open]
          [] i <= Len(s) /\ s[i] = Quote ->
               IF open = 0 THEN <<"<", Quote>> \o go[i + 1, i]
                           ELSE <<Quote, ">">> \o go[i + 1, 0]
  IN go[1, 0]

get_syntax_trace(s) == SelectSeq(s, LAMBDA c : c \in {Quote, NL})

-----------------------------------------------------------------------------
(* maj_highlight: only the changed lines are parsed when their marks are as they
   were, or when a line break and blanks are all that was added. *)
SameTrace(ch) ==
  \/ get_syntax_trace(ch.newTextLine) = get_syntax_trace(ch.lastTextLine)
  \/ /\ get_syntax_trace(ch.newTextLine) = <<NL>> \o get_syntax_trace(ch.lastTextLine)
     /\ NL \in ToSet(ch.newText) /\ ToSet(ch.newText) \subseteq {NL, Blank}
     /\ ch.lastText = <<>>

StayBegin(html, ch) ==
  Joined(Before(LinesOf(html), ch.lineStart)) \o (IF ch.lineStart > 0 THEN <<NL>> ELSE <<>>)
StayEnd(html, ch) ==
  LET kept == Joined(From(LinesOf(html), ch.lineLastEnd + 1))
  IN IF kept = <<>> THEN <<>> ELSE <<NL>> \o kept

BalancedAlways(html) == TRUE   \* mutant: no final check for span tags
Balanced(html) == Occurs(html, "<") = Occurs(html, ">")

Rendered(v, new, ch) ==
  LET begin == StayBegin(v.html, ch)
      end == StayEnd(v.html, ch)
  IN CASE v.reload -> colorize_text(new)
       [] ~v.reload /\ new = <<>> -> colorize_text(<<NL, Blank>>)
       [] OTHER -> IF SameTrace(ch) /\ Balanced(begin) /\ Balanced(end)
                   THEN begin \o colorize_text(Reparsed(ch, begin)) \o end
                   ELSE colorize_text(new)

\* A reload of a text that is as highlighted last is put off.
maj_highlight(v, new) ==
  LET Parsed(ch) ==
        [v EXCEPT !.of = new, !.html = Rendered(v, new, ch), !.reload = FALSE,
                  !.misled = /\ ~v.reload /\ new # <<>>
                             /\ v.misled \/ ~Located(v.of, new, ch)]
  IN IF v.of = new THEN v ELSE Parsed(Evolution(v.of, new))

\* get_selection_infos
Infos(s, start, end) ==
  [line_start |-> LineAt(s, start) + 1,
   line_nb |-> Occurs(Slice(s, start, end), NL) + 1,
   nb_line |-> Occurs(s, NL) + 1]

\* Nothing is looked at when neither the highlighting nor the selection is shown.
check_line_selection(m, v, s, start, end) ==
  LET infos == Infos(s, start, end)
      due == m.highlight /\ (v.reload \/ (s # v.of /\ (m.wrap \/ infos # v.last)))
  IN IF m.highlight \/ m.smooth
     THEN [(IF due THEN maj_highlight(v, s) ELSE v) EXCEPT !.last = infos]
     ELSE v

resync_highlight(v) == [v EXCEPT !.reload = TRUE, !.of = <<>>]

area_select(v, s, start, length) ==
  check_line_selection(mode, v, s, Clamped(s, start),
                       Clamped(s, Clamped(s, start) + length))

Init ==
  /\ text \in Opened /\ edits = 0
  /\ mode = [highlight |-> TRUE, smooth |-> TRUE, wrap |-> FALSE]
  /\ view = [last |-> [line_start |-> 0, line_nb |-> 0, nb_line |-> 0],
             of |-> <<>>, html |-> <<>>, reload |-> FALSE, misled |-> FALSE]

-----------------------------------------------------------------------------
(* What the user does, with the selection from start to end. *)
Replaced(s, start, end, new) == Before(s, start) \o new \o From(s, end)

\* A key, a paste or a cut: the browser's own doing.
Enter(start, end, new) ==
  /\ text' = Replaced(text, start, end, new)
  /\ UNCHANGED <<mode, view>>

\* press_enter: the new line starts with the blanks of this one.
Indent(s, start) ==
  LET line == Substring(s, LineStart(s, start), start)
      blanks == {i \in 0..Len(line) : ToSet(Before(line, i)) \subseteq {Blank}}
  IN Before(line, Max(blanks))

press_enter(start, end) ==
  LET new == <<NL>> \o Indent(text, start)
  IN /\ Indent(text, start) # <<>>
     /\ text' = Replaced(text, start, end, new)
     /\ view' = area_select(view, text', start + Len(new), 0)
     /\ UNCHANGED mode

\* tab_selection: a blank at the caret, or before every line of the selection.
Indented(s) == Joined([i \in DOMAIN LinesOf(s) |-> <<Blank>> \o LinesOf(s)[i]])
Tabbed(s, start, end) ==
  IF start = end
  THEN Replaced(s, start, end, <<Blank>>)
  ELSE LET first == LineStart(s, start)
       IN Replaced(s, first, end, Indented(Substring(s, first, end)))

\* invert_tab_selection
Unindented(s) ==
  Joined([i \in DOMAIN LinesOf(s) |->
    LET line == LinesOf(s)[i]
    IN IF Before(line, 1) = <<Blank>> THEN Tail(line) ELSE line])
Untabbed(s, start, end) ==
  IF start = end
  THEN IF start > 0 /\ Slice(s, start - 1, start) = <<Blank>>
       THEN Replaced(s, start - 1, end, <<>>) ELSE s
  ELSE LET first == LineStart(s, start)
       IN Replaced(s, first, end, Unindented(Substring(s, first, end)))

tab_selection(start, end) ==
  /\ text' = Tabbed(text, start, end)
  /\ UNCHANGED <<mode, view>>

invert_tab_selection(start, end) ==
  /\ text' = Untabbed(text, start, end)
  /\ UNCHANGED <<mode, view>>

\* go_to_line: where the line starts
PositionOf(s, line) ==
  IF line > Len(LinesOf(s)) THEN Len(s)
  ELSE Len(Joined(Before(LinesOf(s), line - 1))) + (IF line > 1 THEN 1 ELSE 0)

go_to_line(line) ==
  /\ view' = area_select(view, text, PositionOf(text, line), 0)
  /\ UNCHANGED <<text, mode>>

\* scroll_page: the line that comes after the ones passed over. By the direction
\* of the selection it is counted from its first or its last line.
LinesPassed(dir, page) ==
  LET first == view.last.line_start
      last == first + view.last.line_nb - 1
  IN { Greatest(0, Least(Len(LinesOf(text)), line)) : line \in
         IF dir = "up" THEN {first - page, last - page}
                       ELSE {first + page - 1, last + page - 1} }

\* The column was 0 or another. Going down, the caret gets as far right as it
\* was, in a shorter line into the next ones.
Columns(dir, passed) ==
  {0, IF dir = "up" THEN Len(LinesOf(text)[Least(passed + 1, Len(LinesOf(text)))])
      ELSE Len(text)}

scroll_page(dir, page, length) ==
  /\ view.last.line_start > 0   \* a selection was looked at before
  /\ \E passed \in LinesPassed(dir, page) : \E column \in Columns(dir, passed) :
       LET start == Clamped(text, PositionOf(text, passed + 1) + column)
       IN view' = check_line_selection(mode, area_select(view, text, start, length), text,
                                       start, Clamped(text, start + length))
  /\ UNCHANGED <<text, mode>>

\* area_search, from a position on and else from the start
Searched(v, s, from, needle) ==
  LET pos == IndexOf(s, needle, from)
      begin == IF pos = -1 THEN IndexOf(s, needle, 0) ELSE pos
  IN IF begin = -1 THEN v ELSE area_select(v, s, begin, Len(needle))

\* A search leaves what is selected behind; a replace that is not on what is
\* searched for only looks for it.
area_search(start, needle) ==
  /\ \/ view' = Searched(view, text, start + Len(needle), needle)
     \/ IndexOf(text, needle, start) # start /\ view' = Searched(view, text, start, needle)
  /\ UNCHANGED <<text, mode>>

\* area_replace: only what is selected is replaced, and the next one selected.
area_replace(start, needle, new) ==
  /\ IndexOf(text, needle, start) = start
  /\ text' = Replaced(text, start, start + Len(needle), new)
  /\ view' = Searched(area_select(view, text', start, Len(needle)), text',
                      Least(start, Len(text')) + Len(needle), needle)
  /\ UNCHANGED mode

\* area_replace_all. split and join, when the case is to match:
AllReplaced(s, needle, new) ==
  LET go[start \in Nat] ==
        LET pos == IndexOf(s, needle, start)
        IN IF pos = -1 THEN From(s, start)
           ELSE Substring(s, start, pos) \o new \o go[pos + Len(needle)]
  IN go[0]

\* else the next one is looked for from the next character on.
AllReplacedFromNext(s, needle, new) ==   \* mutant: the text too goes on from the next character
  LET go[start \in Nat, pos \in Int] ==
        IF pos = -1 THEN From(s, start)
        ELSE Substring(s, start, pos) \o new
               \o go[pos + 1, IndexOf(s, needle, pos + 1)]
  IN go[0, IndexOf(s, needle, 0)]
AllReplacedCaseless(s, needle, new) ==
  LET go[start \in Nat, pos \in Int] ==
        IF pos = -1 THEN From(s, start)
        ELSE Substring(s, start, pos) \o new
               \o go[pos + Len(needle), IndexOf(s, needle, pos + 1)]
  IN go[0, IndexOf(s, needle, 0)]

area_replace_all(needle, new) ==
  /\ text' \in {AllReplaced(text, needle, new), AllReplacedCaseless(text, needle, new)}
  /\ UNCHANGED <<mode, view>>

-----------------------------------------------------------------------------
(* What the page may ask for with edit_area_loader.js, while the editor is shown. *)
\* setValue leaves the caret at the end.
WithValue(new) == check_line_selection(mode, view, new, Len(new), Len(new))

\* getSelectedText and setSelectedText
SelectedText(start, end) == Substring(text, start, end)
WithSelected(start, end, new) ==
  area_select(WithValue(Replaced(text, start, end, new)), Replaced(text, start, end, new),
              start, Len(new))

setSelectedText(start, end, new) ==
  /\ text' = Replaced(text, start, end, new)
  /\ view' = WithSelected(start, end, new)
  /\ UNCHANGED mode

\* The caret comes after the tags, or between them when nothing was selected.
insertTags(start, end, open, close) ==
  LET new == open \o SelectedText(start, end) \o close
      caret == start + (IF end > start THEN Len(new) ELSE Len(open))
  IN /\ text' = Replaced(text, start, end, new)
     /\ view' = area_select(WithSelected(start, end, new), text', caret, 0)
     /\ UNCHANGED mode

setSelectionRange(start, end) ==
  /\ view' = area_select(view, text, start, end - start)
  /\ UNCHANGED <<text, mode>>

-----------------------------------------------------------------------------
(* The editor's own doing. *)
\* undo, redo and the display of another file
Restore(new, start) ==
  /\ text' = new
  /\ view' = LET selected == area_select(view, new, start, 0)
             IN check_line_selection(mode, resync_highlight(selected), new, start, start)
  /\ UNCHANGED mode

\* The timer, every 50 ms
Timer(start, end) ==
  /\ view' = check_line_selection(mode, view, text, start, end)
  /\ UNCHANGED <<text, mode>>

\* Without highlighting, the selection is shown again the way it was before.
change_highlight ==
  /\ mode' = [mode EXCEPT !.highlight = ~@]
  /\ view' = IF mode.highlight THEN view ELSE resync_highlight(view)
  /\ UNCHANGED text

change_smooth_selection_mode ==
  /\ ~mode.highlight
  /\ mode' = [mode EXCEPT !.smooth = ~@]
  /\ UNCHANGED <<text, view>>

\* set_word_wrap: the textarea is put into the page again and selected in.
toggle_word_wrap(start, end) ==
  /\ mode' = [mode EXCEPT !.wrap = ~@]
  /\ view' = check_line_selection(mode', area_select(view, text, start, end - start),
                                  text, start, end)
  /\ UNCHANGED text

\* The button of the toolbar, which also works when it looks disabled.
reset_highlight(start, end) ==
  /\ view' = check_line_selection(mode, resync_highlight(view), text, start, end)
  /\ UNCHANGED <<text, mode>>

Edit ==
  \/ \E start \in 0..Len(text), end \in 0..Len(text) :
       /\ end - start \in 0..MaxEntry
       /\ \/ \E new \in BoundedSeq(Chars, MaxEntry) : Enter(start, end, new)
          \/ press_enter(start, end)
          \/ tab_selection(start, end)
          \/ invert_tab_selection(start, end)
          \/ \E new \in BoundedSeq(Chars, MaxEntry) : setSelectedText(start, end, new)
          \/ insertTags(start, end, <<Quote>>, <<Quote>>)
  \/ \E needle \in Needles, new \in BoundedSeq(Chars, MaxEntry) :
       \/ \E start \in 0..Len(text) : area_replace(start, needle, new)
       \/ area_replace_all(needle, new)
  \/ \E new \in Restored : \E start \in 0..Len(new) : Restore(new, start)

Look ==
  \/ \E start \in 0..Len(text), end \in 0..Len(text) :
       /\ end - start \in 0..MaxEntry
       /\ Timer(start, end)
  \/ \E start \in {0, Len(text)} :   \* the timer comes to other selections
       \/ setSelectionRange(start, start + MaxEntry)
       \/ toggle_word_wrap(start, start) \/ reset_highlight(start, start)
       \/ \E needle \in Needles : area_search(start, needle)
  \/ \E line \in 0..(Occurs(text, NL) + 2) : go_to_line(line)
  \/ \E dir \in {"up", "down"}, length \in 0..MaxEntry : scroll_page(dir, PageLines, length)
  \/ change_highlight \/ change_smooth_selection_mode

Next ==
  \/ edits < MaxEdits /\ Edit /\ Len(text') <= MaxLen /\ edits' = edits + 1
  \/ Look /\ UNCHANGED edits

Spec == Init /\ [][Next]_vars

-----------------------------------------------------------------------------
(* Line breaks and blanks at the end are not told apart: of an empty text a
   blank line stays below what is typed next. *)
Trim(s) ==
  LET ends == {i \in 0..Len(s) : ToSet(From(s, i)) \subseteq {NL, Blank}}
  IN Before(s, Min(ends))

(* What is shown is what highlighting the whole text would show, although only
   changed lines are parsed. Three exceptions: changes that were misplaced (see
   ChangeLocated); a reload that is put off because the text is empty, when what
   was shown before stays; and a quote that is left open, which ends where the
   line ends, or the text, by the way its line was parsed. *)
HighlightRight ==
  ~view.reload /\ ~view.misled /\ Occurs(view.of, Quote) % 2 = 0 =>
    Trim(view.html) = Trim(colorize_text(view.of))

(* The lines taken for unchanged are unchanged, however the text changed, unless
   the search for the end ran past the start of a text: there substr counts from
   the end again. *)
RanPast(last, new) == \E end \in ToSet(EndsAsSearched(last, new)) : end < 0
ChangeLocated ==
  ~RanPast(view.of, text) => Located(view.of, text, Evolution(view.of, text))

(* Replacing all gives the same text in both ways, although the caseless one looks
   for the next match from the next character on and not from the end of the match.
   The exception is a text in which two matches overlap: there it takes both, and
   writes text twice. *)
Matches(s, needle) == {i \in 0..Len(s) : IndexOf(s, needle, i) = i}
Overlapping(s, needle) == \E i \in Matches(s, needle) : \E j \in Matches(s, needle) :
                            j \in (i + 1)..(i + Len(needle) - 1)
ReplacedOnce ==
  \A needle \in Needles, new \in BoundedSeq(Chars, MaxEntry) :
    ~Overlapping(text, needle) =>
      AllReplacedCaseless(text, needle, new) = AllReplaced(text, needle, new)

=============================================================================
