----------------------------- MODULE EditorFiles -----------------------------
(* Undo, redo and the tabs of the source editor (edit_area_functions.js, with the
   timers of keyboard.js). A file has its own text and its own history; those of
   the file shown are in the editor and are saved when another one is shown. The
   text is recorded every three seconds, not at every key; whether a redo is
   still allowed, and whether the tab gets its mark, is looked at ten milliseconds
   after a key, but not after an edit with the mouse or by the page. The syntax is
   a file's own too, but its script may have to be loaded first: a timer then
   looks for it, whatever is shown by then. *)
EXTENDS Naturals, Sequences, SequencesExt, Functions, TLC

CONSTANTS Ids,       \* names of files
          NoFile,    \* '', shown when every tab is closed
          Texts,     \* what a text can be
          Empty,
          Syntaxes,  \* syntax_list
          Shipped,   \* the one that is loaded with the editor
          MaxUndo,   \* max_undo, 30 in the code
          MaxSteps   \* bound: edits, orders to undo or redo, syntaxes chosen,
                     \* files opened, shown, closed or marked

ASSUME FilesAssumption == NoFile \notin Ids /\ Empty \in Texts /\ Shipped \in Syntaxes
ASSUME FilesBounds == {MaxUndo, MaxSteps} \subseteq Nat

VARIABLES
  text,        \* the textarea's value
  history,     \* previous, next and last_undo of the file shown
  curr_file,
  files,       \* files[id], for the open ones: what is saved of it
  order,       \* their names in the order of the object's properties
  is_editable,
  syntax,      \* now: settings['syntax'], loaded: load_syntax, waits: timers of
               \* change_syntax
  redoDue, changesDue,   \* timers of keyDown that have not run yet
  steps,       \* bound
  \* history variables
  typed,       \* typed[id]: the text the user left in the file
  had,         \* had[id]: every text it had since it was opened
  unseen,      \* the last change came without a key
  meant,       \* meant[id]: the syntax last asked for in the file
  strayed,     \* another one, or another file, was asked for before the timer
  unmarked     \* files changed so, or left before the timer ran, or opened again

syntaxVars == <<syntax, meant, strayed>>
timers == <<redoDue, changesDue>>
tabs == <<curr_file, files, order, is_editable, syntaxVars>>
ghosts == <<typed, had, unseen, unmarked>>
filesVars == <<text, history, tabs, timers, steps, ghosts>>

NoHistory == [previous |-> <<>>, next |-> <<>>, last_undo |-> Empty]
NewFileSharing(new, s) ==   \* mutant: one list for all files
  [text |-> new, history |-> history, edited |-> FALSE, compare |-> new, syntax |-> s]
NewFile(new, s) ==
  [text |-> new, history |-> NoHistory, edited |-> FALSE, compare |-> new, syntax |-> s]

InitFiles ==
  /\ text = Empty /\ history = NoHistory /\ curr_file = NoFile
  /\ \/ files = <<>> /\ order = <<>>
     \/ /\ files = [f \in {NoFile} |-> NewFile(Empty, Shipped)]   \* is_multi_files
        /\ order = <<NoFile>>
  /\ is_editable = TRUE
  /\ syntax = [now |-> Shipped, loaded |-> {Shipped}, waits |-> [s \in Syntaxes |-> 0]]
  /\ meant = [id \in Ids \union {NoFile} |-> Shipped] /\ strayed = FALSE
  /\ redoDue = FALSE /\ changesDue = FALSE /\ steps = 0
  /\ typed = [id \in Ids \union {NoFile} |-> Empty]
  /\ had = [id \in Ids \union {NoFile} |-> {Empty}]
  /\ unseen = FALSE /\ unmarked = {}

Becomes(new) ==
  /\ text' = new
  /\ typed' = [typed EXCEPT ![curr_file] = new]
  /\ had' = [had EXCEPT ![curr_file] = @ \union {new}]

-----------------------------------------------------------------------------
(* Undo and redo *)
Recorded(previous, new) ==   \* check_undo
  IF previous # <<>> /\ Last(previous) = new THEN previous
  ELSE LET longer == Append(previous, new)
       IN IF Len(longer) > MaxUndo + 1 THEN Tail(longer) ELSE longer

check_undo ==   \* every three seconds
  /\ history' = [history EXCEPT !.previous = Recorded(@, text)]
  /\ UNCHANGED <<text, tabs, timers, ghosts>>

KeptAlways(next, last_undo, new) == next   \* mutant: a redo stays possible
Kept(next, last_undo, new) == IF new # last_undo THEN <<>> ELSE next

check_redo ==   \* the timer
  /\ redoDue /\ redoDue' = FALSE
  /\ history' = [history EXCEPT !.next = Kept(@, history.last_undo, text)]
  /\ unseen' = FALSE
  /\ UNCHANGED <<text, tabs, changesDue, typed, had, unmarked>>

MarkedForGood(id, new) ==   \* mutant: the mark stays when a change is undone
  IF id \in DOMAIN files \ {NoFile} /\ files[id].compare # new
  THEN [files EXCEPT ![id].edited = TRUE] ELSE files
Marked(id, new) ==   \* check_file_changes; '' has no tab
  IF id \in DOMAIN files \ {NoFile}
  THEN LET same == files[id].compare = new
       IN [files EXCEPT ![id].edited = ~same]
  ELSE files

check_file_changes ==   \* the timer
  /\ changesDue /\ changesDue' = FALSE
  /\ files' = Marked(curr_file, text) /\ unmarked' = unmarked \ {curr_file}
  /\ UNCHANGED <<text, history, curr_file, order, is_editable, syntaxVars, redoDue, typed, had, unseen>>

\* The entry that is the text shown is skipped.
undo ==
  /\ history.previous # <<>>
  /\ LET skip == Last(history.previous) = text /\ Len(history.previous) > 1
         rest == IF skip THEN Front(history.previous) ELSE history.previous
         new == Last(rest)
     IN /\ Becomes(new)
        /\ history' = [previous |-> Front(rest), next |-> Append(history.next, text),
                       last_undo |-> new]
        /\ files' = Marked(curr_file, new)
  /\ unseen' = FALSE /\ unmarked' = unmarked \ {curr_file}
  /\ UNCHANGED <<curr_file, order, is_editable, syntaxVars>>

redo ==
  /\ history.next # <<>>
  /\ LET new == Last(history.next)
     IN /\ Becomes(new)
        /\ history' = [previous |-> Append(history.previous, new),
                       next |-> Front(history.next), last_undo |-> new]
        /\ files' = Marked(curr_file, new)
  /\ unseen' = FALSE /\ unmarked' = unmarked \ {curr_file}
  /\ UNCHANGED <<curr_file, order, is_editable, syntaxVars>>

\* keyDown starts the timers, whatever the key does then: the redo that is left
\* after the command is what it looks at.
TimersOf(next) == redoDue' = (redoDue \/ next # <<>>) /\ changesDue' = TRUE

UndoKey == undo /\ TimersOf(history'.next)
RedoKey == redo /\ TimersOf(history'.next)
UndoButton == undo /\ UNCHANGED timers
RedoButton == redo /\ UNCHANGED timers

Key(new) ==
  /\ Becomes(new) /\ TimersOf(history.next)
  /\ UNCHANGED <<history, tabs, unseen, unmarked>>

\* Page up and down work in any text. That of '' is closed to the browser's own
\* keys, but not to those that keyDown handles, as the Tab key.
keyDown ==
  \/ is_editable /\ (UndoKey \/ RedoKey \/ \E new \in Texts : Key(new))
  \/ ~is_editable /\ Key(text)

set_editable(to) ==
  /\ is_editable' = to
  /\ UNCHANGED <<text, history, curr_file, files, order, syntaxVars, timers, ghosts>>

\* A menu of the browser, a drag, or the page's setValue
Mouse(new) ==
  /\ Becomes(new)
  /\ unseen' = TRUE /\ unmarked' = unmarked \union {curr_file}
  /\ UNCHANGED <<history, tabs, timers>>

-----------------------------------------------------------------------------
(* change_syntax: a script that is not there yet is loaded, and looked for every
   100 milliseconds. *)
SyntaxChanged(sy, s) ==
  CASE s = sy.now -> sy
    [] s # sy.now /\ s \in sy.loaded -> [sy EXCEPT !.now = s]
    [] OTHER -> [sy EXCEPT !.waits[s] = @ + 1]

Waiting == {s \in Syntaxes : syntax.waits[s] > 0}

change_syntax(s) ==
  /\ syntax' = SyntaxChanged(syntax, s)
  /\ meant' = [meant EXCEPT ![curr_file] = s] /\ strayed' = (strayed \/ Waiting # {})
  /\ UNCHANGED <<text, history, curr_file, files, order, is_editable, timers, ghosts>>

SyntaxTimer(s) ==
  /\ s \in Waiting \cap syntax.loaded
  /\ syntax' = [syntax EXCEPT !.now = s, !.waits[s] = @ - 1]
  /\ UNCHANGED <<text, history, curr_file, files, order, is_editable, meant, strayed,
                 timers, ghosts>>

SyntaxLoaded(s) ==
  /\ s \in Waiting \ syntax.loaded
  /\ syntax' = [syntax EXCEPT !.loaded = @ \union {s}]
  /\ UNCHANGED <<text, history, curr_file, files, order, is_editable, meant, strayed,
                 timers, ghosts>>

-----------------------------------------------------------------------------
(* Tabs *)
NothingSaved(id, all) == all   \* mutant: the file shown is not saved
save_file(id, all) ==
  IF id \in DOMAIN all
  THEN [all EXCEPT ![id].text = text, ![id].history = history,
                    ![id].syntax = syntax.now]
  ELSE all

\* display_file, after which the files in closed are forgotten. The list of what
\* was recorded is one object with the saved one; it grows if the editor has the
\* focus.
display_file(id, all, closed) ==
  \E focused \in BOOLEAN :
    LET last == IF focused /\ curr_file \in DOMAIN all
                THEN [all EXCEPT ![curr_file].history.previous = Recorded(@, text)] ELSE all
        saved == last[id].history
    IN /\ files' = Restrict(last, DOMAIN last \ closed)
       /\ curr_file' = id /\ text' = last[id].text /\ UNCHANGED is_editable
       /\ syntax' = SyntaxChanged(syntax, last[id].syntax) /\ strayed' = (strayed \/ Waiting # {})
       /\ history' = [saved EXCEPT !.previous = Recorded(@, text'),
                                   !.next = Kept(@, saved.last_undo, text')]
       /\ unseen' = FALSE
       /\ unmarked' = (IF changesDue \/ id = curr_file
                       THEN unmarked \union {curr_file} ELSE unmarked) \ closed

With(all, id, new, s) ==
  [f \in DOMAIN all \union {id} |-> IF f = id THEN NewFile(new, s) ELSE all[f]]

\* A file opened again gets a new record, into which the text shown is saved if
\* it is the one shown.
open_file(id, new, s) ==
  /\ display_file(id, save_file(curr_file, With(files, id, new, s)), {})
  /\ order' = IF id \in DOMAIN files THEN order ELSE Append(order, id)
  /\ IF id = curr_file THEN UNCHANGED <<typed, had, meant>>
     ELSE /\ typed' = [typed EXCEPT ![id] = new] /\ had' = [had EXCEPT ![id] = {new}]
          /\ meant' = [meant EXCEPT ![id] = s]
  /\ UNCHANGED timers

switch_to_file(id) ==
  /\ id \in DOMAIN files /\ id # curr_file
  /\ display_file(id, save_file(curr_file, files), {})
  /\ UNCHANGED <<order, timers, typed, had, meant>>

Place(id) == CHOOSE i \in DOMAIN order : order[i] = id
Without(id) == IF id \in ToSet(order) THEN RemoveAt(order, Place(id)) ELSE order
\* What is shown next: the file after this one, else the one before it. When
\* there is none, '' is opened, which then stays among the files.
Follower(id) ==
  LET i == Place(id)
  IN IF i < Len(order) THEN order[i + 1] ELSE IF i > 1 THEN order[i - 1] ELSE NoFile

close_file(id) ==
  LET next == Follower(id)
      first == next \notin DOMAIN files
      all == IF first THEN With(files, NoFile, Empty, syntax.now) ELSE files
  IN /\ id \in DOMAIN files /\ id # NoFile
     /\ IF id = curr_file
        THEN /\ display_file(next, save_file(id, all), {id})
             /\ order' = IF first THEN <<NoFile>> ELSE Without(id)
             /\ typed' = IF first THEN [typed EXCEPT ![NoFile] = Empty] ELSE typed
             /\ had' = IF first THEN [had EXCEPT ![NoFile] = {Empty}] ELSE had
             /\ meant' = IF first THEN [meant EXCEPT ![NoFile] = syntax.now] ELSE meant
        ELSE /\ files' = Restrict(files, DOMAIN files \ {id}) /\ order' = Without(id)
             /\ UNCHANGED <<text, history, curr_file, is_editable, syntaxVars, typed, had, unseen, unmarked>>
     /\ UNCHANGED timers

\* The callback refuses: the text shown was saved as that of the file to close,
\* whichever it is.
close_refused(id) ==
  /\ id \in DOMAIN files /\ id # NoFile
  /\ files' = save_file(id, files)
  /\ typed' = [typed EXCEPT ![id] = text] /\ had' = [had EXCEPT ![id] = had[curr_file]]
  /\ meant' = [meant EXCEPT ![id] = IF id = curr_file THEN @ ELSE syntax.now]
  /\ unmarked' = unmarked \union {id}
  /\ UNCHANGED <<text, history, curr_file, order, is_editable, syntax, strayed, timers, unseen>>

get_file ==   \* saved first, if it is the one shown
  /\ files' = save_file(curr_file, files)
  /\ UNCHANGED <<text, history, curr_file, order, is_editable, syntaxVars, timers, ghosts>>

get_all_files ==
  /\ files' = Restrict(save_file(curr_file, files), DOMAIN files \ {NoFile})
  /\ order' = Without(NoFile)
  /\ UNCHANGED <<text, history, curr_file, is_editable, syntaxVars, timers, ghosts>>

set_file_edited_mode(id, to) ==
  /\ id \in DOMAIN files \ {NoFile}
  /\ files' = [files EXCEPT ![id].edited = to,
        ![id].compare = IF to THEN @ ELSE IF id = curr_file THEN text ELSE files[id].text]
  /\ unmarked' = IF to THEN unmarked \union {id} ELSE unmarked \ {id}
  /\ UNCHANGED <<text, history, curr_file, order, is_editable, syntaxVars, timers, typed, had, unseen>>

-----------------------------------------------------------------------------
Edit ==
  \/ keyDown \/ UndoButton \/ RedoButton \/ set_editable(~is_editable)
  \/ \E s \in Syntaxes : change_syntax(s)
  \/ \E new \in Texts : Mouse(new)

Tab ==
  \/ get_file
  \/ \E id \in Ids :
       \/ \E new \in Texts, s \in Syntaxes : open_file(id, new, s)
       \/ switch_to_file(id) \/ close_file(id) \/ close_refused(id)
       \/ \E to \in BOOLEAN : set_file_edited_mode(id, to)

FilesNext ==
  \/ steps < MaxSteps /\ (Edit \/ Tab) /\ steps' = steps + 1
  \/ /\ \/ check_undo \/ check_redo \/ check_file_changes \/ get_all_files
        \/ \E s \in Syntaxes : SyntaxTimer(s) \/ SyntaxLoaded(s)
     /\ UNCHANGED steps

FilesSpec == InitFiles /\ [][FilesNext]_filesVars

-----------------------------------------------------------------------------
(* Every file has the text the user left in it and the syntax asked for, however
   files are opened, closed and shown in between. The exceptions: when closing a
   file that is not shown is refused, it has the text and the syntax of the one
   shown (see typed and meant); and the timer that waits for the script of one
   file's syntax sets it on the file shown by then. *)
TabsKeepText ==
  /\ text = typed[curr_file]
  /\ \A id \in DOMAIN files \ {curr_file} : files[id].text = typed[id]
  /\ ~strayed =>
       /\ Waiting = {} => syntax.now = meant[curr_file]
       /\ \A id \in DOMAIN files \ {curr_file} : files[id].syntax = meant[id]

(* Undo and redo bring back nothing but what this file was, also for files that
   are not shown. *)
OwnHistory ==
  LET Of(h) == ToSet(h.previous) \union ToSet(h.next)
  IN /\ Of(history) \subseteq had[curr_file]
     /\ \A id \in DOMAIN files \ {curr_file} : Of(files[id].history) \subseteq had[id]

(* A redo does not overwrite what was typed after the undo: once the timer of the
   key has run, there is something to redo only while the text is what the undo
   left. Edits without a key start no timer. *)
RedoFollowsUndo ==
  history.next # <<>> /\ ~redoDue /\ ~unseen => text = history.last_undo

(* The mark of the tab shown tells whether its text differs from the one opened
   or marked as saved. Edits without a key, and those of a tab that was left at
   once, are looked at with the next key only. *)
EditedTold ==
  ~changesDue /\ curr_file \in DOMAIN files \ (unmarked \union {NoFile}) =>
    (files[curr_file].edited <=> text # files[curr_file].compare)
=============================================================================
