---------------------------- MODULE EditorLoader ----------------------------
(* How the editor replaces the page's textarea (edit_area_loader.js, and the
   constructor and init of edit_area.js). An editor is an iframe behind the
   textarea, started by a timer that waits for the scripts, and shown when its
   own init has run. All iframes of a textarea have one name, by which the loader
   finds the one nearest to the textarea: the newest. *)
EXTENDS Naturals, Sequences, SequencesExt

CONSTANT NoText   \* the text of a textarea nobody has written in

VARIABLES
  editor,     \* [area, frames, base, starts]: editAreas[id] and whether it is
              \* displayed, the iframes in the order of the tree, the textarea,
              \* and the timers of start
  scripts,    \* window_loaded has run, the language and the syntax are there
  \* history variables
  content,    \* the text last written in the editor, by the user or the page
  hurried,    \* the view was opened while a start was pending
  toggled     \* the user has switched the editor off

loaderVars == <<editor, scripts, content, hurried, toggled>>

Start == [area |-> "none", frames |-> <<>>, base |-> [text |-> NoText, shown |-> TRUE],
          starts |-> 0]

\* window.frames[...].editArea.textarea is there only when init has begun.
Ready(e) == e.frames # <<>> /\ e.frames[1].state # "loading"

\* Nothing but displayed changes if the iframe is not ready: an exception follows.
toggle_off(e) ==
  IF Ready(e)
  THEN [e EXCEPT !.area = "off", !.frames[1].shown = FALSE,
                 !.base = [text |-> e.frames[1].text, shown |-> TRUE]]
  ELSE [e EXCEPT !.area = "off"]

toggle_on(e) ==
  IF Ready(e)
  THEN [e EXCEPT !.area = "on", !.frames[1].shown = TRUE,
                 !.frames[1].text = e.base.text, !.base.shown = FALSE]
  ELSE e

toggle(e, to) ==
  CASE to = "off" /\ e.area = "on" -> toggle_off(e)
    [] to = "on" /\ e.area = "off" -> toggle_on(e)
    [] OTHER -> e

delete_untoggled(e) ==   \* mutant: the text is left in the iframe
  [e EXCEPT !.area = "none", !.frames = IF @ = <<>> THEN @ ELSE Tail(@),
            !.base.shown = TRUE]
\* One iframe is removed, the first.
delete_instance(e) ==
  LET closed == IF e.frames = <<>> THEN e ELSE toggle(e, "off")
  IN [closed EXCEPT !.area = "none", !.frames = IF @ = <<>> THEN @ ELSE Tail(@)]

NewFrame == [text |-> NoText, state |-> "loading", shown |-> FALSE]

start_once(e, loaded) ==   \* mutant: the timer is not set again
  IF loaded THEN [e EXCEPT !.frames = <<NewFrame>> \o @] ELSE e
start(e, loaded) ==
  IF loaded THEN [e EXCEPT !.frames = <<NewFrame>> \o @]
  ELSE [e EXCEPT !.starts = @ + 1]

\* init throws in delete_instance when the editor is displayed and the iframe
\* in front is not ready; there is no other editor then.
Throws(e) == e.area = "on" /\ ~Ready(e)
init(e, loaded) ==
  IF Throws(e) THEN toggle_off(e)
  ELSE LET fresh == IF e.area = "none" THEN e ELSE delete_instance(e)
       IN start([fresh EXCEPT !.area = "off"], loaded)

getValue(e) == IF e.area = "on" THEN e.frames[1].text ELSE e.base.text

setValue(e, text) ==
  IF e.area = "on" THEN [e EXCEPT !.frames[1].text = text]
  ELSE [e EXCEPT !.base.text = text]

-----------------------------------------------------------------------------
InitLoader ==
  /\ editor = Start /\ scripts = FALSE
  /\ content = NoText /\ hurried = FALSE /\ toggled = FALSE

\* The timer finds nothing to do but wait until the scripts are there.
StartTimer ==
  /\ editor.starts > 0 /\ scripts
  /\ editor' = start([editor EXCEPT !.starts = @ - 1], scripts)
  /\ UNCHANGED <<scripts, content, hurried, toggled>>

\* What polls in vain until then is left out, but not that it polls again.
ScriptsLoad ==
  /\ ~scripts /\ scripts' = TRUE
  /\ UNCHANGED <<editor, content, hurried, toggled>>

\* EditArea.init: it switches the editor on, whichever iframe that shows; if
\* another one is in front and is not ready, the rest of init is never run.
FrameInit ==
  \E i \in DOMAIN editor.frames :
    LET begun == [editor EXCEPT !.frames[i].state = "running"]
        fails == begun.area = "off" /\ ~Ready(begun)
    IN /\ editor.frames[i].state = "loading"
       /\ editor' = IF fails THEN [begun EXCEPT !.frames[i].state = "dead"]
                    ELSE toggle(begun, "on")
       /\ UNCHANGED <<scripts, content, hurried, toggled>>

\* The checkbox below the editor
Toggle ==
  /\ editor.frames # <<>>
  /\ editor' = toggle(editor, IF editor.area = "on" THEN "off" ELSE "on")
  /\ toggled' = (toggled \/ editor.area = "on")
  /\ UNCHANGED <<scripts, content, hurried>>

\* The user writes in whatever is shown.
Type(Edited(_)) ==
  /\ \/ /\ editor.base.shown
        /\ editor' = [editor EXCEPT !.base.text = Edited(@)]
        /\ content' = editor'.base.text
     \/ \E i \in DOMAIN editor.frames :
          /\ editor.frames[i].shown /\ editor.frames[i].state = "running"
          /\ editor' = [editor EXCEPT !.frames[i].text = Edited(@)]
          /\ content' = editor'.frames[i].text
  /\ UNCHANGED <<scripts, hurried, toggled>>

LoaderNext == StartTimer \/ ScriptsLoad \/ FrameInit
=============================================================================
