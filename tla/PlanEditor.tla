----------------------------- MODULE PlanEditor -----------------------------
(* The page of test plans (testPlans.js, with views.js and divList.js) and the
   calls it makes. Every opening of the view runs the handler again: a closure
   with its own currentTestPlanId, to which the buttons are bound anew, while the
   editor, the heading and the rows of the list are those of the document. What
   was asked for in an earlier opening is answered in the later one. Calls are
   served, and their answers come, in any order. *)
EXTENDS EditorLoader, FiniteSets, TLC

CONSTANTS Plans,      \* ids of test plans
          Stored,     \* Stored[p]: what it holds, for those there are at first
          NoPlan,     \* undefined
          AddNew,     \* the last row of the list
          MaxOpens,   \* bound: openings of the view
          MaxActs,    \* bound: what the user does, openings included
          MaxCalls    \* bound: calls under way while the user goes on

ASSUME PlansAssumption ==
  /\ {NoPlan, AddNew} \cap Plans = {} /\ NoPlan # AddNew
  /\ DOMAIN Stored \subseteq Plans
ASSUME BoundsAssumption == {MaxOpens, MaxActs, MaxCalls} \subseteq Nat

VARIABLES
  opened,    \* openings so far; the newest closure
  current,   \* current[g]: currentTestPlanId of closure g
  heading,   \* the plan named above the editor
  rows,      \* rows[p]: the closures that added a row of p, in order; a row has
             \* the handlers of its own closure and of the later ones
  calls,     \* calls not answered, or whose answer is under way
  plans, source,   \* in the service
  acts,      \* bound
  \* history variables
  settled    \* the answer to the last click came to the newest closure, and
             \* none after it

page == <<opened, current, heading, rows>>
service == <<plans, source>>
vars == <<loaderVars, page, calls, service, acts, settled>>

\* A text is of a plan, was loaded by a closure, and is what it is.
Blank == [of |-> NoPlan, by |-> 0, is |-> "empty"]
ASSUME TextAssumption == NoText = Blank   \* the page's textarea is empty
Edited(text) == [text EXCEPT !.is = "new"]
\* What a plan has that no closure has saved
Unsaved(p, is) == [text |-> [of |-> p, by |-> 0, is |-> is], saver |-> 0]

Init ==
  /\ InitLoader
  /\ opened = 0 /\ current = [g \in 1..MaxOpens |-> NoPlan] /\ heading = NoPlan
  /\ rows = [p \in Plans \union {AddNew} |-> <<>>]
  /\ calls = {}
  /\ plans = DOMAIN Stored
  /\ source = [p \in DOMAIN Stored |-> Unsaved(p, Stored[p])]
  /\ acts = 0 /\ settled = FALSE

Call(op, g, p, text) == [op |-> op, gen |-> g, plan |-> p, text |-> text,
                         last |-> FALSE, answered |-> FALSE, n |-> 0]
\* The calls of a handler, told apart by a number
Ask(others, new) ==
  LET used == { c.n : c \in others }
      top == CHOOSE k \in used \union {0} : \A n \in used : n <= k
  IN calls' = others \union { [new[i] EXCEPT !.n = top + i] : i \in DOMAIN new }

-----------------------------------------------------------------------------
(* The user *)
RefreshTestPlanList(others, g) ==
  /\ rows' = [p \in DOMAIN rows |-> <<>>]   \* DivList_Clear
  /\ Ask(others, <<Call("list", g, NoPlan, Blank)>>)

OpenView ==
  /\ opened < MaxOpens /\ opened' = opened + 1
  /\ editor' = init(editor, scripts)
  /\ hurried' = (hurried \/ editor.starts > 0)
  /\ toggled' = FALSE /\ settled' = FALSE
  /\ IF Throws(editor) THEN UNCHANGED <<rows, calls>>
     ELSE RefreshTestPlanList(calls, opened')
  /\ UNCHANGED <<scripts, content, current, heading, service>>

ClickPlan(p) ==
  \E j \in DOMAIN rows[p] :
    LET handlers == SubSeq(rows[p], j, Len(rows[p]))
    IN /\ heading' = p
       /\ Ask({ [c EXCEPT !.last = FALSE] : c \in calls },
              [i \in DOMAIN handlers |->
                 [Call("load", handlers[i], p, Blank) EXCEPT !.last = (i = Len(handlers))]])
       /\ settled' = FALSE
       /\ UNCHANGED <<loaderVars, opened, current, rows, service>>

\* "Add New...": only an empty name creates nothing.
ClickAdd ==
  \E j \in DOMAIN rows[AddNew] :
    LET handlers == SubSeq(rows[AddNew], j, Len(rows[AddNew]))
    IN /\ Ask(calls, [i \in DOMAIN handlers |-> Call("create", handlers[i], NoPlan, Blank)])
       /\ UNCHANGED <<loaderVars, page, service, settled>>

\* With no plan, or an editor that is not ready, the buttons lead to an error.
Save ==
  /\ opened > 0 /\ ~Throws(editor) /\ current[opened] # NoPlan
  /\ Ask(calls, <<Call("save", opened, current[opened], getValue(editor))>>)
  /\ UNCHANGED <<loaderVars, page, service, settled>>

Delete ==
  /\ opened > 0 /\ current[opened] # NoPlan
  /\ Ask(calls, <<Call("delete", opened, current[opened], Blank)>>)
  /\ UNCHANGED <<loaderVars, page, service, settled>>

Write ==
  /\ Type(Edited)
  /\ UNCHANGED <<page, calls, service, settled>>

Switch ==
  /\ Toggle
  /\ UNCHANGED <<page, calls, service, settled>>

-----------------------------------------------------------------------------
(* The calls are served, and answered, in any order. A plan that is not there is
   an error, which the page is not told of; the answer to a save only hides the
   sign that it is under way. Only for a source, the time its answer takes is
   told apart. *)
Refused(c) ==
  /\ c.op \in {"load", "save", "delete"} /\ ~c.answered /\ c.plan \notin plans
  /\ calls' = calls \ {c}
  /\ UNCHANGED <<loaderVars, page, service, settled>>

SetSource(c) ==
  /\ c.op = "save" /\ c.plan \in plans /\ calls' = calls \ {c}
  /\ source' = [source EXCEPT ![c.plan] = [text |-> c.text, saver |-> c.gen]]
  /\ UNCHANGED <<loaderVars, page, plans, settled>>

GetSource(c) ==
  /\ c.op = "load" /\ c.plan \in plans /\ ~c.answered
  /\ calls' = (calls \ {c}) \union
       {[c EXCEPT !.answered = TRUE,
                  !.text = [of |-> c.plan, by |-> c.gen, is |-> source[c.plan].text.is]]}
  /\ UNCHANGED <<loaderVars, page, service, settled>>

\* mutants: the plan clicked last; a reply without text is taken for an error
LoadedLatest(c, was) == heading
LoadedUnlessEmpty(c, was) == IF c.text.is = "empty" THEN was ELSE c.plan
Loaded(c, was) == c.plan

LoadTestPlanSource(c) ==
  /\ c.op = "load" /\ c.answered /\ calls' = calls \ {c}
  /\ IF Throws(editor) THEN UNCHANGED <<editor, content, current, settled>>
     ELSE /\ editor' = setValue(editor, c.text) /\ content' = c.text
          /\ current' = [current EXCEPT ![c.gen] = Loaded(c, @)]
          /\ settled' = (c.last /\ c.gen = opened)
  /\ UNCHANGED <<scripts, hurried, toggled, opened, heading, rows, service>>

AddPlans(c) ==
  /\ c.op = "list" /\ calls' = calls \ {c}
  /\ rows' = [p \in DOMAIN rows |->
       IF p \in plans \union {AddNew} THEN Append(rows[p], c.gen) ELSE rows[p]]
  /\ UNCHANGED <<loaderVars, opened, current, heading, service, settled>>

Changed(c) ==
  /\ \/ /\ c.op = "create"
        /\ \E p \in Plans \ DOMAIN source :
             /\ plans' = plans \union {p}
             /\ source' = [q \in DOMAIN source \union {p} |->
                  IF q = p THEN Unsaved(p, "empty") ELSE source[q]]
     \/ /\ c.op = "delete" /\ c.plan \in plans
        /\ plans' = plans \ {c.plan} /\ UNCHANGED source
  /\ RefreshTestPlanList(calls \ {c}, c.gen)
  /\ UNCHANGED <<loaderVars, opened, current, heading, settled>>

Answer(c) ==
  Refused(c) \/ SetSource(c) \/ GetSource(c) \/ LoadTestPlanSource(c) \/ AddPlans(c)
  \/ Changed(c)

-----------------------------------------------------------------------------
User ==
  /\ acts < MaxActs /\ acts' = acts + 1 /\ Cardinality(calls) < MaxCalls
  /\ \/ OpenView \/ ClickAdd \/ Save \/ Delete \/ Write \/ Switch
     \/ \E p \in Plans : ClickPlan(p)

Loader ==
  LoaderNext /\ UNCHANGED <<page, calls, service, acts, settled>>

Next ==
  \/ User \/ Loader
  \/ \E c \in calls : Answer(c) /\ UNCHANGED acts

\* Timers fire, and the scripts and the iframes are loaded in the end.
Spec == Init /\ [][Next]_vars /\ WF_vars(Loader)

-----------------------------------------------------------------------------
(* Saving writes into a plan what was loaded of that plan, in whatever order the
   user clicks and the answers come. Two exceptions: a text that was loaded by
   another opening than the one that saves it, which an answer that comes after
   the view was opened again leaves in the editor; and everything once the view
   was opened while a start of the editor was pending (hurried), when the page
   reads another iframe than the one it writes. *)
SaveIntoOwn ==
  ~hurried => \A p \in DOMAIN source :
    source[p].text.by = source[p].saver => source[p].text.of = p

(* The text in the editor, edited or not, is of the plan that the buttons of the
   opening that loaded it act on, in whatever order the answers come. The heading,
   which the click sets, names that plan too, if the answer that came last is that
   of the last click and came to the newest opening (settled): an older one that
   overtook it leaves the other heading, until the next click. Nothing is said once
   the view was opened while a start of the editor was pending (hurried), or while
   the editor is on and its iframe not ready. *)
ShownIsCurrent ==
  ~hurried /\ ~Throws(editor) =>
    LET shown == getValue(editor)
    IN /\ \A g \in 1..opened : shown.by = g => current[g] = shown.of
       /\ settled => current[opened] = heading /\ shown.of = heading

(* What was written last, by the user or by an answer, is what the page would save,
   through any loading, switching and deleting of editors, and nothing the page does
   finds an editor that is not ready. The exception is everything once the view was
   opened while a start was pending (hurried): both starts then make an iframe, and
   the page uses another one than the user. *)
TextKept == ~hurried => ~Throws(editor) /\ getValue(editor) = content

(* An editor appears after every opening, also after those that failed, unless
   the user switches it off. *)
EditorAppears == opened > 0 /\ editor.area # "on" ~> editor.area = "on" \/ toggled
=============================================================================
