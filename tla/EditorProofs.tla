----------------------------- MODULE EditorProofs -----------------------------
(* Proofs about the two editors of a plan's text, which are independent of each
   other here: first EditorFiles, for any names, texts, syntaxes, length of the
   history and number of steps, then PlanEditor, for any plans and any bounds (how
   many openings of the view, acts of the user and calls under way there are). *)
EXTENDS PlanEditor, EditorFiles, SequenceTheorems, TLAPS

-----------------------------------------------------------------------------
(* The files of the editor: the inductive invariant. Every file is well formed,
   with histories that are lists of texts, ... *)
Names == Ids \union {NoFile}
IsHistory(h) ==
  /\ DOMAIN h = {"previous", "next", "last_undo"}
  /\ h.previous \in Seq(Texts) /\ h.next \in Seq(Texts)
IsFile(f) ==
  /\ DOMAIN f = {"text", "history", "edited", "compare", "syntax"}
  /\ IsHistory(f.history) /\ f.text \in Texts /\ f.syntax \in Syntaxes
IsSyntax(sy) ==
  /\ DOMAIN sy = {"now", "loaded", "waits"}
  /\ sy.now \in Syntaxes /\ sy.waits \in [Syntaxes -> Nat]

FilesTypeOK ==
  /\ text \in Texts /\ IsHistory(history) /\ IsSyntax(syntax)
  /\ DOMAIN files \subseteq Names /\ \A id \in DOMAIN files : IsFile(files[id])
  /\ curr_file \in Names /\ curr_file \in DOMAIN files \union {NoFile}
  /\ typed \in [Names -> Texts] /\ had \in [Names -> SUBSET Texts]
  /\ meant \in [Names -> Syntaxes]
  /\ {strayed, redoDue, changesDue, unseen} \subseteq BOOLEAN

\* ... and is in the list of names once.
OrderOK ==
  /\ order \in Seq(Names) /\ ToSet(order) = DOMAIN files
  /\ \A i, j \in DOMAIN order : order[i] = order[j] => i = j

\* What is saved of a file: all of it was its own, and its mark is right unless it is
\* one of unm.
Entries(h) == ToSet(h.previous) \union ToSet(h.next)
MarkTells(f, new) == f.edited <=> new # f.compare
Saved(id, f, ty, ha, me, str, unm) ==
  /\ IsFile(f) /\ f.text = ty /\ Entries(f.history) \subseteq ha
  /\ ~str => f.syntax = me
  /\ id \notin unm \union {NoFile} => MarkTells(f, f.text)
OthersSaved ==
  \A id \in DOMAIN files \ {curr_file} :
    Saved(id, files[id], typed[id], had[id], meant[id], strayed, unmarked)

\* What is in the editor, and which syntax it waits for.
WaitsFor(sy, s) == \A t \in Syntaxes : sy.waits[t] = 0 \/ (sy.waits[t] = 1 /\ t = s)
NoneWaits(sy) == \A t \in Syntaxes : sy.waits[t] = 0
SyntaxRight(sy, s) == WaitsFor(sy, s) /\ (NoneWaits(sy) => sy.now = s)
InEditor ==
  /\ text = typed[curr_file] /\ Entries(history) \subseteq had[curr_file]
  /\ \A id \in Names : typed[id] \in had[id]
  /\ ~strayed => SyntaxRight(syntax, meant[curr_file])

FilesInv ==
  /\ FilesTypeOK /\ OrderOK /\ OthersSaved /\ InEditor
  /\ RedoFollowsUndo /\ EditedTold

-----------------------------------------------------------------------------
(* Histories *)

(* The entries of a list that is made longer or shorter at its end or its head. *)
LEMMA EntryFacts ==
  ASSUME NEW S, NEW s \in Seq(S)
  PROVE  /\ \A e \in S : Append(s, e) \in Seq(S) /\ ToSet(Append(s, e)) = ToSet(s) \union {e}
         /\ ToSet(s) \subseteq S
         /\ s # <<>> => /\ Last(s) \in ToSet(s) /\ Last(s) \in S
                        /\ Front(s) \in Seq(S) /\ ToSet(Front(s)) \subseteq ToSet(s)
                        /\ Tail(s) \in Seq(S) /\ ToSet(Tail(s)) \subseteq ToSet(s)
                        /\ Len(Front(s)) = Len(s) - 1
<1>1. DOMAIN s = 1..Len(s) /\ Len(s) \in Nat /\ \A i \in 1..Len(s) : s[i] \in S
  OBVIOUS
<1>2. ASSUME NEW e \in S
      PROVE  Append(s, e) \in Seq(S) /\ ToSet(Append(s, e)) = ToSet(s) \union {e}
  <2>1. /\ Append(s, e) \in Seq(S) /\ DOMAIN Append(s, e) = 1..(Len(s) + 1)
        /\ \A i \in 1..Len(s) : Append(s, e)[i] = s[i]
        /\ Append(s, e)[Len(s) + 1] = e
    OBVIOUS
  <2>2. 1..(Len(s) + 1) = 1..Len(s) \union {Len(s) + 1}
    BY <1>1
  <2>3. QED
    BY <1>1, <2>1, <2>2 DEF ToSet
<1>3. ASSUME s # <<>>
      PROVE  /\ Last(s) \in ToSet(s) /\ Last(s) \in S
             /\ Front(s) \in Seq(S) /\ ToSet(Front(s)) \subseteq ToSet(s)
             /\ Tail(s) \in Seq(S) /\ ToSet(Tail(s)) \subseteq ToSet(s)
             /\ Len(Front(s)) = Len(s) - 1
  <2>1. Len(s) \in 1..Len(s)
    BY <1>1, <1>3
  <2>2. Last(s) \in ToSet(s) /\ Last(s) \in S
    BY <1>1, <2>1 DEF Last, ToSet
  <2>3. /\ Front(s) \in Seq(S) /\ DOMAIN Front(s) = 1..(Len(s) - 1) /\ Len(Front(s)) = Len(s) - 1
        /\ \A i \in 1..(Len(s) - 1) : i \in 1..Len(s) /\ Front(s)[i] = s[i]
    BY <1>1, <2>1 DEF Front
  <2>4. /\ Tail(s) \in Seq(S) /\ DOMAIN Tail(s) = 1..(Len(s) - 1)
        /\ \A i \in 1..(Len(s) - 1) : i + 1 \in 1..Len(s) /\ Tail(s)[i] = s[i + 1]
    BY <1>1, <1>3, <2>1
  <2>5. ToSet(Front(s)) \subseteq ToSet(s)
    BY <1>1, <2>3 DEF ToSet
  <2>6. ToSet(Tail(s)) \subseteq ToSet(s)
    BY <1>1, <2>4 DEF ToSet
  <2>7. QED
    BY <2>2, <2>3, <2>4, <2>5, <2>6
<1>4. ToSet(s) \subseteq S
  BY <1>1 DEF ToSet
<1>5. QED
  BY <1>2, <1>3, <1>4

(* Recording a text adds at most that one. *)
LEMMA RecordedFacts ==
  ASSUME NEW previous \in Seq(Texts), NEW new \in Texts
  PROVE  /\ Recorded(previous, new) \in Seq(Texts)
         /\ ToSet(Recorded(previous, new)) \subseteq ToSet(previous) \union {new}
<1> DEFINE longer == Append(previous, new)
<1>1. longer \in Seq(Texts) /\ ToSet(longer) = ToSet(previous) \union {new} /\ longer # <<>>
  <2>1. longer \in Seq(Texts) /\ ToSet(longer) = ToSet(previous) \union {new}
    BY EntryFacts
  <2>2. Len(longer) = Len(previous) + 1 /\ Len(previous) \in Nat
    OBVIOUS
  <2>3. longer # <<>>
    BY <2>2
  <2>4. QED
    BY <2>1, <2>3
<1>2. Tail(longer) \in Seq(Texts) /\ ToSet(Tail(longer)) \subseteq ToSet(longer)
  <2> HIDE DEF longer
  <2>1. QED
    BY <1>1, EntryFacts
<1>3. Recorded(previous, new) \in {previous, longer, Tail(longer)}
  BY DEF Recorded
<1> HIDE DEF longer
<1>4. QED
  BY <1>1, <1>2, <1>3

(* What may be redone is what it was, or nothing. *)
LEMMA KeptFacts ==
  ASSUME NEW next \in Seq(Texts), NEW last, NEW new
  PROVE  /\ Kept(next, last, new) \in Seq(Texts)
         /\ ToSet(Kept(next, last, new)) \subseteq ToSet(next)
         /\ Kept(next, last, new) # <<>> => new = last
  BY DEF Kept, ToSet

(* Replacing the first list of a history. *)
LEMMA PreviousFacts ==
  ASSUME NEW h, IsHistory(h), NEW p \in Seq(Texts), NEW ha,
         ToSet(p) \subseteq ha, ToSet(h.next) \subseteq ha
  PROVE  LET new == [h EXCEPT !.previous = p]
         IN /\ IsHistory(new) /\ Entries(new) \subseteq ha
            /\ new.previous = p /\ new.next = h.next /\ new.last_undo = h.last_undo
<1> DEFINE new == [h EXCEPT !.previous = p]
<1>1. DOMAIN new = DOMAIN h /\ new.previous = p /\ new.next = h.next /\ new.last_undo = h.last_undo
  BY DEF IsHistory
<1> HIDE DEF new
<1>2. IsHistory(new) /\ Entries(new) \subseteq ha
  BY <1>1 DEF IsHistory, Entries
<1>3. QED
  BY <1>1, <1>2 DEF new

-----------------------------------------------------------------------------
(* Files *)

(* A file just opened. *)
LEMMA NewFileFacts ==
  ASSUME FilesTypeOK, NEW new \in Texts, NEW s \in Syntaxes
  PROVE  /\ IsFile(NewFile(new, s)) /\ NewFile(new, s).text = new
         /\ NewFile(new, s).syntax = s /\ Entries(NewFile(new, s).history) = {}
         /\ MarkTells(NewFile(new, s), new)
<1>1. /\ IsHistory(NoHistory) /\ Entries(NoHistory) = {}
  BY DEF IsHistory, NoHistory, Entries, ToSet
<1>2. /\ DOMAIN NewFile(new, s) = {"text", "history", "edited", "compare", "syntax"}
      /\ NewFile(new, s).text = new /\ NewFile(new, s).history = NoHistory
      /\ NewFile(new, s).compare = new /\ NewFile(new, s).syntax = s
  BY DEF NewFile
<1>3. NewFile(new, s).edited = FALSE
  BY DEF NewFile
<1>4. QED
  BY <1>1, <1>2, <1>3 DEF IsFile, MarkTells

(* Opening it adds it to the files, or puts it in the place of its old record. *)
LEMMA WithFacts ==
  ASSUME NEW all, NEW id, NEW new, NEW s
  PROVE  /\ DOMAIN With(all, id, new, s) = DOMAIN all \union {id}
         /\ With(all, id, new, s)[id] = NewFile(new, s)
         /\ \A f \in DOMAIN all : f # id => With(all, id, new, s)[f] = all[f]
  BY DEF With

(* Saving puts what is in the editor in a file, if it is there. *)
LEMMA SaveFacts ==
  ASSUME FilesTypeOK, NEW all, NEW id, \A f \in DOMAIN all : IsFile(all[f])
  PROVE  LET new == save_file(id, all)
         IN /\ DOMAIN new = DOMAIN all
            /\ \A f \in DOMAIN all : f # id => new[f] = all[f]
            /\ id \in DOMAIN all =>
                 /\ IsFile(new[id]) /\ new[id].text = text /\ new[id].history = history
                 /\ new[id].syntax = syntax.now
                 /\ new[id].edited = all[id].edited /\ new[id].compare = all[id].compare
<1> DEFINE f == all[id]
           g == [f EXCEPT !.text = text, !.history = history, !.syntax = syntax.now]
<1>1. CASE id \in DOMAIN all
  <2>1. save_file(id, all) = [all EXCEPT ![id] = g]
    BY <1>1 DEF save_file
  <2>2. IsFile(f)
    BY <1>1
  <2>3. /\ DOMAIN g = DOMAIN f /\ g.text = text /\ g.history = history /\ g.syntax = syntax.now
        /\ g.edited = f.edited /\ g.compare = f.compare
    <3> HIDE DEF f
    <3>1. QED
      BY <2>2 DEF IsFile
  <2> HIDE DEF g
  <2>4. IsFile(g)
    BY <2>2, <2>3 DEF IsFile, FilesTypeOK, IsSyntax
  <2>5. QED
    BY <1>1, <2>1, <2>3, <2>4
<1>2. CASE id \notin DOMAIN all
  BY <1>2 DEF save_file
<1>3. QED
  BY <1>1, <1>2

(* The mark is set as the text tells, but on no file that has no tab. *)
LEMMA MarkedFacts ==
  ASSUME FilesTypeOK, NEW id, NEW new
  PROVE  LET all == Marked(id, new)
         IN /\ DOMAIN all = DOMAIN files
            /\ \A f \in DOMAIN files : f # id => all[f] = files[f]
            /\ \A f \in DOMAIN files : /\ IsFile(all[f]) /\ all[f].text = files[f].text
                                       /\ all[f].history = files[f].history
                                       /\ all[f].syntax = files[f].syntax
                                       /\ all[f].compare = files[f].compare
            /\ id \in DOMAIN files \ {NoFile} => MarkTells(all[id], new)
<1> DEFINE f == files[id]
           told == ~(f.compare = new)
           g == [f EXCEPT !.edited = told]
<1>1. CASE id \in DOMAIN files \ {NoFile}
  <2>1. Marked(id, new) = [files EXCEPT ![id] = g]
    BY <1>1 DEF Marked
  <2>2. IsFile(f)
    BY <1>1 DEF FilesTypeOK
  <2>3. /\ DOMAIN g = DOMAIN f /\ g.text = f.text /\ g.history = f.history
        /\ g.syntax = f.syntax /\ g.edited = told /\ g.compare = f.compare
    <3> HIDE DEF f, told
    <3>1. QED
      BY <2>2 DEF IsFile
  <2>4. MarkTells(g, new)
    <3> HIDE DEF g
    <3>1. QED
      BY <2>3 DEF MarkTells
  <2> HIDE DEF g
  <2>5. IsFile(g)
    BY <2>2, <2>3 DEF IsFile
  <2>6. QED
    BY <1>1, <2>1, <2>3, <2>4, <2>5 DEF FilesTypeOK
<1>2. CASE id \notin DOMAIN files \ {NoFile}
  BY <1>2 DEF Marked, FilesTypeOK
<1>3. QED
  BY <1>1, <1>2

-----------------------------------------------------------------------------
(* The steps that show no other file *)

(* A script of the syntax asked for is the only one waited for, if none was. *)
LEMMA SyntaxFacts ==
  ASSUME NEW sy, IsSyntax(sy), NEW s \in Syntaxes
  PROVE  /\ IsSyntax(SyntaxChanged(sy, s))
         /\ NoneWaits(sy) => SyntaxRight(SyntaxChanged(sy, s), s)
<1> DEFINE n == sy.waits[s] + 1
           now == [sy EXCEPT !.now = s]
           later == [sy EXCEPT !.waits[s] = n]
<1>1. SyntaxChanged(sy, s) = IF s = sy.now THEN sy ELSE IF s \in sy.loaded THEN now ELSE later
  BY DEF SyntaxChanged
<1>2. sy.waits[s] \in Nat
  BY DEF IsSyntax
<1>3. DOMAIN now = DOMAIN sy /\ now.now = s /\ now.waits = sy.waits
  BY DEF IsSyntax
<1>4. /\ DOMAIN later = DOMAIN sy /\ later.now = sy.now
      /\ later.waits = [sy.waits EXCEPT ![s] = n]
  <2> HIDE DEF n
  <2>1. QED
    BY DEF IsSyntax
<1> HIDE DEF now, later
<1>5. IsSyntax(now) /\ (NoneWaits(sy) => SyntaxRight(now, s))
  BY <1>3 DEF IsSyntax, SyntaxRight, NoneWaits, WaitsFor
<1>6. IsSyntax(later) /\ (NoneWaits(sy) => SyntaxRight(later, s))
  BY <1>2, <1>4 DEF IsSyntax, SyntaxRight, NoneWaits, WaitsFor
<1>7. s = sy.now /\ NoneWaits(sy) => SyntaxRight(sy, s)
  BY DEF SyntaxRight, NoneWaits, WaitsFor
<1>8. QED
  BY <1>1, <1>5, <1>6, <1>7

(* Waiting is empty when no timer waits. *)
LEMMA WaitingFacts ==
  ASSUME IsSyntax(syntax)
  PROVE  Waiting = {} <=> NoneWaits(syntax)
<1>1. \A s \in Syntaxes : syntax.waits[s] \in Nat
  BY DEF IsSyntax
<1>2. \A s \in Syntaxes : s \in Waiting <=> syntax.waits[s] # 0
  BY <1>1 DEF Waiting
<1>3. QED
  BY <1>2 DEF Waiting, NoneWaits

(* The timer of check_undo records the text shown. *)
LEMMA CheckUndoKeeps ==
  ASSUME FilesInv, check_undo
  PROVE  FilesInv'
<1> DEFINE p == Recorded(history.previous, text)
           ha == had[curr_file]
<1>1. /\ history' = [history EXCEPT !.previous = p]
      /\ UNCHANGED <<text, curr_file, files, order, is_editable, syntax, meant, strayed,
                     redoDue, changesDue, typed, had, unseen, unmarked>>
  BY DEF check_undo, tabs, timers, ghosts, syntaxVars
<1>2. p \in Seq(Texts) /\ ToSet(p) \subseteq ha /\ ToSet(history.next) \subseteq ha /\ IsHistory(history)
  <2>1. text \in Texts /\ IsHistory(history) /\ history.previous \in Seq(Texts)
    BY DEF FilesInv, FilesTypeOK, IsHistory
  <2>2. text \in ha /\ ToSet(history.previous) \subseteq ha /\ ToSet(history.next) \subseteq ha
    BY DEF FilesInv, InEditor, Entries, FilesTypeOK
  <2>3. QED
    BY <2>1, <2>2, RecordedFacts
<1> HIDE DEF p
<1>3. /\ IsHistory(history') /\ Entries(history') \subseteq ha
      /\ history'.next = history.next /\ history'.last_undo = history.last_undo
  BY <1>1, <1>2, PreviousFacts
<1>4. FilesTypeOK'
  BY <1>1, <1>3 DEF FilesInv, FilesTypeOK, IsHistory
<1>5. OrderOK' /\ OthersSaved' /\ EditedTold'
  BY <1>1 DEF FilesInv, OrderOK, OthersSaved, EditedTold
<1>6. InEditor' /\ RedoFollowsUndo'
  BY <1>1, <1>3 DEF FilesInv, InEditor, RedoFollowsUndo, Entries
<1>7. QED
  BY <1>4, <1>5, <1>6 DEF FilesInv

(* That of check_redo drops what can be redone, unless the text is what the undo left. *)
LEMMA CheckRedoKeeps ==
  ASSUME FilesInv, check_redo
  PROVE  FilesInv'
<1> DEFINE n == Kept(history.next, history.last_undo, text)
           ha == had[curr_file]
<1>1. /\ history' = [history EXCEPT !.next = n] /\ redoDue' = FALSE /\ unseen' = FALSE
      /\ UNCHANGED <<text, curr_file, files, order, is_editable, syntax, meant, strayed,
                     changesDue, typed, had, unmarked>>
  BY DEF check_redo, tabs, syntaxVars
<1>2. /\ IsHistory(history) /\ history.previous \in Seq(Texts) /\ history.next \in Seq(Texts)
      /\ ToSet(history.previous) \subseteq ha /\ ToSet(history.next) \subseteq ha
  BY DEF FilesInv, FilesTypeOK, IsHistory, InEditor, Entries
<1>3. n \in Seq(Texts) /\ ToSet(n) \subseteq ha /\ (n # <<>> => text = history.last_undo)
  BY <1>2, KeptFacts
<1> HIDE DEF n
<1>4. /\ DOMAIN history' = DOMAIN history /\ history'.previous = history.previous
      /\ history'.next = n /\ history'.last_undo = history.last_undo
  BY <1>1, <1>2 DEF IsHistory
<1>5. IsHistory(history') /\ Entries(history') \subseteq ha
  BY <1>2, <1>3, <1>4 DEF IsHistory, Entries
<1>6. FilesTypeOK'
  BY <1>1, <1>5 DEF FilesInv, FilesTypeOK, IsHistory
<1>7. OrderOK' /\ OthersSaved' /\ EditedTold'
  BY <1>1 DEF FilesInv, OrderOK, OthersSaved, EditedTold
<1>8. InEditor' /\ RedoFollowsUndo'
  BY <1>1, <1>3, <1>4, <1>5 DEF FilesInv, InEditor, RedoFollowsUndo, Entries
<1>9. QED
  BY <1>6, <1>7, <1>8 DEF FilesInv

(* That of check_file_changes sets the mark. *)
LEMMA CheckFileChangesKeeps ==
  ASSUME FilesInv, check_file_changes
  PROVE  FilesInv'
<1>1. /\ changesDue' = FALSE
      /\ files' = Marked(curr_file, text) /\ unmarked' = unmarked \ {curr_file}
      /\ UNCHANGED <<text, history, curr_file, order, is_editable, syntax, meant, strayed,
                     redoDue, typed, had, unseen>>
  BY DEF check_file_changes, syntaxVars
<1>2. /\ DOMAIN files' = DOMAIN files
      /\ \A f \in DOMAIN files : f # curr_file => files'[f] = files[f]
      /\ \A f \in DOMAIN files : IsFile(files'[f])
      /\ curr_file \in DOMAIN files \ {NoFile} => MarkTells(files'[curr_file], text)
  BY <1>1, MarkedFacts DEF FilesInv
<1>3. FilesTypeOK'
  BY <1>1, <1>2 DEF FilesInv, FilesTypeOK, IsFile, IsHistory
<1>4. OrderOK' /\ InEditor' /\ RedoFollowsUndo'
  BY <1>1, <1>2 DEF FilesInv, OrderOK, InEditor, RedoFollowsUndo
<1>5. OthersSaved'
  BY <1>1, <1>2 DEF FilesInv, OthersSaved, Saved
<1>6. EditedTold'
  BY <1>1, <1>2 DEF EditedTold, MarkTells
<1>7. QED
  BY <1>3, <1>4, <1>5, <1>6 DEF FilesInv

(* The text of the file shown is another one, which is its own now. *)
LEMMA BecomesFacts ==
  ASSUME FilesInv, NEW new \in Texts, Becomes(new), UNCHANGED curr_file
  PROVE  /\ text' = new /\ new \in had'[curr_file] /\ typed'[curr_file] = new
         /\ typed' \in [Names -> Texts] /\ had' \in [Names -> SUBSET Texts]
         /\ \A id \in Names : /\ had[id] \subseteq had'[id] /\ typed'[id] \in had'[id]
                              /\ id # curr_file => typed'[id] = typed[id] /\ had'[id] = had[id]
<1>1. /\ text' = new
      /\ typed' = [typed EXCEPT ![curr_file] = new]
      /\ had' = [had EXCEPT ![curr_file] = @ \union {new}]
  BY DEF Becomes
<1>2. curr_file \in Names /\ typed \in [Names -> Texts] /\ had \in [Names -> SUBSET Texts]
  BY DEF FilesInv, FilesTypeOK
<1>3. QED
  BY <1>1, <1>2 DEF FilesInv, InEditor

(* Undo and redo exchange entries of the two lists, and set the mark. *)
LEMMA ReplacedKeeps ==
  ASSUME FilesInv, NEW new \in Texts, Becomes(new),
         IsHistory(history'), Entries(history') \subseteq had[curr_file] \union {new},
         history'.last_undo = new,
         files' = Marked(curr_file, new), unseen' = FALSE, unmarked' = unmarked \ {curr_file},
         UNCHANGED <<curr_file, order, is_editable, syntaxVars>>,
         redoDue' \in BOOLEAN, changesDue' \in BOOLEAN
  PROVE  FilesInv'
<1>1. UNCHANGED <<curr_file, order, syntax, meant, strayed>>
  BY DEF syntaxVars
<1>2. /\ text' = new /\ new \in had'[curr_file] /\ typed'[curr_file] = new
      /\ typed' \in [Names -> Texts] /\ had' \in [Names -> SUBSET Texts]
      /\ \A id \in Names : /\ had[id] \subseteq had'[id] /\ typed'[id] \in had'[id]
                           /\ id # curr_file => typed'[id] = typed[id] /\ had'[id] = had[id]
  BY <1>1, BecomesFacts
<1>3. /\ DOMAIN files' = DOMAIN files
      /\ \A f \in DOMAIN files : f # curr_file => files'[f] = files[f]
      /\ \A f \in DOMAIN files : IsFile(files'[f])
      /\ curr_file \in DOMAIN files \ {NoFile} => MarkTells(files'[curr_file], new)
  BY MarkedFacts DEF FilesInv
<1>4. FilesTypeOK'
  BY <1>1, <1>2, <1>3 DEF FilesInv, FilesTypeOK, IsFile, IsHistory
<1>5. OrderOK'
  BY <1>1, <1>3 DEF FilesInv, OrderOK
<1>6. curr_file \in Names /\ DOMAIN files \subseteq Names
  BY DEF FilesInv, FilesTypeOK
<1>7. OthersSaved'
  BY <1>1, <1>2, <1>3, <1>6 DEF FilesInv, OthersSaved, Saved
<1>8. InEditor'
  BY <1>1, <1>2, <1>6 DEF FilesInv, InEditor, Entries
<1>9. EditedTold'
  BY <1>1, <1>2, <1>3 DEF EditedTold, MarkTells
<1>10. RedoFollowsUndo'
  BY <1>2 DEF RedoFollowsUndo
<1>11. QED
  BY <1>4, <1>5, <1>7, <1>8, <1>9, <1>10 DEF FilesInv

(* What undo and redo do to the two lists: their entries stay those of the file. *)
LEMMA UndoKeeps ==
  ASSUME FilesInv, undo, redoDue' \in BOOLEAN, changesDue' \in BOOLEAN
  PROVE  FilesInv'
<1> DEFINE ha == had[curr_file]
           skip == Last(history.previous) = text /\ Len(history.previous) > 1
           rest == IF skip THEN Front(history.previous) ELSE history.previous
           new == Last(rest)
<1>1. /\ history.previous # <<>> /\ Becomes(new)
      /\ history' = [previous |-> Front(rest), next |-> Append(history.next, text),
                     last_undo |-> new]
      /\ files' = Marked(curr_file, new)
      /\ unseen' = FALSE /\ unmarked' = unmarked \ {curr_file}
      /\ UNCHANGED <<curr_file, order, is_editable, syntaxVars>>
  BY DEF undo
<1>2. /\ history.previous \in Seq(Texts) /\ history.next \in Seq(Texts) /\ text \in Texts
      /\ ToSet(history.previous) \subseteq ha /\ ToSet(history.next) \subseteq ha /\ text \in ha
  BY DEF FilesInv, FilesTypeOK, IsHistory, InEditor, Entries
<1>3. rest \in Seq(Texts) /\ ToSet(rest) \subseteq ha /\ rest # <<>>
  <2>1. CASE skip
    <3>1. Front(history.previous) \in Seq(Texts)
          /\ ToSet(Front(history.previous)) \subseteq ToSet(history.previous)
          /\ Len(Front(history.previous)) = Len(history.previous) - 1
      BY <1>1, <1>2, EntryFacts
    <3>2. Len(history.previous) > 1 /\ Len(history.previous) \in Nat
      BY <1>2, <2>1
    <3>3. Front(history.previous) # <<>>
      BY <3>1, <3>2
    <3>4. QED
      BY <1>2, <2>1, <3>1, <3>3
  <2>2. CASE ~skip
    BY <1>1, <1>2, <2>2
  <2>3. QED
    BY <2>1, <2>2
<1> HIDE DEF rest
<1>4. new \in Texts /\ Front(rest) \in Seq(Texts) /\ ToSet(Front(rest)) \subseteq ha
  BY <1>3, EntryFacts
<1>5. /\ Append(history.next, text) \in Seq(Texts)
      /\ ToSet(Append(history.next, text)) = ToSet(history.next) \union {text}
  BY <1>2, EntryFacts
<1> HIDE DEF new
<1>6. IsHistory(history') /\ Entries(history') \subseteq ha /\ history'.last_undo = new
  BY <1>1, <1>2, <1>4, <1>5 DEF IsHistory, Entries
<1>7. QED
  BY <1>1, <1>4, <1>6, ReplacedKeeps

(* The same for redo. *)
LEMMA RedoKeeps ==
  ASSUME FilesInv, redo, redoDue' \in BOOLEAN, changesDue' \in BOOLEAN
  PROVE  FilesInv'
<1> DEFINE ha == had[curr_file]
           new == Last(history.next)
<1>1. /\ history.next # <<>> /\ Becomes(new)
      /\ history' = [previous |-> Append(history.previous, new),
                     next |-> Front(history.next), last_undo |-> new]
      /\ files' = Marked(curr_file, new)
      /\ unseen' = FALSE /\ unmarked' = unmarked \ {curr_file}
      /\ UNCHANGED <<curr_file, order, is_editable, syntaxVars>>
  BY DEF redo
<1>2. /\ history.previous \in Seq(Texts) /\ history.next \in Seq(Texts)
      /\ ToSet(history.previous) \subseteq ha /\ ToSet(history.next) \subseteq ha
  BY DEF FilesInv, FilesTypeOK, IsHistory, InEditor, Entries
<1>3. new \in Texts /\ new \in ha /\ Front(history.next) \in Seq(Texts)
      /\ ToSet(Front(history.next)) \subseteq ha
  BY <1>1, <1>2, EntryFacts
<1> HIDE DEF new
<1>4. /\ Append(history.previous, new) \in Seq(Texts)
      /\ ToSet(Append(history.previous, new)) = ToSet(history.previous) \union {new}
  BY <1>2, <1>3, EntryFacts
<1>5. IsHistory(history') /\ Entries(history') \subseteq ha /\ history'.last_undo = new
  BY <1>1, <1>2, <1>3, <1>4 DEF IsHistory, Entries
<1>6. QED
  BY <1>1, <1>3, <1>5, ReplacedKeeps

(* A key, a menu of the browser and the page change the text alone; the first starts
   the timers, and the others are remembered. *)
LEMMA TypedKeeps ==
  ASSUME FilesInv, NEW new \in Texts, Becomes(new),
         UNCHANGED <<history, tabs>>,
         \/ TimersOf(history.next) /\ UNCHANGED <<unseen, unmarked>>
         \/ unseen' = TRUE /\ unmarked' = unmarked \union {curr_file} /\ UNCHANGED timers
  PROVE  FilesInv'
<1>1. UNCHANGED <<history, curr_file, files, order, syntax, meant, strayed>>
  BY DEF tabs, syntaxVars
<1>2. /\ text' = new /\ new \in had'[curr_file] /\ typed'[curr_file] = new
      /\ typed' \in [Names -> Texts] /\ had' \in [Names -> SUBSET Texts]
      /\ \A id \in Names : /\ had[id] \subseteq had'[id] /\ typed'[id] \in had'[id]
                           /\ id # curr_file => typed'[id] = typed[id] /\ had'[id] = had[id]
  BY <1>1, BecomesFacts
<1>3. /\ redoDue' \in BOOLEAN /\ changesDue' \in BOOLEAN /\ unseen' \in BOOLEAN
      /\ history.next # <<>> => redoDue' \/ unseen'
      /\ ~changesDue' => curr_file \in unmarked'
      /\ unmarked \subseteq unmarked'
  BY DEF TimersOf, timers, FilesInv, FilesTypeOK
<1>4. FilesTypeOK'
  BY <1>1, <1>2, <1>3 DEF FilesInv, FilesTypeOK, IsHistory
<1>5. curr_file \in Names /\ DOMAIN files \subseteq Names
  BY DEF FilesInv, FilesTypeOK
<1>6. OrderOK' /\ OthersSaved'
  BY <1>1, <1>2, <1>3, <1>5 DEF FilesInv, OrderOK, OthersSaved, Saved
<1>7. InEditor'
  BY <1>1, <1>2, <1>5 DEF FilesInv, InEditor, Entries
<1>8. RedoFollowsUndo' /\ EditedTold'
  BY <1>1, <1>3 DEF RedoFollowsUndo, EditedTold
<1>9. QED
  BY <1>4, <1>6, <1>7, <1>8 DEF FilesInv

(* Allowing or forbidding edits changes nothing else. *)
LEMMA SetEditableKeeps ==
  ASSUME FilesInv, set_editable(~is_editable)
  PROVE  FilesInv'
  BY DEF set_editable, syntaxVars, timers, ghosts, FilesInv, FilesTypeOK, IsHistory, OrderOK,
         OthersSaved, InEditor, RedoFollowsUndo, EditedTold

(* Another syntax is asked for: it is there, or a timer waits for its script. *)
LEMMA ChangeSyntaxKeeps ==
  ASSUME FilesInv, NEW s \in Syntaxes, change_syntax(s)
  PROVE  FilesInv'
<1>1. /\ syntax' = SyntaxChanged(syntax, s)
      /\ meant' = [meant EXCEPT ![curr_file] = s] /\ strayed' = (strayed \/ Waiting # {})
      /\ UNCHANGED <<text, history, curr_file, files, order, redoDue, changesDue,
                     typed, had, unseen, unmarked>>
  BY DEF change_syntax, timers, ghosts
<1>2. /\ IsSyntax(syntax) /\ curr_file \in Names /\ meant \in [Names -> Syntaxes]
      /\ DOMAIN files \subseteq Names
  BY DEF FilesInv, FilesTypeOK
<1>3. IsSyntax(syntax') /\ (NoneWaits(syntax) => SyntaxRight(syntax', s))
  BY <1>1, <1>2, SyntaxFacts
<1>4. /\ meant' \in [Names -> Syntaxes] /\ meant'[curr_file] = s
      /\ \A id \in Names : id # curr_file => meant'[id] = meant[id]
  BY <1>1, <1>2
<1>5. strayed' \in BOOLEAN /\ (~strayed' => ~strayed /\ NoneWaits(syntax))
  BY <1>1, <1>2, WaitingFacts DEF FilesInv, FilesTypeOK
<1>6. FilesTypeOK'
  BY <1>1, <1>3, <1>4, <1>5 DEF FilesInv, FilesTypeOK, IsHistory
<1>7. OrderOK' /\ OthersSaved'
  BY <1>1, <1>2, <1>4, <1>5 DEF FilesInv, OrderOK, OthersSaved, Saved
<1>8. InEditor'
  BY <1>1, <1>3, <1>4, <1>5 DEF FilesInv, InEditor
<1>9. RedoFollowsUndo' /\ EditedTold'
  BY <1>1 DEF FilesInv, RedoFollowsUndo, EditedTold
<1>10. QED
  BY <1>6, <1>7, <1>8, <1>9 DEF FilesInv

(* The timer sets the syntax it waited for, or goes on waiting. *)
LEMMA SyntaxTimerKeeps ==
  ASSUME FilesInv, NEW s \in Syntaxes, SyntaxTimer(s) \/ SyntaxLoaded(s)
  PROVE  FilesInv'
<1> DEFINE n == syntax.waits[s] - 1
           l == syntax.loaded \union {s}
<1>1. UNCHANGED <<text, history, curr_file, files, order, meant, strayed, redoDue, changesDue,
                  typed, had, unseen, unmarked>>
  BY DEF SyntaxTimer, SyntaxLoaded, timers, ghosts
<1>2. IsSyntax(syntax) /\ syntax.waits[s] \in Nat /\ s \in Waiting
  BY DEF FilesInv, FilesTypeOK, IsSyntax, SyntaxTimer, SyntaxLoaded
<1>3. syntax.waits[s] \in Nat \ {0}
  BY <1>2 DEF Waiting
<1>4. CASE SyntaxTimer(s)
  <2>1. syntax' = [syntax EXCEPT !.now = s, !.waits[s] = n]
    BY <1>4 DEF SyntaxTimer
  <2>2. /\ DOMAIN syntax' = DOMAIN syntax /\ syntax'.now = s
        /\ syntax'.waits = [syntax.waits EXCEPT ![s] = n]
    <3> HIDE DEF n
    <3>1. QED
      BY <1>2, <2>1 DEF IsSyntax
  <2>3. IsSyntax(syntax') /\ \A m : SyntaxRight(syntax, m) => SyntaxRight(syntax', m)
    BY <1>2, <1>3, <2>2 DEF IsSyntax, SyntaxRight, NoneWaits, WaitsFor
  <2>4. QED
    BY <1>1, <2>3 DEF FilesInv, FilesTypeOK, IsHistory, OrderOK, OthersSaved, InEditor,
                      RedoFollowsUndo, EditedTold
<1>5. CASE SyntaxLoaded(s)
  <2>1. syntax' = [syntax EXCEPT !.loaded = l]
    BY <1>5 DEF SyntaxLoaded
  <2>2. DOMAIN syntax' = DOMAIN syntax /\ syntax'.now = syntax.now /\ syntax'.waits = syntax.waits
    <3> HIDE DEF l
    <3>1. QED
      BY <1>2, <2>1 DEF IsSyntax
  <2>3. IsSyntax(syntax') /\ \A m : SyntaxRight(syntax, m) => SyntaxRight(syntax', m)
    BY <1>2, <2>2 DEF IsSyntax, SyntaxRight, NoneWaits, WaitsFor
  <2>4. QED
    BY <1>1, <2>3 DEF FilesInv, FilesTypeOK, IsHistory, OrderOK, OthersSaved, InEditor,
                      RedoFollowsUndo, EditedTold
<1>6. QED
  BY <1>4, <1>5

-----------------------------------------------------------------------------
(* Showing a file *)

(* What was recorded grows by the text shown, in the saved file too; nothing else
   of what is saved changes. *)
LEMMA GrownFacts ==
  ASSUME NEW id, NEW f, NEW ty, NEW ha, NEW me, NEW str, NEW unm,
         Saved(id, f, ty, ha, me, str, unm), NEW new \in Texts, new \in ha
  PROVE  LET p == Recorded(f.history.previous, new)
             g == [f EXCEPT !.history = [f.history EXCEPT !.previous = p]]
         IN Saved(id, g, ty, ha, me, str, unm)
<1> DEFINE h == f.history
           p == Recorded(h.previous, new)
           k == [h EXCEPT !.previous = p]
           g == [f EXCEPT !.history = k]
<1>1. IsFile(f) /\ IsHistory(h) /\ h.previous \in Seq(Texts) /\ Entries(h) \subseteq ha
  BY DEF Saved, IsFile, IsHistory
<1>2. p \in Seq(Texts) /\ ToSet(p) \subseteq ha /\ ToSet(h.next) \subseteq ha
  BY <1>1, RecordedFacts DEF Entries
<1> HIDE DEF p
<1>3. IsHistory(k) /\ Entries(k) \subseteq ha
  <2> HIDE DEF h
  <2>1. QED
    BY <1>1, <1>2, PreviousFacts
<1> HIDE DEF k
<1>4. /\ DOMAIN g = DOMAIN f /\ g.text = f.text /\ g.history = k /\ g.syntax = f.syntax
      /\ g.edited = f.edited /\ g.compare = f.compare
  BY <1>1 DEF IsFile
<1> HIDE DEF g
<1>5. IsFile(g)
  BY <1>1, <1>3, <1>4 DEF IsFile
<1>6. MarkTells(f, f.text) => MarkTells(g, g.text)
  BY <1>4 DEF MarkTells
<1>7. Saved(id, g, ty, ha, me, str, unm)
  BY <1>3, <1>4, <1>5, <1>6 DEF Saved
<1>8. QED
  BY <1>7 DEF g, k, p

(* When all files are saved as they should be, so they are when one of them is shown,
   and the editor holds that one. *)
LEMMA DisplayKeeps ==
  ASSUME FilesInv, NEW id, NEW all, NEW closed, display_file(id, all, closed),
         DOMAIN all \subseteq Names, id \in DOMAIN all \ closed,
         typed' \in [Names -> Texts], had' \in [Names -> SUBSET Texts],
         meant' \in [Names -> Syntaxes],
         \A j \in Names : typed'[j] \in had'[j],
         \A j \in DOMAIN all \ closed :
           Saved(j, all[j], typed'[j], had'[j], meant'[j], strayed', unmarked'),
         curr_file \in DOMAIN all \ closed => text \in had'[curr_file],
         UNCHANGED timers
  PROVE  /\ FilesTypeOK' /\ OthersSaved' /\ InEditor' /\ RedoFollowsUndo' /\ EditedTold'
         /\ DOMAIN files' = DOMAIN all \ closed
<1> DEFINE h == all[curr_file].history
           p == Recorded(h.previous, text)
           g == [all[curr_file] EXCEPT !.history = [h EXCEPT !.previous = p]]
<1>1. PICK focused \in BOOLEAN :
        LET last == IF focused /\ curr_file \in DOMAIN all
                    THEN [all EXCEPT ![curr_file].history.previous = Recorded(@, text)] ELSE all
            saved == last[id].history
        IN /\ files' = Restrict(last, DOMAIN last \ closed)
           /\ curr_file' = id /\ text' = last[id].text
           /\ syntax' = SyntaxChanged(syntax, last[id].syntax)
           /\ strayed' = (strayed \/ Waiting # {})
           /\ history' = [saved EXCEPT !.previous = Recorded(@, text'),
                                       !.next = Kept(@, saved.last_undo, text')]
           /\ unseen' = FALSE
  BY DEF display_file
<1> DEFINE last == IF focused /\ curr_file \in DOMAIN all
                   THEN [all EXCEPT ![curr_file].history.previous = Recorded(@, text)] ELSE all
           saved == last[id].history
           pre == Recorded(saved.previous, text')
           nxt == Kept(saved.next, saved.last_undo, text')
<1>2. /\ DOMAIN last = DOMAIN all
      /\ \A j \in DOMAIN all : j # curr_file => last[j] = all[j]
      /\ curr_file \in DOMAIN all => last[curr_file] \in {all[curr_file], g}
  <2>1. CASE focused /\ curr_file \in DOMAIN all
    <3>1. last = [all EXCEPT ![curr_file] = g]
      BY <2>1
    <3> HIDE DEF last, g
    <3>2. QED
      BY <2>1, <3>1
  <2>2. CASE ~(focused /\ curr_file \in DOMAIN all)
    BY <2>2
  <2>3. QED
    BY <2>1, <2>2
<1>3. ASSUME curr_file \in DOMAIN all \ closed
      PROVE  Saved(curr_file, g, typed'[curr_file], had'[curr_file], meant'[curr_file],
                   strayed', unmarked')
  <2>1. /\ Saved(curr_file, all[curr_file], typed'[curr_file], had'[curr_file],
                 meant'[curr_file], strayed', unmarked')
        /\ text \in Texts /\ text \in had'[curr_file]
    BY <1>3 DEF FilesInv, FilesTypeOK
  <2>2. QED
    BY <2>1, GrownFacts
<1> HIDE DEF g
<1>4. \A j \in DOMAIN all \ closed :
        Saved(j, last[j], typed'[j], had'[j], meant'[j], strayed', unmarked')
  BY <1>2, <1>3
<1>5. /\ files' = Restrict(last, DOMAIN last \ closed)
      /\ curr_file' = id /\ text' = last[id].text
      /\ syntax' = SyntaxChanged(syntax, last[id].syntax) /\ strayed' = (strayed \/ Waiting # {})
      /\ history' = [saved EXCEPT !.previous = pre, !.next = nxt]
      /\ unseen' = FALSE
  BY <1>1
<1> HIDE DEF last
<1>6. DOMAIN files' = DOMAIN all \ closed /\ \A j \in DOMAIN files' : files'[j] = last[j]
  BY <1>2, <1>5 DEF Restrict
<1>7. /\ Saved(id, last[id], typed'[id], had'[id], meant'[id], strayed', unmarked')
      /\ IsFile(last[id]) /\ last[id].text = typed'[id] /\ last[id].text \in Texts
      /\ last[id].text \in had'[id] /\ id \in Names
  BY <1>4 DEF Saved, IsFile
<1>8. /\ IsHistory(saved) /\ saved.previous \in Seq(Texts) /\ saved.next \in Seq(Texts)
      /\ ToSet(saved.previous) \subseteq had'[id] /\ ToSet(saved.next) \subseteq had'[id]
  BY <1>7 DEF Saved, IsFile, IsHistory, Entries
<1>9. /\ pre \in Seq(Texts) /\ ToSet(pre) \subseteq had'[id]
      /\ nxt \in Seq(Texts) /\ ToSet(nxt) \subseteq had'[id]
      /\ nxt # <<>> => text' = saved.last_undo
  <2>1. text' \in Texts /\ text' \in had'[id]
    BY <1>5, <1>7
  <2>2. pre \in Seq(Texts) /\ ToSet(pre) \subseteq ToSet(saved.previous) \union {text'}
    BY <1>8, <2>1, RecordedFacts
  <2>3. /\ nxt \in Seq(Texts) /\ ToSet(nxt) \subseteq ToSet(saved.next)
        /\ nxt # <<>> => text' = saved.last_undo
    BY <1>8, KeptFacts
  <2>4. QED
    BY <1>8, <2>1, <2>2, <2>3
<1> HIDE DEF pre, nxt
<1>10. /\ IsHistory(history') /\ Entries(history') \subseteq had'[id]
       /\ history'.next = nxt /\ history'.last_undo = saved.last_undo
  <2> DEFINE new == [saved EXCEPT !.previous = pre, !.next = nxt]
             ha == had'[id]
  <2> HIDE DEF saved, ha
  <2>1. /\ IsHistory(saved) /\ pre \in Seq(Texts) /\ nxt \in Seq(Texts)
        /\ ToSet(pre) \subseteq ha /\ ToSet(nxt) \subseteq ha
    BY <1>8, <1>9 DEF ha
  <2>2. DOMAIN new = DOMAIN saved /\ new.previous = pre /\ new.next = nxt
        /\ new.last_undo = saved.last_undo
    BY <2>1 DEF IsHistory
  <2>3. history' = new
    BY <1>5
  <2> HIDE DEF new
  <2>4. IsHistory(new) /\ Entries(new) \subseteq ha
    BY <2>1, <2>2 DEF IsHistory, Entries
  <2>5. QED
    BY <2>2, <2>3, <2>4 DEF ha
<1>11. IsSyntax(syntax) /\ last[id].syntax \in Syntaxes
  BY <1>7 DEF FilesInv, FilesTypeOK, IsFile
<1>12. IsSyntax(syntax') /\ (NoneWaits(syntax) => SyntaxRight(syntax', last[id].syntax))
  BY <1>5, <1>11, SyntaxFacts
<1>13. /\ strayed' \in BOOLEAN
       /\ ~strayed' => NoneWaits(syntax) /\ last[id].syntax = meant'[id]
  BY <1>5, <1>7, <1>11, WaitingFacts DEF FilesInv, FilesTypeOK, Saved
<1>14. redoDue' \in BOOLEAN /\ changesDue' \in BOOLEAN /\ unseen' \in BOOLEAN
  BY <1>5 DEF timers, FilesInv, FilesTypeOK
<1>15. \A j \in DOMAIN files' : IsFile(files'[j])
  BY <1>4, <1>6 DEF Saved
<1>16. FilesTypeOK'
  BY <1>5, <1>6, <1>7, <1>10, <1>12, <1>13, <1>14, <1>15
  DEF FilesTypeOK, IsHistory, IsFile, IsSyntax
<1>17. OthersSaved'
  BY <1>4, <1>6 DEF OthersSaved, Saved
<1>18. InEditor'
  BY <1>5, <1>7, <1>10, <1>12, <1>13 DEF InEditor, Entries
<1>19. RedoFollowsUndo'
  BY <1>9, <1>10 DEF RedoFollowsUndo
<1>20. EditedTold'
  <2>1. id \notin unmarked' \union {NoFile} => MarkTells(files'[id], text')
    BY <1>5, <1>6, <1>7 DEF Saved
  <2>2. QED
    BY <1>5, <2>1 DEF EditedTold, MarkTells
<1>21. QED
  BY <1>6, <1>16, <1>17, <1>18, <1>19, <1>20

(* Where a file is in the list of names. *)
LEMMA PlaceFacts ==
  ASSUME OrderOK, NEW id \in DOMAIN files
  PROVE  /\ DOMAIN order = 1..Len(order) /\ Len(order) \in Nat
         /\ Place(id) \in 1..Len(order) /\ order[Place(id)] = id
         /\ \A j \in 1..Len(order) : j # Place(id) => order[j] # id
<1>1. DOMAIN order = 1..Len(order) /\ Len(order) \in Nat
  BY DEF OrderOK
<1>2. \E i \in DOMAIN order : order[i] = id
  BY DEF OrderOK, ToSet
<1>3. Place(id) \in DOMAIN order /\ order[Place(id)] = id
  BY <1>2 DEF Place
<1>4. QED
  BY <1>1, <1>3 DEF OrderOK

(* The list without one name has the others. *)
LEMMA WithoutFacts ==
  ASSUME OrderOK, NEW id
  PROVE  /\ Without(id) \in Seq(Names) /\ ToSet(Without(id)) = DOMAIN files \ {id}
         /\ \A i, j \in DOMAIN Without(id) : Without(id)[i] = Without(id)[j] => i = j
<1>1. CASE id \notin DOMAIN files
  BY <1>1 DEF Without, OrderOK
<1>2. CASE id \in DOMAIN files
  <2> DEFINE n == Len(order)
             k == Place(id)
             t == SubSeq(order, 1, k - 1) \o SubSeq(order, k + 1, n)
  <2>1. /\ DOMAIN order = 1..n /\ n \in Nat /\ k \in 1..n /\ order[k] = id
        /\ \A j \in 1..n : j # k => order[j] # id
    BY <1>2, PlaceFacts
  <2>2. order \in Seq(Names) /\ ToSet(order) = DOMAIN files
        /\ \A i, j \in DOMAIN order : order[i] = order[j] => i = j
    BY DEF OrderOK
  <2>3. Without(id) = t
    BY <1>2, <2>2 DEF Without, RemoveAt
  <2> DEFINE u == SubSeq(order, 1, k - 1)
             v == SubSeq(order, k + 1, n)
  <2> HIDE DEF k, n
  <2>4. \A i \in 1..n : order[i] \in Names
    BY <2>1, <2>2
  <2>5. /\ u \in Seq(Names) /\ Len(u) = k - 1
        /\ \A j \in 1..(k - 1) : u[j] = order[j]
    <3>1. 1 \in Int /\ k - 1 \in Int /\ \A i \in 1..(k - 1) : order[i] \in Names
      BY <2>1, <2>4
    <3>2. /\ u \in Seq(Names) /\ Len(u) = (IF 1 <= k - 1 THEN (k - 1) - 1 + 1 ELSE 0)
          /\ \A j \in 1..((k - 1) - 1 + 1) : u[j] = order[1 + j - 1]
      BY <3>1, SubSeqProperties
    <3> HIDE DEF u
    <3>3. QED
      BY <2>1, <3>2
  <2>6. /\ v \in Seq(Names) /\ Len(v) = n - k
        /\ \A j \in 1..(n - k) : v[j] = order[j + k]
    <3>1. k + 1 \in Int /\ n \in Int /\ \A i \in (k + 1)..n : order[i] \in Names
      BY <2>1, <2>4
    <3>2. /\ v \in Seq(Names) /\ Len(v) = (IF k + 1 <= n THEN n - (k + 1) + 1 ELSE 0)
          /\ \A j \in 1..(n - (k + 1) + 1) : v[j] = order[(k + 1) + j - 1]
      BY <3>1, SubSeqProperties
    <3> HIDE DEF v
    <3>3. QED
      BY <2>1, <3>2
  <2> HIDE DEF t, u, v
  <2>7. /\ t \in Seq(Names) /\ DOMAIN t = 1..(n - 1)
        /\ \A j \in 1..(n - 1) : t[j] = IF j < k THEN order[j] ELSE order[j + 1]
    <3>1. t = u \o v
      BY DEF t, u, v, n
    <3>2. /\ t \in Seq(Names) /\ Len(t) = (k - 1) + (n - k)
          /\ \A j \in 1..((k - 1) + (n - k)) :
               t[j] = IF j <= k - 1 THEN u[j] ELSE v[j - (k - 1)]
      BY <2>5, <2>6, <3>1, ConcatProperties
    <3>3. DOMAIN t = 1..(n - 1)
      BY <2>1, <3>2
    <3>4. ASSUME NEW j \in 1..(n - 1)
          PROVE  t[j] = IF j < k THEN order[j] ELSE order[j + 1]
      <4>1. t[j] = IF j <= k - 1 THEN u[j] ELSE v[j - (k - 1)]
        BY <2>1, <3>2
      <4>2. CASE j < k
        BY <2>1, <2>5, <4>1, <4>2
      <4>3. CASE ~(j < k)
        <5>1. j - (k - 1) \in 1..(n - k) /\ (j - (k - 1)) + k = j + 1
          BY <2>1, <4>3
        <5>2. v[j - (k - 1)] = order[(j - (k - 1)) + k]
          BY <2>6, <5>1
        <5>3. QED
          BY <2>1, <4>1, <4>3, <5>1, <5>2
      <4>4. QED
        BY <4>2, <4>3
    <3>5. QED
      BY <3>2, <3>3, <3>4
  <2>8. \A j \in 1..(n - 1) : \E i \in 1..n : i # k /\ t[j] = order[i]
                                              /\ i = IF j < k THEN j ELSE j + 1
    BY <2>1, <2>7
  <2>9. \A i \in 1..n : i # k => \E j \in 1..(n - 1) : t[j] = order[i]
    <3>1. ASSUME NEW i \in 1..n, i # k
          PROVE  \E j \in 1..(n - 1) : t[j] = order[i]
      <4>1. CASE i < k
        BY <2>1, <2>7, <4>1
      <4>2. CASE i > k
        <5>1. i - 1 \in 1..(n - 1) /\ ~(i - 1 < k) /\ (i - 1) + 1 = i
          BY <2>1, <4>2
        <5>2. t[i - 1] = order[i]
          BY <2>7, <5>1
        <5>3. QED
          BY <5>1, <5>2
      <4>3. QED
        BY <2>1, <3>1, <4>1, <4>2
    <3>2. QED
      BY <3>1
  <2>10. ToSet(t) = DOMAIN files \ {id}
    <3>1. \A e : e \in ToSet(t) <=> \E j \in 1..(n - 1) : t[j] = e
      BY <2>7 DEF ToSet
    <3>2. \A e : e \in DOMAIN files <=> \E i \in 1..n : order[i] = e
      BY <2>1, <2>2 DEF ToSet
    <3>3. \A e : e \in ToSet(t) => e \in DOMAIN files /\ e # id
      BY <2>1, <2>8, <3>1, <3>2
    <3>4. ASSUME NEW e \in DOMAIN files, e # id
          PROVE  e \in ToSet(t)
      <4>1. PICK i \in 1..n : order[i] = e
        BY <3>2, <3>4
      <4>2. i # k
        BY <2>1, <3>4, <4>1
      <4>3. QED
        BY <2>9, <3>1, <4>1, <4>2
    <3>5. QED
      BY <3>3, <3>4
  <2>11. ASSUME NEW i \in 1..(n - 1), NEW j \in 1..(n - 1), t[i] = t[j]
         PROVE  i = j
    <3>1. PICK a \in 1..n : t[i] = order[a] /\ a = IF i < k THEN i ELSE i + 1
      BY <2>8
    <3>2. PICK b \in 1..n : t[j] = order[b] /\ b = IF j < k THEN j ELSE j + 1
      BY <2>8
    <3>3. a = b
      BY <2>1, <2>2, <2>11, <3>1, <3>2
    <3>4. QED
      BY <2>1, <3>1, <3>2, <3>3
  <2>12. QED
    BY <2>3, <2>7, <2>10, <2>11
<1>3. QED
  BY <1>1, <1>2

(* What is shown next is another file, or none is left. *)
LEMMA FollowerFacts ==
  ASSUME OrderOK, NEW id \in DOMAIN files, id # NoFile
  PROVE  /\ Follower(id) # id
         /\ \/ Follower(id) \in DOMAIN files
            \/ Follower(id) = NoFile /\ DOMAIN files = {id}
<1> DEFINE n == Len(order)
           k == Place(id)
<1>1. /\ DOMAIN order = 1..n /\ n \in Nat /\ k \in 1..n /\ order[k] = id
      /\ \A j \in 1..n : j # k => order[j] # id
      /\ ToSet(order) = DOMAIN files
  BY PlaceFacts DEF OrderOK
<1>2. Follower(id) = IF k < n THEN order[k + 1] ELSE IF k > 1 THEN order[k - 1] ELSE NoFile
  BY DEF Follower
<1> HIDE DEF n, k
<1>3. CASE k < n
  <2>1. k + 1 \in 1..n /\ k + 1 # k
    BY <1>1, <1>3
  <2>2. QED
    BY <1>1, <1>2, <1>3, <2>1 DEF ToSet
<1>4. CASE ~(k < n) /\ k > 1
  <2>1. k - 1 \in 1..n /\ k - 1 # k
    BY <1>1, <1>4
  <2>2. QED
    BY <1>1, <1>2, <1>4, <2>1 DEF ToSet
<1>5. CASE ~(k < n) /\ ~(k > 1)
  <2>1. \A j \in 1..n : j = k
    BY <1>1, <1>5
  <2>2. ToSet(order) = {id}
    BY <1>1, <2>1 DEF ToSet
  <2>3. QED
    BY <1>1, <1>2, <1>5, <2>2
<1>6. QED
  BY <1>3, <1>4, <1>5

(* A file is saved as it should be when it was, or has been put there from the editor. *)
LEMMA SavedOne ==
  ASSUME FilesInv, NEW all, \A f \in DOMAIN all : IsFile(all[f]),
         ~strayed' => ~strayed /\ NoneWaits(syntax),
         NEW j \in DOMAIN all,
         j # curr_file => j \in DOMAIN files /\ all[j] = files[j] /\ (j \notin unmarked' => j \notin unmarked),
         j = curr_file /\ j \notin unmarked' \union {NoFile} =>
           j \in DOMAIN files /\ all[j] = files[j] /\ j \notin unmarked /\ ~changesDue
  PROVE  Saved(j, save_file(curr_file, all)[j], typed[j], had[j], meant[j], strayed', unmarked')
<1> DEFINE new == save_file(curr_file, all)
<1>1. CASE j # curr_file
  <2>1. new[j] = files[j]
    BY <1>1, SaveFacts DEF FilesInv
  <2>2. Saved(j, files[j], typed[j], had[j], meant[j], strayed, unmarked)
    BY <1>1 DEF FilesInv, OthersSaved
  <2> HIDE DEF new
  <2>3. QED
    BY <1>1, <2>1, <2>2 DEF Saved, new
<1>2. CASE j = curr_file
  <2>1. /\ IsFile(new[j]) /\ new[j].text = text /\ new[j].history = history
        /\ new[j].syntax = syntax.now
        /\ new[j].edited = all[j].edited /\ new[j].compare = all[j].compare
    BY <1>2, SaveFacts DEF FilesInv
  <2> HIDE DEF new
  <2>2. text = typed[j] /\ Entries(history) \subseteq had[j] /\ (~strayed' => syntax.now = meant[j])
    BY <1>2 DEF FilesInv, InEditor, SyntaxRight
  <2>3. j \notin unmarked' \union {NoFile} => MarkTells(new[j], new[j].text)
    <3>1. ASSUME j \notin unmarked' \union {NoFile}
          PROVE  MarkTells(files[j], text)
      BY <1>2, <3>1 DEF FilesInv, EditedTold, MarkTells
    <3>2. QED
      BY <1>2, <2>1, <3>1 DEF MarkTells
  <2>4. QED
    BY <2>1, <2>2, <2>3 DEF Saved, new
<1>3. QED
  BY <1>1, <1>2

(* What showing another file does to the marks and to what is waited for. *)
LEMMA DisplayFacts ==
  ASSUME FilesInv, NEW id, NEW all, NEW closed, display_file(id, all, closed)
  PROVE  /\ ~strayed' => ~strayed /\ NoneWaits(syntax)
         /\ \A j : j \notin closed /\ j \notin unmarked' =>
              j \notin unmarked /\ (j = curr_file => ~changesDue /\ id # curr_file)
<1>1. /\ strayed' = (strayed \/ Waiting # {})
      /\ unmarked' = (IF changesDue \/ id = curr_file
                      THEN unmarked \union {curr_file} ELSE unmarked) \ closed
  BY DEF display_file
<1>2. ~strayed' => ~strayed /\ NoneWaits(syntax)
  BY <1>1, WaitingFacts DEF FilesInv, FilesTypeOK
<1>3. QED
  BY <1>1, <1>2

(* A file is opened, for the first time or again. *)
LEMMA OpenFileKeeps ==
  ASSUME FilesInv, NEW id \in Ids, NEW new \in Texts, NEW s \in Syntaxes, open_file(id, new, s)
  PROVE  FilesInv'
<1> DEFINE base == With(files, id, new, s)
           all == save_file(curr_file, base)
<1>1. /\ display_file(id, all, {})
      /\ order' = IF id \in DOMAIN files THEN order ELSE Append(order, id)
      /\ IF id = curr_file THEN UNCHANGED <<typed, had, meant>>
         ELSE /\ typed' = [typed EXCEPT ![id] = new] /\ had' = [had EXCEPT ![id] = {new}]
              /\ meant' = [meant EXCEPT ![id] = s]
      /\ UNCHANGED timers
  BY DEF open_file
<1>2. /\ DOMAIN files \subseteq Names /\ id \in Names /\ curr_file \in Names
      /\ typed \in [Names -> Texts] /\ had \in [Names -> SUBSET Texts]
      /\ meant \in [Names -> Syntaxes] /\ (\A j \in Names : typed[j] \in had[j])
      /\ text = typed[curr_file]
  BY DEF FilesInv, FilesTypeOK, InEditor, Names
<1>3. /\ typed' \in [Names -> Texts] /\ had' \in [Names -> SUBSET Texts]
      /\ meant' \in [Names -> Syntaxes]
      /\ \A j \in Names : j # id \/ id = curr_file =>
           typed'[j] = typed[j] /\ had'[j] = had[j] /\ meant'[j] = meant[j]
      /\ id # curr_file => typed'[id] = new /\ had'[id] = {new} /\ meant'[id] = s
  BY <1>1, <1>2
<1>4. \A j \in Names : typed'[j] \in had'[j]
  BY <1>2, <1>3
<1>5. /\ DOMAIN base = DOMAIN files \union {id} /\ base[id] = NewFile(new, s)
      /\ \A f \in DOMAIN files : f # id => base[f] = files[f]
  BY DEF With
<1>6. /\ IsFile(NewFile(new, s)) /\ NewFile(new, s).text = new
      /\ NewFile(new, s).syntax = s /\ Entries(NewFile(new, s).history) = {}
      /\ MarkTells(NewFile(new, s), new)
  BY NewFileFacts DEF FilesInv
<1> HIDE DEF base
<1>7. \A f \in DOMAIN base : IsFile(base[f])
  BY <1>5, <1>6 DEF FilesInv, FilesTypeOK
<1>8. DOMAIN all = DOMAIN base /\ (id # curr_file => all[id] = base[id])
  BY <1>5, <1>7, SaveFacts DEF FilesInv
<1>9. /\ ~strayed' => ~strayed /\ NoneWaits(syntax)
      /\ \A j : j \notin unmarked' =>
           j \notin unmarked /\ (j = curr_file => ~changesDue /\ id # curr_file)
  BY <1>1, DisplayFacts
<1>10. ASSUME NEW j \in DOMAIN all
       PROVE  Saved(j, all[j], typed'[j], had'[j], meant'[j], strayed', unmarked')
  <2>1. CASE j = id /\ id # curr_file
    <3>1. all[j] = NewFile(new, s)
      BY <1>5, <1>8, <2>1
    <3> HIDE DEF all
    <3>2. QED
      BY <1>3, <1>6, <2>1, <3>1 DEF Saved
  <2>2. CASE j # id \/ id = curr_file
    <3>1. Saved(j, all[j], typed[j], had[j], meant[j], strayed', unmarked')
      BY <1>5, <1>7, <1>8, <1>9, <1>10, <2>2, SavedOne
    <3>2. j \in Names
      BY <1>2, <1>5, <1>8, <1>10
    <3> HIDE DEF all
    <3>3. QED
      BY <1>3, <2>2, <3>1, <3>2
  <2>3. QED
    BY <2>1, <2>2
<1> HIDE DEF all
<1>11. DOMAIN all = DOMAIN files \union {id} /\ DOMAIN all \subseteq Names /\ id \in DOMAIN all \ {}
  BY <1>2, <1>5, <1>8
<1>12. curr_file \in DOMAIN all \ {} => text \in had'[curr_file]
  BY <1>2, <1>3
<1>13. /\ FilesTypeOK' /\ OthersSaved' /\ InEditor' /\ RedoFollowsUndo' /\ EditedTold'
       /\ DOMAIN files' = DOMAIN all \ {}
  <2>1. \A j \in DOMAIN all \ {} :
          Saved(j, all[j], typed'[j], had'[j], meant'[j], strayed', unmarked')
    BY <1>10
  <2>2. display_file(id, all, {}) /\ UNCHANGED timers
    BY <1>1
  <2>3. QED
    BY <1>3, <1>4, <1>11, <1>12, <2>1, <2>2, DisplayKeeps
<1>14. OrderOK'
  <2>1. OrderOK
    BY DEF FilesInv
  <2>2. CASE id \in DOMAIN files
    BY <1>1, <1>11, <1>13, <2>1, <2>2 DEF OrderOK
  <2>3. CASE id \notin DOMAIN files
    <3>1. order \in Seq(Names) /\ order' = Append(order, id) /\ DOMAIN files' = ToSet(order) \union {id}
      BY <1>1, <1>11, <1>13, <2>1, <2>3 DEF OrderOK
    <3>2. order' \in Seq(Names) /\ ToSet(order') = DOMAIN files'
      BY <1>2, <3>1, EntryFacts
    <3>3. /\ DOMAIN order = 1..Len(order) /\ Len(order) \in Nat
          /\ DOMAIN order' = 1..(Len(order) + 1)
          /\ \A i \in 1..Len(order) : order'[i] = order[i]
          /\ order'[Len(order) + 1] = id
      BY <1>2, <3>1
    <3>4. \A i \in 1..Len(order) : order[i] # id
      BY <2>1, <2>3, <3>3 DEF OrderOK, ToSet
    <3>5. \A i \in 1..(Len(order) + 1) : i \in 1..Len(order) \/ i = Len(order) + 1
      BY <3>3
    <3>6. ASSUME NEW i \in DOMAIN order', NEW j \in DOMAIN order', order'[i] = order'[j]
          PROVE  i = j
      <4>1. CASE i \in 1..Len(order) /\ j \in 1..Len(order)
        BY <2>1, <3>3, <3>6, <4>1 DEF OrderOK
      <4>2. QED
        BY <3>3, <3>4, <3>5, <3>6, <4>1
    <3>7. QED
      BY <3>2, <3>6 DEF OrderOK, Names
  <2>4. QED
    BY <2>2, <2>3
<1>15. QED
  BY <1>13, <1>14 DEF FilesInv

(* Another file that is open is shown. *)
LEMMA SwitchToFileKeeps ==
  ASSUME FilesInv, NEW id \in Ids, switch_to_file(id)
  PROVE  FilesInv'
<1> DEFINE all == save_file(curr_file, files)
<1>1. /\ id \in DOMAIN files /\ id # curr_file
      /\ display_file(id, all, {})
      /\ UNCHANGED <<order, timers, typed, had, meant>>
  BY DEF switch_to_file
<1>2. /\ DOMAIN files \subseteq Names /\ curr_file \in Names
      /\ typed \in [Names -> Texts] /\ had \in [Names -> SUBSET Texts]
      /\ meant \in [Names -> Syntaxes] /\ (\A j \in Names : typed[j] \in had[j])
      /\ text = typed[curr_file] /\ \A f \in DOMAIN files : IsFile(files[f])
  BY DEF FilesInv, FilesTypeOK, InEditor
<1>3. DOMAIN all = DOMAIN files
  BY <1>2, SaveFacts DEF FilesInv
<1>4. /\ ~strayed' => ~strayed /\ NoneWaits(syntax)
      /\ \A j : j \notin unmarked' =>
           j \notin unmarked /\ (j = curr_file => ~changesDue /\ id # curr_file)
  BY <1>1, DisplayFacts
<1>5. ASSUME NEW j \in DOMAIN all
      PROVE  Saved(j, all[j], typed'[j], had'[j], meant'[j], strayed', unmarked')
  <2>1. Saved(j, all[j], typed[j], had[j], meant[j], strayed', unmarked')
    BY <1>2, <1>3, <1>4, <1>5, SavedOne
  <2> HIDE DEF all
  <2>2. QED
    BY <1>1, <2>1
<1> HIDE DEF all
<1>6. /\ FilesTypeOK' /\ OthersSaved' /\ InEditor' /\ RedoFollowsUndo' /\ EditedTold'
      /\ DOMAIN files' = DOMAIN all \ {}
  BY <1>1, <1>2, <1>3, <1>5, DisplayKeeps
<1>7. OrderOK'
  BY <1>1, <1>3, <1>6 DEF FilesInv, OrderOK
<1>8. QED
  BY <1>6, <1>7 DEF FilesInv

(* The list of names and of files without one of them, which is not shown. *)
LEMMA RemovedFacts ==
  ASSUME FilesTypeOK, OrderOK, NEW id, NEW all, DOMAIN all = DOMAIN files,
         \A f \in DOMAIN all : IsFile(all[f]),
         files' = Restrict(all, DOMAIN files \ {id}), order' = Without(id)
  PROVE  /\ OrderOK' /\ DOMAIN files' = DOMAIN files \ {id}
         /\ \A f \in DOMAIN files' : files'[f] = all[f] /\ IsFile(files'[f])
<1>1. DOMAIN files' = DOMAIN files \ {id} /\ \A f \in DOMAIN files' : files'[f] = all[f]
  BY DEF Restrict
<1>2. /\ order' \in Seq(Names) /\ ToSet(order') = DOMAIN files'
      /\ \A i, j \in DOMAIN order' : order'[i] = order'[j] => i = j
  BY <1>1, WithoutFacts
<1>3. OrderOK'
  BY <1>2 DEF OrderOK, Names
<1>4. QED
  BY <1>1, <1>3

(* A file is closed: if it was shown, the next one is, or '' when it was the last. *)
LEMMA CloseFileKeeps ==
  ASSUME FilesInv, NEW id \in Ids, close_file(id)
  PROVE  FilesInv'
<1> DEFINE next == Follower(id)
           first == next \notin DOMAIN files
           base == IF first THEN With(files, NoFile, Empty, syntax.now) ELSE files
           all == save_file(curr_file, base)
<1>1. /\ id \in DOMAIN files /\ id # NoFile /\ UNCHANGED timers
      /\ FilesTypeOK /\ OrderOK
  BY DEF close_file, FilesInv
<1>2. CASE id # curr_file
  <2>1. /\ files' = Restrict(files, DOMAIN files \ {id}) /\ order' = Without(id)
        /\ UNCHANGED <<text, history, curr_file, syntax, meant, strayed, redoDue, changesDue,
                       typed, had, unseen, unmarked>>
    BY <1>2 DEF close_file, syntaxVars, timers
  <2>2. /\ OrderOK' /\ DOMAIN files' = DOMAIN files \ {id}
        /\ \A f \in DOMAIN files' : files'[f] = files[f] /\ IsFile(files'[f])
    <3>1. \A f \in DOMAIN files : IsFile(files[f])
      BY <1>1 DEF FilesTypeOK
    <3>2. QED
      BY <1>1, <2>1, <3>1, RemovedFacts
  <2>3. FilesTypeOK'
    BY <1>1, <1>2, <2>1, <2>2 DEF FilesTypeOK, IsHistory, IsFile, IsSyntax
  <2>4. OthersSaved'
    BY <2>1, <2>2 DEF FilesInv, OthersSaved, Saved
  <2>5. InEditor' /\ RedoFollowsUndo' /\ EditedTold'
    BY <2>1, <2>2 DEF FilesInv, InEditor, RedoFollowsUndo, EditedTold
  <2>6. QED
    BY <2>2, <2>3, <2>4, <2>5 DEF FilesInv
<1>3. CASE id = curr_file
  <2>1. /\ display_file(next, all, {id})
        /\ order' = IF first THEN <<NoFile>> ELSE Without(id)
        /\ typed' = IF first THEN [typed EXCEPT ![NoFile] = Empty] ELSE typed
        /\ had' = IF first THEN [had EXCEPT ![NoFile] = {Empty}] ELSE had
        /\ meant' = IF first THEN [meant EXCEPT ![NoFile] = syntax.now] ELSE meant
    BY <1>3 DEF close_file
  <2>2. next # id /\ (first => next = NoFile /\ DOMAIN files = {id})
    BY <1>1, FollowerFacts
  <2> HIDE DEF next
  <2>3. /\ DOMAIN files \subseteq Names /\ NoFile \in Names /\ Empty \in Texts
        /\ syntax.now \in Syntaxes /\ text \in Texts
        /\ typed \in [Names -> Texts] /\ had \in [Names -> SUBSET Texts]
        /\ meant \in [Names -> Syntaxes] /\ (\A j \in Names : typed[j] \in had[j])
        /\ \A f \in DOMAIN files : IsFile(files[f])
    BY FilesAssumption DEF FilesInv, FilesTypeOK, InEditor, Names, IsSyntax
  <2>4. /\ typed' \in [Names -> Texts] /\ had' \in [Names -> SUBSET Texts]
        /\ meant' \in [Names -> Syntaxes]
        /\ \A j \in Names : j # NoFile \/ ~first =>
             typed'[j] = typed[j] /\ had'[j] = had[j] /\ meant'[j] = meant[j]
        /\ first => typed'[NoFile] = Empty /\ had'[NoFile] = {Empty} /\ meant'[NoFile] = syntax.now
    <3>1. CASE first
      BY <2>1, <2>3, <3>1
    <3>2. CASE ~first
      BY <2>1, <2>3, <3>2
    <3>3. QED
      BY <3>1, <3>2
  <2>5. \A j \in Names : typed'[j] \in had'[j]
    BY <2>3, <2>4
  <2>6. /\ DOMAIN base = DOMAIN files \union {next}
        /\ first => base[NoFile] = NewFile(Empty, syntax.now)
        /\ \A f \in DOMAIN files : base[f] = files[f]
    <3>1. CASE first
      BY <1>1, <2>2, <3>1 DEF With
    <3>2. CASE ~first
      BY <3>2
    <3>3. QED
      BY <3>1, <3>2
  <2>7. /\ IsFile(NewFile(Empty, syntax.now)) /\ NewFile(Empty, syntax.now).text = Empty
        /\ NewFile(Empty, syntax.now).syntax = syntax.now
        /\ Entries(NewFile(Empty, syntax.now).history) = {}
    BY <1>1, <2>3, NewFileFacts
  <2> HIDE DEF base
  <2>8. \A f \in DOMAIN base : IsFile(base[f])
    BY <2>2, <2>3, <2>6, <2>7
  <2>9. DOMAIN all = DOMAIN base /\ (\A f \in DOMAIN base : f # id => all[f] = base[f])
    BY <1>1, <1>3, <2>8, SaveFacts
  <2>10. /\ ~strayed' => ~strayed /\ NoneWaits(syntax)
         /\ \A j : j \notin {id} /\ j \notin unmarked' => j \notin unmarked
    BY <2>1, DisplayFacts
  <2>11. ASSUME NEW j \in DOMAIN all \ {id}
         PROVE  Saved(j, all[j], typed'[j], had'[j], meant'[j], strayed', unmarked')
    <3>1. CASE first
      <4>1. j = NoFile /\ all[j] = NewFile(Empty, syntax.now)
        BY <2>2, <2>6, <2>9, <2>11, <3>1
      <4> HIDE DEF all
      <4>2. QED
        BY <2>4, <2>7, <3>1, <4>1 DEF Saved
    <3>2. CASE ~first
      <4>1. j \in DOMAIN files /\ j # curr_file /\ j \in Names /\ all[j] = files[j]
        BY <1>3, <2>3, <2>6, <2>9, <2>11, <3>2
      <4> HIDE DEF all
      <4>2. Saved(j, files[j], typed[j], had[j], meant[j], strayed, unmarked)
        BY <4>1 DEF FilesInv, OthersSaved
      <4>3. Saved(j, files[j], typed[j], had[j], meant[j], strayed', unmarked')
        BY <2>10, <2>11, <4>2 DEF Saved
      <4>4. QED
        BY <2>4, <3>2, <4>1, <4>3
    <3>3. QED
      BY <3>1, <3>2
  <2> HIDE DEF all
  <2>12. /\ DOMAIN all = DOMAIN files \union {next} /\ DOMAIN all \subseteq Names
         /\ next \in DOMAIN all \ {id}
    BY <2>2, <2>3, <2>6, <2>9
  <2>13. /\ FilesTypeOK' /\ OthersSaved' /\ InEditor' /\ RedoFollowsUndo' /\ EditedTold'
         /\ DOMAIN files' = DOMAIN all \ {id}
    <3>1. curr_file \in DOMAIN all \ {id} => text \in had'[curr_file]
      BY <1>3
    <3>2. QED
      BY <1>1, <2>1, <2>4, <2>5, <2>11, <2>12, <3>1, DisplayKeeps
  <2>14. OrderOK'
    <3>1. CASE first
      <4>1. order' = <<NoFile>> /\ DOMAIN files' = {NoFile}
        BY <1>1, <2>1, <2>2, <2>12, <2>13, <3>1
      <4>2. /\ order' \in Seq(Names) /\ DOMAIN order' = {1} /\ order'[1] = NoFile
        BY <2>3, <4>1
      <4>3. QED
        BY <4>1, <4>2 DEF OrderOK, ToSet, Names
    <3>2. CASE ~first
      <4>1. order' = Without(id) /\ DOMAIN files' = DOMAIN files \ {id}
        BY <2>1, <2>12, <2>13, <3>2
      <4>2. /\ order' \in Seq(Names) /\ ToSet(order') = DOMAIN files'
            /\ \A i, j \in DOMAIN order' : order'[i] = order'[j] => i = j
        BY <1>1, <4>1, WithoutFacts
      <4>3. QED
        BY <4>2 DEF OrderOK, Names
    <3>3. QED
      BY <3>1, <3>2
  <2>15. QED
    BY <2>13, <2>14 DEF FilesInv
<1>4. QED
  BY <1>2, <1>3

(* Refused, the text shown has been saved in the file to close. *)
LEMMA CloseRefusedKeeps ==
  ASSUME FilesInv, NEW id \in Ids, close_refused(id)
  PROVE  FilesInv'
<1> DEFINE all == save_file(id, files)
<1>1. /\ id \in DOMAIN files /\ id # NoFile /\ files' = all
      /\ typed' = [typed EXCEPT ![id] = text] /\ had' = [had EXCEPT ![id] = had[curr_file]]
      /\ meant' = [meant EXCEPT ![id] = IF id = curr_file THEN meant[id] ELSE syntax.now]
      /\ unmarked' = unmarked \union {id}
      /\ UNCHANGED <<text, history, curr_file, order, syntax, strayed, redoDue, changesDue, unseen>>
  BY DEF close_refused, timers
<1>2. /\ FilesTypeOK /\ DOMAIN files \subseteq Names /\ curr_file \in Names /\ text \in Texts
      /\ typed \in [Names -> Texts] /\ had \in [Names -> SUBSET Texts]
      /\ meant \in [Names -> Syntaxes] /\ syntax.now \in Syntaxes
      /\ \A f \in DOMAIN files : IsFile(files[f])
      /\ text = typed[curr_file] /\ (\A j \in Names : typed[j] \in had[j])
      /\ Entries(history) \subseteq had[curr_file]
  BY DEF FilesInv, FilesTypeOK, IsSyntax, InEditor
<1>3. /\ typed' \in [Names -> Texts] /\ had' \in [Names -> SUBSET Texts]
      /\ meant' \in [Names -> Syntaxes]
      /\ typed'[id] = text /\ had'[id] = had[curr_file]
      /\ meant'[id] = IF id = curr_file THEN meant[id] ELSE syntax.now
      /\ \A j \in Names : j # id =>
           typed'[j] = typed[j] /\ had'[j] = had[j] /\ meant'[j] = meant[j]
  BY <1>1, <1>2
<1>4. /\ typed'[curr_file] = typed[curr_file] /\ had'[curr_file] = had[curr_file]
      /\ meant'[curr_file] = meant[curr_file]
      /\ \A j \in Names : typed'[j] \in had'[j]
  BY <1>2, <1>3
<1>5. /\ DOMAIN all = DOMAIN files /\ (\A f \in DOMAIN files : f # id => all[f] = files[f])
      /\ IsFile(all[id]) /\ all[id].text = text /\ all[id].history = history
      /\ all[id].syntax = syntax.now
  BY <1>1, <1>2, SaveFacts
<1> HIDE DEF all
<1>6. \A f \in DOMAIN all : IsFile(all[f])
  BY <1>2, <1>5
<1>7. FilesTypeOK'
  BY <1>1, <1>2, <1>3, <1>5, <1>6 DEF FilesTypeOK, IsHistory, IsFile, IsSyntax
<1>8. OrderOK'
  BY <1>1, <1>5 DEF FilesInv, OrderOK
<1>9. InEditor'
  BY <1>1, <1>2, <1>4 DEF FilesInv, InEditor, Entries
<1>10. OthersSaved'
  <2>1. ASSUME NEW j \in DOMAIN files \ {curr_file}
        PROVE  Saved(j, all[j], typed'[j], had'[j], meant'[j], strayed', unmarked')
    <3>1. CASE j = id
      BY <1>1, <1>2, <1>3, <1>5, <2>1, <3>1 DEF Saved
    <3>2. CASE j # id
      <4>1. Saved(j, files[j], typed[j], had[j], meant[j], strayed, unmarked)
        BY <2>1 DEF FilesInv, OthersSaved
      <4>2. QED
        BY <1>1, <1>2, <1>3, <1>5, <2>1, <3>2, <4>1 DEF Saved
    <3>3. QED
      BY <3>1, <3>2
  <2>2. QED
    BY <1>1, <1>5, <2>1 DEF OthersSaved
<1>11. RedoFollowsUndo' /\ EditedTold'
  BY <1>1, <1>5 DEF FilesInv, RedoFollowsUndo, EditedTold
<1>12. QED
  BY <1>7, <1>8, <1>9, <1>10, <1>11 DEF FilesInv

(* Asking for a file saves it if it is the one shown; that one is not among the others. *)
LEMMA GetFileKeeps ==
  ASSUME FilesInv, get_file
  PROVE  FilesInv'
<1> DEFINE all == save_file(curr_file, files)
<1>1. /\ files' = all
      /\ UNCHANGED <<text, history, curr_file, order, syntax, meant, strayed,
                     redoDue, changesDue, typed, had, unseen, unmarked>>
  BY DEF get_file, syntaxVars, timers, ghosts
<1>2. FilesTypeOK /\ \A f \in DOMAIN files : IsFile(files[f])
  BY DEF FilesInv, FilesTypeOK
<1>3. /\ DOMAIN all = DOMAIN files /\ \A f \in DOMAIN files : f # curr_file => all[f] = files[f]
      /\ curr_file \in DOMAIN files =>
           /\ IsFile(all[curr_file])
           /\ all[curr_file].edited = files[curr_file].edited
           /\ all[curr_file].compare = files[curr_file].compare
  BY <1>2, SaveFacts
<1> HIDE DEF all
<1>4. \A f \in DOMAIN all : IsFile(all[f])
  BY <1>2, <1>3
<1>5. FilesTypeOK'
  BY <1>1, <1>2, <1>3, <1>4 DEF FilesTypeOK, IsHistory, IsFile, IsSyntax
<1>6. OrderOK' /\ OthersSaved'
  BY <1>1, <1>3 DEF FilesInv, OrderOK, OthersSaved, Saved
<1>7. InEditor' /\ RedoFollowsUndo' /\ EditedTold'
  BY <1>1, <1>3 DEF FilesInv, InEditor, Entries, RedoFollowsUndo, EditedTold
<1>8. QED
  BY <1>5, <1>6, <1>7 DEF FilesInv

(* Asking for all of them does the same, and forgets '', also when it is shown. *)
LEMMA GetAllFilesKeeps ==
  ASSUME FilesInv, get_all_files
  PROVE  FilesInv'
<1> DEFINE all == save_file(curr_file, files)
<1>1. /\ files' = Restrict(all, DOMAIN files \ {NoFile}) /\ order' = Without(NoFile)
      /\ UNCHANGED <<text, history, curr_file, syntax, meant, strayed,
                     redoDue, changesDue, typed, had, unseen, unmarked>>
  BY DEF get_all_files, syntaxVars, timers, ghosts
<1>2. FilesTypeOK /\ OrderOK /\ \A f \in DOMAIN files : IsFile(files[f])
  BY DEF FilesInv, FilesTypeOK
<1>3. /\ DOMAIN all = DOMAIN files /\ \A f \in DOMAIN files : f # curr_file => all[f] = files[f]
      /\ curr_file \in DOMAIN files =>
           /\ IsFile(all[curr_file])
           /\ all[curr_file].edited = files[curr_file].edited
           /\ all[curr_file].compare = files[curr_file].compare
  BY <1>2, SaveFacts
<1> HIDE DEF all
<1>4. \A f \in DOMAIN all : IsFile(all[f])
  BY <1>2, <1>3
<1>5. /\ OrderOK' /\ DOMAIN files' = DOMAIN files \ {NoFile}
      /\ \A f \in DOMAIN files' : files'[f] = all[f] /\ IsFile(files'[f])
  BY <1>1, <1>2, <1>3, <1>4, RemovedFacts
<1>6. FilesTypeOK'
  BY <1>1, <1>2, <1>5 DEF FilesTypeOK, IsHistory, IsFile, IsSyntax
<1>7. OthersSaved'
  <2>1. \A j \in DOMAIN files' \ {curr_file} :
          /\ files'[j] = files[j]
          /\ Saved(j, files[j], typed[j], had[j], meant[j], strayed, unmarked)
    BY <1>3, <1>5 DEF FilesInv, OthersSaved
  <2>2. QED
    BY <1>1, <2>1 DEF OthersSaved
<1>8. InEditor' /\ RedoFollowsUndo' /\ EditedTold'
  BY <1>1, <1>3, <1>5 DEF FilesInv, InEditor, Entries, RedoFollowsUndo, EditedTold
<1>9. QED
  BY <1>5, <1>6, <1>7, <1>8 DEF FilesInv

(* The page sets the mark, or takes it away and compares with the text of now. *)
LEMMA SetFileEditedModeKeeps ==
  ASSUME FilesInv, NEW id \in Ids, NEW to \in BOOLEAN, set_file_edited_mode(id, to)
  PROVE  FilesInv'
<1> DEFINE f == files[id]
           new == IF to THEN f.compare ELSE IF id = curr_file THEN text ELSE f.text
           g == [f EXCEPT !.edited = to, !.compare = new]
<1>1. /\ id \in DOMAIN files \ {NoFile}
      /\ files' = [files EXCEPT ![id] = g]
      /\ unmarked' = IF to THEN unmarked \union {id} ELSE unmarked \ {id}
      /\ UNCHANGED <<text, history, curr_file, order, syntax, meant, strayed,
                     redoDue, changesDue, typed, had, unseen>>
  BY DEF set_file_edited_mode, syntaxVars, timers
<1>2. FilesTypeOK /\ IsFile(f)
  BY <1>1 DEF FilesInv, FilesTypeOK
<1>3. ~to => new = IF id = curr_file THEN text ELSE f.text
  OBVIOUS
<1> HIDE DEF new
<1>4. /\ DOMAIN g = DOMAIN f /\ g.text = f.text /\ g.history = f.history
      /\ g.syntax = f.syntax /\ g.edited = to /\ g.compare = new
  <2> HIDE DEF f
  <2>1. QED
    BY <1>2 DEF IsFile
<1> HIDE DEF g
<1>5. IsFile(g)
  BY <1>2, <1>4 DEF IsFile
<1>6. /\ DOMAIN files' = DOMAIN files /\ files'[id] = g
      /\ \A j \in DOMAIN files : j # id => files'[j] = files[j]
  BY <1>1
<1>7. \A j \in DOMAIN files' : IsFile(files'[j])
  BY <1>2, <1>5, <1>6 DEF FilesTypeOK
<1>8. FilesTypeOK'
  BY <1>1, <1>2, <1>6, <1>7 DEF FilesTypeOK, IsHistory, IsFile, IsSyntax
<1>9. OrderOK' /\ InEditor' /\ RedoFollowsUndo'
  BY <1>1, <1>6 DEF FilesInv, OrderOK, InEditor, Entries, RedoFollowsUndo
<1>10. ~to => MarkTells(g, IF id = curr_file THEN text ELSE f.text)
  BY <1>3, <1>4 DEF MarkTells
<1>11. OthersSaved'
  <2>1. ASSUME NEW j \in DOMAIN files \ {curr_file}
        PROVE  Saved(j, files'[j], typed[j], had[j], meant[j], strayed, unmarked')
    <3>1. Saved(j, files[j], typed[j], had[j], meant[j], strayed, unmarked)
      BY <2>1 DEF FilesInv, OthersSaved
    <3>2. CASE j = id
      <4>1. j \notin unmarked' \union {NoFile} => ~to
        BY <1>1, <3>2
      <4>2. QED
        BY <1>4, <1>5, <1>6, <1>10, <2>1, <3>1, <3>2, <4>1 DEF Saved
    <3>3. CASE j # id
      BY <1>1, <1>6, <2>1, <3>1, <3>3 DEF Saved
    <3>4. QED
      BY <3>2, <3>3
  <2>2. QED
    BY <1>1, <1>6, <2>1 DEF OthersSaved
<1>12. EditedTold'
  <2>1. CASE curr_file = id
    BY <1>1, <1>6, <1>10, <2>1 DEF EditedTold, MarkTells
  <2>2. CASE curr_file # id
    BY <1>1, <1>6, <2>2 DEF FilesInv, EditedTold
  <2>3. QED
    BY <2>1, <2>2
<1>13. QED
  BY <1>8, <1>9, <1>11, <1>12 DEF FilesInv

-----------------------------------------------------------------------------
(* The invariant holds *)

(* The editor opens with the empty text, and with '' among its files or without any. *)
LEMMA InitFilesInv ==
  ASSUME InitFiles
  PROVE  FilesInv
<1>1. /\ text = Empty /\ history = NoHistory /\ curr_file = NoFile
      /\ syntax = [now |-> Shipped, loaded |-> {Shipped}, waits |-> [s \in Syntaxes |-> 0]]
      /\ meant = [id \in Names |-> Shipped] /\ strayed = FALSE
      /\ redoDue = FALSE /\ changesDue = FALSE
      /\ typed = [id \in Names |-> Empty] /\ had = [id \in Names |-> {Empty}]
      /\ unseen = FALSE /\ unmarked = {}
  BY DEF InitFiles, Names
<1>2. Empty \in Texts /\ Shipped \in Syntaxes /\ NoFile \in Names
  BY FilesAssumption DEF Names
<1>3. /\ IsHistory(history) /\ Entries(history) = {} /\ history.next = <<>>
  BY <1>1 DEF IsHistory, NoHistory, Entries, ToSet
<1>4. IsSyntax(syntax) /\ SyntaxRight(syntax, Shipped)
  BY <1>1, <1>2 DEF IsSyntax, SyntaxRight, WaitsFor, NoneWaits
<1>5. /\ DOMAIN files \subseteq {NoFile} /\ \A id \in DOMAIN files : IsFile(files[id])
      /\ OrderOK
  <2>1. CASE files = <<>> /\ order = <<>>
    BY <2>1 DEF OrderOK, ToSet
  <2>2. CASE files = [f \in {NoFile} |-> NewFile(Empty, Shipped)] /\ order = <<NoFile>>
    <3>1. order \in Seq(Names) /\ DOMAIN order = {1} /\ order[1] = NoFile
      BY <1>2, <2>2
    <3>2. IsFile(NewFile(Empty, Shipped))
      <4>1. NewFile(Empty, Shipped) = [text |-> Empty, history |-> history, edited |-> FALSE,
                                       compare |-> Empty, syntax |-> Shipped]
        BY <1>1 DEF NewFile
      <4>2. /\ DOMAIN NewFile(Empty, Shipped) = {"text", "history", "edited", "compare", "syntax"}
            /\ NewFile(Empty, Shipped).text = Empty
            /\ NewFile(Empty, Shipped).history = history
            /\ NewFile(Empty, Shipped).syntax = Shipped
        BY <4>1
      <4>3. QED
        BY <1>2, <1>3, <4>2 DEF IsFile
    <3>3. QED
      BY <2>2, <3>1, <3>2 DEF OrderOK, ToSet
  <2>3. QED
    BY <2>1, <2>2 DEF InitFiles
<1>6. FilesTypeOK
  BY <1>1, <1>2, <1>3, <1>4, <1>5 DEF FilesTypeOK
<1>7. OthersSaved
  BY <1>1, <1>5 DEF OthersSaved
<1>8. InEditor
  BY <1>1, <1>2, <1>3, <1>4 DEF InEditor
<1>9. RedoFollowsUndo /\ EditedTold
  BY <1>1, <1>3, <1>5 DEF RedoFollowsUndo, EditedTold
<1>10. QED
  BY <1>5, <1>6, <1>7, <1>8, <1>9 DEF FilesInv

(* Every step keeps it. *)
LEMMA NextFilesInv ==
  ASSUME FilesInv, [FilesNext]_filesVars
  PROVE  FilesInv'
<1>1. text \in Texts /\ redoDue \in BOOLEAN /\ changesDue \in BOOLEAN
  BY DEF FilesInv, FilesTypeOK
<1>2. ASSUME NEW next, TimersOf(next)
      PROVE  redoDue' \in BOOLEAN /\ changesDue' \in BOOLEAN
  BY <1>1, <1>2 DEF TimersOf
<1>3. ASSUME UNCHANGED timers
      PROVE  redoDue' \in BOOLEAN /\ changesDue' \in BOOLEAN
  BY <1>1, <1>3 DEF timers
<1>4. ASSUME NEW new \in Texts, Key(new)
      PROVE  FilesInv'
  <2>1. /\ Becomes(new) /\ TimersOf(history.next)
        /\ UNCHANGED <<history, tabs>> /\ UNCHANGED <<unseen, unmarked>>
    BY <1>4 DEF Key
  <2>2. QED
    BY <2>1, TypedKeeps
<1>5. CASE keyDown
  <2>1. CASE UndoKey
    BY <1>2, <2>1, UndoKeeps DEF UndoKey
  <2>2. CASE RedoKey
    BY <1>2, <2>2, RedoKeeps DEF RedoKey
  <2>3. QED
    BY <1>1, <1>4, <1>5, <2>1, <2>2 DEF keyDown
<1>6. CASE Edit
  <2>1. CASE UndoButton
    BY <1>3, <2>1, UndoKeeps DEF UndoButton
  <2>2. CASE RedoButton
    BY <1>3, <2>2, RedoKeeps DEF RedoButton
  <2>3. ASSUME NEW new \in Texts, Mouse(new)
        PROVE  FilesInv'
    <3>1. /\ Becomes(new) /\ UNCHANGED <<history, tabs>> /\ UNCHANGED timers
          /\ unseen' = TRUE /\ unmarked' = unmarked \union {curr_file}
      BY <2>3 DEF Mouse
    <3>2. QED
      BY <3>1, TypedKeeps
  <2>4. QED
    BY <1>5, <1>6, <2>1, <2>2, <2>3, SetEditableKeeps, ChangeSyntaxKeeps DEF Edit
<1>7. CASE Tab
  BY <1>7, GetFileKeeps, OpenFileKeeps, SwitchToFileKeeps, CloseFileKeeps, CloseRefusedKeeps,
     SetFileEditedModeKeeps DEF Tab
<1>8. CASE UNCHANGED filesVars
  BY <1>8 DEF filesVars, tabs, syntaxVars, timers, ghosts, FilesInv, FilesTypeOK, IsHistory,
              IsFile, IsSyntax, OrderOK, OthersSaved, Saved, InEditor, Entries,
              RedoFollowsUndo, EditedTold
<1>9. QED
  BY <1>6, <1>7, <1>8, CheckUndoKeeps, CheckRedoKeeps, CheckFileChangesKeeps, GetAllFilesKeeps,
     SyntaxTimerKeeps DEF FilesNext

(* The invariant holds in every reachable state. *)
LEMMA FilesInvHolds == FilesSpec => []FilesInv
<1>1. InitFiles => FilesInv
  BY InitFilesInv
<1>2. FilesInv /\ [FilesNext]_filesVars => FilesInv'
  BY NextFilesInv
<1>3. QED
  BY <1>1, <1>2, PTL DEF FilesSpec

(* Every file keeps the text the user left in it and the syntax asked for, however
   files are opened, shown and closed in between (open_file, switch_to_file,
   close_file with display_file and save_file). *)
THEOREM TabsKeepTextHolds == FilesSpec => []TabsKeepText
<1>1. ASSUME FilesInv
      PROVE  TabsKeepText
  <2>1. text = typed[curr_file]
    BY <1>1 DEF FilesInv, InEditor
  <2>2. \A id \in DOMAIN files \ {curr_file} :
          files[id].text = typed[id] /\ (~strayed => files[id].syntax = meant[id])
    BY <1>1 DEF FilesInv, OthersSaved, Saved
  <2>3. ~strayed /\ Waiting = {} => syntax.now = meant[curr_file]
    BY <1>1, WaitingFacts DEF FilesInv, FilesTypeOK, InEditor, SyntaxRight
  <2>4. QED
    BY <2>1, <2>2, <2>3 DEF TabsKeepText
<1>2. QED
  BY <1>1, FilesInvHolds, PTL

(* Undo and redo bring back nothing but what this file was, also in the files that
   are not shown, whose histories are saved with them. *)
THEOREM OwnHistoryHolds == FilesSpec => []OwnHistory
<1>1. ASSUME FilesInv
      PROVE  OwnHistory
  BY <1>1 DEF FilesInv, InEditor, OthersSaved, Saved, Entries, OwnHistory
<1>2. QED
  BY <1>1, FilesInvHolds, PTL

(* A redo does not overwrite what was typed after the undo: once check_redo has run
   there is something to redo only while the text is what the undo left. *)
THEOREM RedoFollowsUndoHolds == FilesSpec => []RedoFollowsUndo
  BY FilesInvHolds, PTL DEF FilesInv

(* The mark of the tab shown tells whether its text differs from the one opened or
   marked as saved (check_file_changes, undo, redo, set_file_edited_mode). *)
THEOREM EditedToldHolds == FilesSpec => []EditedTold
  BY FilesInvHolds, PTL DEF FilesInv

-----------------------------------------------------------------------------
\* One editor at most, and where the text c written last is: in the iframe when
\* the editor is on, in the textarea otherwise
HasText(e, c) ==
  /\ e.area = "on" => e.frames # <<>> /\ e.frames[1].shown /\ e.frames[1].text = c
                      /\ e.frames[1].state = "running" /\ ~e.base.shown
  /\ e.area # "on" => /\ e.base.shown /\ e.base.text = c
                      /\ e.frames # <<>> => ~e.frames[1].shown
IsFrame(f) == DOMAIN f = {"text", "state", "shown"}
Fields(e, a, f, b, s) ==
  /\ DOMAIN e = {"area", "frames", "base", "starts"}
  /\ e.area = a /\ e.frames = f /\ e.base = b /\ e.starts = s
IsEditor(e) ==
  /\ Fields(e, e.area, e.frames, e.base, e.starts)
  /\ DOMAIN e.base = {"text", "shown"}
  /\ e.area \in {"none", "on", "off"} /\ e.starts \in {0, 1}
  /\ e.frames # <<>> => /\ e.frames = <<e.frames[1]>> /\ IsFrame(e.frames[1])
                        /\ e.frames[1].state \in {"loading", "running"} /\ e.starts = 0
  /\ e.area = "none" => e.frames = <<>> /\ e.starts = 0
One(e, c) == IsEditor(e) /\ HasText(e, c)

\* What a call holds: h is the heading, u whether the view was opened in a hurry.
IsText(t) == DOMAIN t = {"of", "by", "is"}
CallOK(c, h, u) ==
  /\ DOMAIN c = {"op", "gen", "plan", "text", "last", "answered", "n"}
  /\ c.gen \in 1..MaxOpens
  /\ c.op = "load" /\ c.answered =>
       IsText(c.text) /\ c.text.of = c.plan /\ c.text.by = c.gen
  /\ c.op = "load" /\ c.last => c.plan = h
  /\ ~u /\ c.op = "save" /\ c.text.by = c.gen => c.text.of = c.plan

TypeOK ==
  /\ opened \in 0..MaxOpens /\ DOMAIN current = 1..MaxOpens
  /\ rows \in [Plans \union {AddNew} -> Seq(1..MaxOpens)]
Calls == \A c \in calls : CallOK(c, heading, hurried)

\* A closure that has loaded the text has it for the text of its plan.
Loads == /\ IsText(content)
         /\ \A g \in 1..MaxOpens : content.by = g => current[g] = content.of
Settled == settled => /\ opened \in 1..MaxOpens
                      /\ current[opened] = heading /\ content.of = heading
Text == One(editor, content) /\ Loads /\ Settled

IInv == TypeOK /\ Calls /\ (~hurried => Text) /\ SaveIntoOwn

USE PlansAssumption, BoundsAssumption, TextAssumption

-----------------------------------------------------------------------------
(* A list of one iframe: it is the first, and can be replaced and removed. *)
LEMMA OneFrame ==
  ASSUME NEW f, NEW g
  PROVE  /\ <<f>>[1] = f /\ [<<f>> EXCEPT ![1] = g] = <<g>> /\ <<f>> # <<>>
         /\ Tail(<<f>>) = <<>> /\ <<g>> \o <<>> = <<g>> /\ DOMAIN <<f>> = {1}
<1>1. <<f>>[1] = f /\ <<f>> # <<>> /\ DOMAIN <<f>> = {1}
  OBVIOUS
<1>2. [<<f>> EXCEPT ![1] = g] = <<g>>
  OBVIOUS
<1>3. Tail(<<f>>) = <<>>
  OBVIOUS
<1>4. <<g>> \o <<>> = <<g>>
  OBVIOUS
<1>5. QED
  BY <1>1, <1>2, <1>3, <1>4

(* An editor, changed. *)
LEMMA EditorExcept ==
  ASSUME NEW e, NEW a, NEW f, NEW b, NEW s, NEW t, Fields(e, a, f, b, s)
  PROVE  /\ Fields([e EXCEPT !.area = t], t, f, b, s)
         /\ Fields([e EXCEPT !.frames = t], a, t, b, s)
         /\ Fields([e EXCEPT !.base = t], a, f, t, s)
         /\ Fields([e EXCEPT !.starts = t], a, f, b, t)
  BY DEF Fields

(* What the page shows has the text. *)
LEMMA ValueIsText ==
  ASSUME NEW e, NEW c, One(e, c)
  PROVE  ~Throws(e) /\ getValue(e) = c
  BY DEF One, IsEditor, HasText, Throws, Ready, getValue

(* The page's own writing goes where the text is. *)
LEMMA SetKeepsOne ==
  ASSUME NEW e, NEW c, NEW t, One(e, c)
  PROVE  One(setValue(e, t), t)
<1>1. CASE e.area = "on"
  <2> DEFINE f == e.frames[1]
             g == [f EXCEPT !.text = t]
  <2>1. /\ e.frames = <<f>> /\ IsFrame(f) /\ e.starts = 0
        /\ f.shown /\ f.state = "running" /\ ~e.base.shown
    BY <1>1 DEF One, IsEditor, HasText
  <2>2. setValue(e, t) = [e EXCEPT !.frames = [e.frames EXCEPT ![1] = g]]
    BY <1>1 DEF setValue
  <2> HIDE DEF f
  <2>3. IsFrame(g) /\ g.text = t /\ g.state = "running" /\ g.shown
    BY <2>1 DEF IsFrame
  <2> HIDE DEF g
  <2>4. setValue(e, t) = [e EXCEPT !.frames = <<g>>]
    BY <2>1, <2>2, OneFrame DEF Fields
  <2>5. Fields([e EXCEPT !.frames = <<g>>], e.area, <<g>>, e.base, e.starts)
    BY EditorExcept DEF One, IsEditor
  <2>6. Fields(setValue(e, t), "on", <<g>>, e.base, 0)
    BY <1>1, <2>1, <2>4, <2>5
  <2>7. QED
    BY <1>1, <2>1, <2>3, <2>6, OneFrame DEF One, IsEditor, HasText, Fields
<1>2. CASE e.area # "on"
  <2> DEFINE b == [e.base EXCEPT !.text = t]
  <2>1. b.text = t /\ b.shown /\ DOMAIN b = {"text", "shown"}
    BY <1>2 DEF One, IsEditor, HasText
  <2>2. setValue(e, t) = [e EXCEPT !.base = b]
    BY <1>2 DEF setValue
  <2> HIDE DEF b
  <2>3. Fields([e EXCEPT !.base = b], e.area, e.frames, b, e.starts)
    BY EditorExcept DEF One, IsEditor
  <2>4. Fields(setValue(e, t), e.area, e.frames, b, e.starts)
    BY <2>2, <2>3
  <2>5. QED
    BY <1>2, <2>1, <2>4 DEF One, IsEditor, HasText, Fields
<1>3. QED
  BY <1>1, <1>2

(* Switching the editor off takes the text from the iframe, ... *)
LEMMA OffKeepsOne ==
  ASSUME NEW e, NEW c, One(e, c), e.area = "on"
  PROVE  /\ One(toggle_off(e), c) /\ toggle_off(e).area = "off"
         /\ toggle_off(e).frames # <<>> /\ toggle_off(e).starts = 0
<1> DEFINE f == e.frames[1]
           g == [f EXCEPT !.shown = FALSE]
           b == [text |-> f.text, shown |-> TRUE]
           e1 == [e EXCEPT !.area = "off"]
           l1 == [e1.frames EXCEPT ![1] = [e1.frames[1] EXCEPT !.shown = FALSE]]
           e2 == [e1 EXCEPT !.frames = l1]
           e3 == [e2 EXCEPT !.base = b]
<1>1. /\ e.frames = <<f>> /\ IsFrame(f) /\ e.starts = 0 /\ f.state = "running" /\ f.text = c
      /\ Fields(e, e.area, e.frames, e.base, e.starts) /\ Ready(e)
  BY DEF One, IsEditor, HasText, Ready
<1>2. toggle_off(e) = e3
  BY <1>1 DEF toggle_off
<1>3. b.shown /\ b.text = c /\ DOMAIN b = {"text", "shown"}
  BY <1>1
<1> HIDE DEF f, b
<1>4. IsFrame(g) /\ g.state = "running" /\ ~g.shown
  BY <1>1 DEF IsFrame
<1>5. Fields(e1, "off", e.frames, e.base, e.starts)
  BY <1>1, EditorExcept
<1> HIDE DEF e1
<1>6. e1.frames = <<f>> /\ e1.frames[1] = f
  BY <1>1, <1>5, OneFrame DEF Fields
<1>7. l1 = [<<f>> EXCEPT ![1] = g]
  BY <1>6
<1> HIDE DEF g, l1
<1>8. l1 = <<g>>
  BY <1>7, OneFrame
<1>9. Fields(e2, "off", l1, e.base, e.starts)
  BY <1>5, EditorExcept
<1> HIDE DEF e2
<1>10. Fields(e3, "off", l1, b, e.starts)
  BY <1>9, EditorExcept
<1> HIDE DEF e3
<1>11. Fields(toggle_off(e), "off", <<g>>, b, 0)
  BY <1>1, <1>2, <1>8, <1>10
<1>12. QED
  BY <1>3, <1>4, <1>11, OneFrame DEF One, IsEditor, HasText, Fields

(* ... and switching it on puts it there, if the iframe is ready. *)
LEMMA OnKeepsOne ==
  ASSUME NEW e, NEW c, One(e, c), e.area = "off"
  PROVE  One(toggle_on(e), c)
<1>1. CASE ~Ready(e)
  BY <1>1 DEF toggle_on
<1>2. CASE Ready(e)
  <2> DEFINE f == e.frames[1]
             f1 == [f EXCEPT !.shown = TRUE]
             g == [f1 EXCEPT !.text = e.base.text]
             b == [e.base EXCEPT !.shown = FALSE]
             e1 == [e EXCEPT !.area = "on"]
             l1 == [e1.frames EXCEPT ![1] = [e1.frames[1] EXCEPT !.shown = TRUE]]
             e2 == [e1 EXCEPT !.frames = l1]
             l2 == [e2.frames EXCEPT ![1] = [e2.frames[1] EXCEPT !.text = e.base.text]]
             e3 == [e2 EXCEPT !.frames = l2]
             b3 == [e3.base EXCEPT !.shown = FALSE]
             e4 == [e3 EXCEPT !.base = b3]
  <2>1. /\ e.frames = <<f>> /\ IsFrame(f) /\ e.starts = 0 /\ f.state = "running"
        /\ e.base.text = c
        /\ Fields(e, e.area, e.frames, e.base, e.starts)
        /\ DOMAIN e.base = {"text", "shown"}
    BY <1>2 DEF One, IsEditor, HasText, Ready
  <2>2. toggle_on(e) = e4
    BY <1>2 DEF toggle_on
  <2>3. ~b.shown /\ b.text = c /\ DOMAIN b = {"text", "shown"}
    BY <2>1
  <2> HIDE DEF f
  <2>4. IsFrame(g) /\ g.state = "running" /\ g.text = c /\ g.shown
    BY <2>1 DEF IsFrame
  <2>5. Fields(e1, "on", e.frames, e.base, e.starts)
    BY <2>1, EditorExcept
  <2> HIDE DEF e1
  <2>6. e1.frames = <<f>> /\ e1.frames[1] = f
    BY <2>1, <2>5, OneFrame DEF Fields
  <2>7. l1 = [<<f>> EXCEPT ![1] = f1]
    BY <2>6
  <2> HIDE DEF f1, l1
  <2>8. l1 = <<f1>>
    BY <2>7, OneFrame
  <2>9. Fields(e2, "on", l1, e.base, e.starts)
    BY <2>5, EditorExcept
  <2> HIDE DEF e2
  <2>10. e2.frames = <<f1>> /\ e2.frames[1] = f1
    BY <2>8, <2>9, OneFrame DEF Fields
  <2>11. l2 = [<<f1>> EXCEPT ![1] = g]
    BY <2>10
  <2> HIDE DEF g, l2
  <2>12. l2 = <<g>>
    BY <2>11, OneFrame
  <2>13. Fields(e3, "on", l2, e.base, e.starts)
    BY <2>9, EditorExcept
  <2> HIDE DEF e3
  <2>14. b3 = b
    BY <2>13 DEF Fields
  <2> HIDE DEF b, b3
  <2>15. Fields(e4, "on", l2, b3, e.starts)
    BY <2>13, EditorExcept
  <2> HIDE DEF e4
  <2>16. Fields(toggle_on(e), "on", <<g>>, b, 0)
    BY <2>1, <2>2, <2>12, <2>14, <2>15
  <2>17. QED
    BY <2>3, <2>4, <2>16, OneFrame DEF One, IsEditor, HasText, Fields
<1>3. QED
  BY <1>1, <1>2

(* The checkbox, the page and init all switch by toggle. *)
LEMMA ToggleKeepsOne ==
  ASSUME NEW e, NEW c, One(e, c), NEW to \in {"on", "off"}
  PROVE  One(toggle(e, to), c)
<1>1. CASE to = "off" /\ e.area = "on"
  BY <1>1, OffKeepsOne DEF toggle
<1>2. CASE to = "on" /\ e.area = "off"
  BY <1>2, OnKeepsOne DEF toggle
<1>3. CASE ~(to = "off" /\ e.area = "on") /\ ~(to = "on" /\ e.area = "off")
  BY <1>3 DEF toggle
<1>4. QED
  BY <1>1, <1>2, <1>3

(* Deleting an editor leaves its text in the textarea. *)
LEMMA DeleteKeepsOne ==
  ASSUME NEW e, NEW c, One(e, c), e.starts = 0
  PROVE  LET d == delete_instance(e)
         IN One(d, c) /\ d.area = "none" /\ d.frames = <<>> /\ d.starts = 0
<1> DEFINE closed == IF e.frames = <<>> THEN e ELSE toggle(e, "off")
<1>1. One(closed, c) /\ closed.area # "on" /\ closed.starts = 0
  <2>1. CASE e.area = "on"
    <3>1. closed = toggle_off(e)
      BY <2>1 DEF One, HasText, toggle
    <3>2. QED
      BY <2>1, <3>1, OffKeepsOne
  <2>2. CASE e.area # "on"
    BY <2>2 DEF toggle
  <2>3. QED
    BY <2>1, <2>2
<1> DEFINE e1 == [closed EXCEPT !.area = "none"]
           rest == IF e1.frames = <<>> THEN e1.frames ELSE Tail(e1.frames)
           e2 == [e1 EXCEPT !.frames = rest]
<1>2. delete_instance(e) = e2
  BY DEF delete_instance
<1> HIDE DEF closed
<1>3. Fields(closed, closed.area, closed.frames, closed.base, 0)
  BY <1>1 DEF One, IsEditor
<1>4. Fields(e1, "none", closed.frames, closed.base, 0)
  BY <1>3, EditorExcept
<1> HIDE DEF e1
<1>5. rest = <<>>
  <2>1. e1.frames = closed.frames
    BY <1>4 DEF Fields
  <2>2. CASE closed.frames = <<>>
    BY <2>1, <2>2
  <2>3. CASE closed.frames # <<>>
    <3>1. closed.frames = <<closed.frames[1]>>
      BY <1>1, <2>3 DEF One, IsEditor
    <3>2. Tail(closed.frames) = <<>>
      BY <3>1, OneFrame
    <3>3. QED
      BY <2>1, <2>3, <3>2
  <2>4. QED
    BY <2>2, <2>3
<1> HIDE DEF rest
<1>6. Fields(e2, "none", rest, closed.base, 0)
  BY <1>4, EditorExcept
<1> HIDE DEF e2
<1>7. Fields(delete_instance(e), "none", <<>>, closed.base, 0)
  BY <1>2, <1>5, <1>6
<1>8. QED
  BY <1>1, <1>7 DEF One, IsEditor, HasText, Fields

(* A start makes an iframe or sets a timer. *)
LEMMA StartKeepsOne ==
  ASSUME NEW e, NEW c, One(e, c), e.area = "off", e.frames = <<>>, e.starts = 0, NEW loaded
  PROVE  One(start(e, loaded), c)
<1>1. Fields(e, "off", <<>>, e.base, 0) /\ DOMAIN e.base = {"text", "shown"}
      /\ e.base.shown /\ e.base.text = c
  BY DEF One, IsEditor, HasText, Fields
<1>2. CASE loaded
  <2> DEFINE l == <<NewFrame>> \o e.frames
  <2>1. start(e, loaded) = [e EXCEPT !.frames = l]
    BY <1>2 DEF start
  <2>2. IsFrame(NewFrame) /\ NewFrame.state = "loading" /\ ~NewFrame.shown
    BY DEF NewFrame, IsFrame
  <2>3. l = <<NewFrame>>
    BY OneFrame
  <2> HIDE DEF l
  <2>4. Fields([e EXCEPT !.frames = l], "off", l, e.base, 0)
    BY <1>1, EditorExcept
  <2>5. Fields(start(e, loaded), "off", <<NewFrame>>, e.base, 0)
    BY <2>1, <2>3, <2>4
  <2>6. QED
    BY <1>1, <2>2, <2>5, OneFrame DEF One, IsEditor, HasText, Fields
<1>3. CASE ~loaded
  <2>1. start(e, loaded) = [e EXCEPT !.starts = e.starts + 1]
    BY <1>3 DEF start
  <2>2. Fields([e EXCEPT !.starts = e.starts + 1], "off", <<>>, e.base, e.starts + 1)
    BY <1>1, EditorExcept
  <2>3. Fields(start(e, loaded), "off", <<>>, e.base, 1)
    BY <2>1, <2>2
  <2>4. QED
    BY <1>1, <2>3 DEF One, IsEditor, HasText, Fields
<1>4. QED
  BY <1>2, <1>3

(* Opening the view: the editor of before is deleted, another one is started. *)
LEMMA InitKeepsOne ==
  ASSUME NEW e, NEW c, One(e, c), e.starts = 0, NEW loaded
  PROVE  One(init(e, loaded), c)
<1> DEFINE fresh == IF e.area = "none" THEN e ELSE delete_instance(e)
           off == [fresh EXCEPT !.area = "off"]
<1>1. init(e, loaded) = start(off, loaded)
  BY ValueIsText DEF init
<1>2. One(fresh, c) /\ fresh.area = "none" /\ fresh.frames = <<>> /\ fresh.starts = 0
  BY DeleteKeepsOne DEF One, IsEditor
<1> HIDE DEF fresh
<1>3. Fields(fresh, "none", <<>>, fresh.base, 0)
  BY <1>2 DEF One, IsEditor
<1>4. Fields(off, "off", <<>>, fresh.base, 0)
  BY <1>3, EditorExcept
<1> HIDE DEF off
<1>5. One(off, c) /\ off.area = "off" /\ off.frames = <<>> /\ off.starts = 0
  BY <1>2, <1>4 DEF One, IsEditor, HasText, Fields
<1>6. QED
  BY <1>1, <1>5, StartKeepsOne

-----------------------------------------------------------------------------
(* The scripts and the iframes are loaded, and the editor appears. *)
LEMMA LoaderKeepsOne ==
  ASSUME One(editor, content), LoaderNext
  PROVE  One(editor', content') /\ UNCHANGED <<content, hurried>>
<1>1. UNCHANGED <<content, hurried>>
  BY DEF LoaderNext, StartTimer, ScriptsLoad, FrameInit
<1>2. CASE StartTimer
  <2> DEFINE e == [editor EXCEPT !.starts = @ - 1]
  <2>1. /\ editor.area = "off" /\ editor.frames = <<>> /\ editor.starts = 1
        /\ editor' = start(e, scripts)
    <3>1. editor' = start(e, scripts) /\ editor.starts > 0
      BY <1>2 DEF StartTimer
    <3>2. editor.area = "off" /\ editor.frames = <<>> /\ editor.starts = 1
      BY <3>1 DEF One, IsEditor, HasText
    <3>3. QED
      BY <3>1, <3>2
  <2>2. Fields(editor, "off", <<>>, editor.base, 1)
    BY <2>1 DEF One, IsEditor
  <2>3. Fields(e, "off", <<>>, editor.base, 0)
    <3>1. Fields([editor EXCEPT !.starts = editor.starts - 1], "off", <<>>, editor.base,
                 editor.starts - 1)
      BY <2>2, EditorExcept
    <3>2. QED
      BY <2>1, <3>1
  <2> HIDE DEF e
  <2>4. One(e, content) /\ e.area = "off" /\ e.frames = <<>> /\ e.starts = 0
    BY <2>1, <2>3 DEF One, IsEditor, HasText, Fields
  <2>5. QED
    BY <1>1, <2>1, <2>4, StartKeepsOne
<1>3. CASE ScriptsLoad
  BY <1>1, <1>3 DEF ScriptsLoad
<1>4. CASE FrameInit
  <2>1. PICK i \in DOMAIN editor.frames :
          LET begun == [editor EXCEPT !.frames[i].state = "running"]
              fails == begun.area = "off" /\ ~Ready(begun)
          IN /\ editor.frames[i].state = "loading"
             /\ editor' = IF fails THEN [begun EXCEPT !.frames[i].state = "dead"]
                          ELSE toggle(begun, "on")
    BY <1>4 DEF FrameInit
  <2> DEFINE f == editor.frames[1]
             g == [f EXCEPT !.state = "running"]
             l == [editor.frames EXCEPT ![1] = g]
             begun == [editor EXCEPT !.frames = l]
  <2>2. editor.frames = <<f>> /\ i = 1
    <3>1. editor.frames # <<>>
      BY <2>1
    <3>2. editor.frames = <<editor.frames[1]>>
      BY <3>1 DEF One, IsEditor
    <3>3. DOMAIN editor.frames = {1}
      BY <3>2, OneFrame
    <3>4. QED
      BY <2>1, <3>2, <3>3
  <2>3. /\ IsFrame(f) /\ f.state = "loading" /\ ~f.shown /\ editor.area = "off"
        /\ editor.starts = 0 /\ Fields(editor, "off", editor.frames, editor.base, 0)
    BY <2>1, <2>2, OneFrame DEF One, IsEditor, HasText
  <2>4. editor' = IF begun.area = "off" /\ ~Ready(begun)
                  THEN [begun EXCEPT !.frames[1].state = "dead"] ELSE toggle(begun, "on")
    BY <2>1, <2>2
  <2> HIDE DEF f
  <2>5. IsFrame(g) /\ g.state = "running" /\ ~g.shown
    BY <2>3 DEF IsFrame
  <2> HIDE DEF g
  <2>6. l = <<g>>
    BY <2>2, OneFrame
  <2> HIDE DEF l
  <2>7. Fields(begun, "off", l, editor.base, 0)
    BY <2>3, EditorExcept
  <2> HIDE DEF begun
  <2>8. One(begun, content)
    BY <2>3, <2>5, <2>6, <2>7, OneFrame DEF One, IsEditor, HasText, Fields
  <2>9. Ready(begun)
    BY <2>5, <2>6, <2>7, OneFrame DEF Ready, Fields
  <2>10. editor' = toggle(begun, "on")
    BY <2>4, <2>9
  <2>11. QED
    BY <1>1, <2>8, <2>10, ToggleKeepsOne
<1>5. QED
  BY <1>2, <1>3, <1>4 DEF LoaderNext

(* The user writes in what is shown, which is where the text is. *)
LEMMA WriteKeepsOne ==
  ASSUME One(editor, content), Write
  PROVE  One(editor', content') /\ content' = Edited(content) /\ UNCHANGED hurried
<1>1. UNCHANGED hurried
  BY DEF Write, Type
<1>2. CASE /\ editor.base.shown
           /\ editor' = [editor EXCEPT !.base.text = Edited(@)]
           /\ content' = editor'.base.text
  <2> DEFINE b == [editor.base EXCEPT !.text = Edited(editor.base.text)]
  <2>1. /\ editor.area # "on" /\ editor.base.text = content
        /\ DOMAIN editor.base = {"text", "shown"}
        /\ Fields(editor, editor.area, editor.frames, editor.base, editor.starts)
    BY <1>2 DEF One, IsEditor, HasText
  <2>2. b.text = Edited(content) /\ b.shown /\ DOMAIN b = {"text", "shown"}
    BY <1>2, <2>1
  <2>3. editor' = [editor EXCEPT !.base = b]
    BY <1>2
  <2> HIDE DEF b
  <2>4. Fields([editor EXCEPT !.base = b], editor.area, editor.frames, b, editor.starts)
    BY <2>1, EditorExcept
  <2>5. Fields(editor', editor.area, editor.frames, b, editor.starts)
    BY <2>3, <2>4
  <2>6. content' = Edited(content)
    BY <1>2, <2>2, <2>5 DEF Fields
  <2>7. QED
    BY <1>1, <2>1, <2>2, <2>5, <2>6 DEF One, IsEditor, HasText, Fields
<1>3. CASE \E i \in DOMAIN editor.frames :
             /\ editor.frames[i].shown /\ editor.frames[i].state = "running"
             /\ editor' = [editor EXCEPT !.frames[i].text = Edited(@)]
             /\ content' = editor'.frames[i].text
  <2>1. PICK i \in DOMAIN editor.frames :
             /\ editor.frames[i].shown /\ editor.frames[i].state = "running"
             /\ editor' = [editor EXCEPT !.frames[i].text = Edited(@)]
             /\ content' = editor'.frames[i].text
    BY <1>3
  <2> DEFINE f == editor.frames[1]
             g == [f EXCEPT !.text = Edited(f.text)]
             l == [editor.frames EXCEPT ![1] = g]
  <2>2. editor.frames = <<f>> /\ i = 1
    <3>1. editor.frames # <<>>
      BY <2>1
    <3>2. editor.frames = <<editor.frames[1]>>
      BY <3>1 DEF One, IsEditor
    <3>3. DOMAIN editor.frames = {1}
      BY <3>2, OneFrame
    <3>4. QED
      BY <2>1, <3>2, <3>3
  <2>3. /\ IsFrame(f) /\ f.shown /\ f.state = "running" /\ editor.area = "on"
        /\ f.text = content /\ editor.starts = 0 /\ ~editor.base.shown
        /\ Fields(editor, "on", editor.frames, editor.base, 0)
        /\ DOMAIN editor.base = {"text", "shown"}
    BY <2>1, <2>2, OneFrame DEF One, IsEditor, HasText
  <2>4. editor' = [editor EXCEPT !.frames = l]
    BY <2>1, <2>2
  <2> HIDE DEF f
  <2>5. IsFrame(g) /\ g.text = Edited(content) /\ g.state = "running" /\ g.shown
    BY <2>3 DEF IsFrame
  <2> HIDE DEF g
  <2>6. l = <<g>>
    BY <2>2, OneFrame
  <2> HIDE DEF l
  <2>7. Fields([editor EXCEPT !.frames = l], "on", l, editor.base, 0)
    BY <2>3, EditorExcept
  <2>8. Fields(editor', "on", <<g>>, editor.base, 0)
    BY <2>4, <2>6, <2>7
  <2>9. content' = Edited(content)
    BY <2>1, <2>2, <2>5, <2>8, OneFrame DEF Fields
  <2>10. QED
    BY <1>1, <2>3, <2>5, <2>8, <2>9, OneFrame DEF One, IsEditor, HasText, Fields
<1>4. QED
  BY <1>2, <1>3 DEF Write, Type

-----------------------------------------------------------------------------
(* A handler's calls get numbers, and nothing else of them changes. *)
LEMMA AskKeeps ==
  ASSUME NEW h, NEW u, NEW others, NEW new, Ask(others, new),
         \A c \in others : CallOK(c, h, u),
         \A i \in DOMAIN new : CallOK(new[i], h, u)
  PROVE  \A c \in calls' : CallOK(c, h, u)
<1> SUFFICES ASSUME NEW c \in calls', c \notin others
             PROVE  CallOK(c, h, u)
  OBVIOUS
<1>1. PICK i \in DOMAIN new : \E k : c = [new[i] EXCEPT !.n = k]
  BY DEF Ask
<1>2. PICK d : d = new[i]
  OBVIOUS
<1>3. PICK k : c = [d EXCEPT !.n = k]
  BY <1>1, <1>2
<1>4. CallOK(d, h, u)
  BY <1>2
<1>5. QED
  BY <1>3, <1>4 DEF CallOK

(* A new call. *)
LEMMA CallNew ==
  ASSUME NEW op, NEW g \in 1..MaxOpens, NEW p, NEW t, NEW h, NEW u,
         ~u /\ op = "save" /\ t.by = g => t.of = p
  PROVE  CallOK(Call(op, g, p, t), h, u)
  BY DEF CallOK, Call

(* The list is cleared, and asked for. *)
LEMMA RefreshKeeps ==
  ASSUME TypeOK, NEW others, NEW g \in 1..MaxOpens, RefreshTestPlanList(others, g),
         NEW h, NEW u, \A c \in others : CallOK(c, h, u)
  PROVE  /\ rows' \in [Plans \union {AddNew} -> Seq(1..MaxOpens)]
         /\ \A c \in calls' : CallOK(c, h, u)
<1>1. rows' \in [Plans \union {AddNew} -> Seq(1..MaxOpens)]
  BY DEF RefreshTestPlanList, TypeOK
<1> DEFINE new == <<Call("list", g, NoPlan, Blank)>>
<1>2. Ask(others, new)
  BY DEF RefreshTestPlanList
<1>3. \A i \in DOMAIN new : CallOK(new[i], h, u)
  <2>1. DOMAIN new = {1} /\ new[1] = Call("list", g, NoPlan, Blank)
    BY OneFrame
  <2>2. CallOK(Call("list", g, NoPlan, Blank), h, u)
    BY CallNew
  <2>3. QED
    BY <2>1, <2>2
<1> HIDE DEF new
<1>4. QED
  BY <1>1, <1>2, <1>3, AskKeeps

-----------------------------------------------------------------------------
(* Before anything happens. *)
LEMMA InitHolds == Init => IInv
<1> SUFFICES ASSUME Init
             PROVE  IInv
  OBVIOUS
<1>1. TypeOK
  <2>1. opened \in 0..MaxOpens /\ DOMAIN current = 1..MaxOpens
    BY DEF Init
  <2>2. rows \in [Plans \union {AddNew} -> Seq(1..MaxOpens)]
    BY DEF Init
  <2>3. QED
    BY <2>1, <2>2 DEF TypeOK
<1>2. Calls /\ Settled
  BY DEF Init, Calls, Settled
<1>3. content = Blank /\ editor = Start
  BY DEF Init, InitLoader
<1>4. One(editor, content)
  <2>1. /\ editor.area = "none" /\ editor.frames = <<>> /\ editor.starts = 0
        /\ DOMAIN editor = {"area", "frames", "base", "starts"}
        /\ DOMAIN editor.base = {"text", "shown"} /\ editor.base.text = NoText
        /\ editor.base.shown
    BY <1>3 DEF Start
  <2>2. QED
    BY <1>3, <2>1 DEF One, IsEditor, HasText, Fields
<1>5. Loads
  BY <1>3 DEF Loads, IsText, Blank
<1>6. SaveIntoOwn
  <2>1. \A p \in DOMAIN source : source[p].text.of = p
    BY DEF Init, Unsaved
  <2>2. QED
    BY <2>1 DEF SaveIntoOwn
<1>7. QED
  BY <1>1, <1>2, <1>4, <1>5, <1>6 DEF IInv, Text

(* A call that a step does not touch stays in order. *)
LEMMA CallsStay ==
  ASSUME Calls, calls' \subseteq calls, UNCHANGED <<heading, hurried>>
  PROVE  Calls'
  BY DEF Calls

(* An opening of the view starts an editor anew, and the text stays. *)
LEMMA OpenKeeps == ASSUME IInv, OpenView PROVE IInv'
<1>1. /\ opened' = opened + 1 /\ opened' \in 1..MaxOpens /\ opened' \in 0..MaxOpens
      /\ UNCHANGED <<current, heading, content, source>>
      /\ editor' = init(editor, scripts)
      /\ settled' = FALSE
  BY DEF OpenView, IInv, TypeOK, service
<1>2. ~hurried' => ~hurried /\ ~(editor.starts > 0)
  BY DEF OpenView
<1>3. \A c \in calls : CallOK(c, heading', hurried')
  BY <1>1, <1>2 DEF IInv, Calls, CallOK
<1>4. rows' \in [Plans \union {AddNew} -> Seq(1..MaxOpens)] /\ Calls'
  <2>1. CASE Throws(editor)
    BY <1>3, <2>1 DEF OpenView, IInv, TypeOK, Calls
  <2>2. CASE ~Throws(editor)
    <3>1. RefreshTestPlanList(calls, opened')
      BY <2>2 DEF OpenView
    <3>2. PICK g \in 1..MaxOpens : g = opened'
      BY <1>1
    <3>3. RefreshTestPlanList(calls, g)
      BY <3>1, <3>2
    <3>4. QED
      BY <1>3, <3>3, RefreshKeeps DEF IInv, Calls
  <2>3. QED
    BY <2>1, <2>2
<1>5. ~hurried' => Text'
  <2>1. SUFFICES ASSUME ~hurried'
                 PROVE  Text'
    OBVIOUS
  <2>2. Text /\ editor.starts = 0
    BY <1>2, <2>1 DEF IInv, Text, One, IsEditor
  <2>3. One(editor', content')
    BY <1>1, <2>2, InitKeepsOne DEF Text
  <2>4. QED
    BY <1>1, <2>2, <2>3 DEF Text, Loads, Settled
<1>6. TypeOK' /\ SaveIntoOwn'
  BY <1>1, <1>2, <1>4 DEF IInv, TypeOK, SaveIntoOwn
<1>7. QED
  BY <1>4, <1>5, <1>6 DEF IInv

(* A step that only makes or ends calls. *)
LEMMA OnlyCalls ==
  ASSUME IInv, Calls', UNCHANGED <<loaderVars, page, service, settled>>
  PROVE  IInv'
  BY DEF IInv, TypeOK, Text, Loads, Settled, One, IsEditor, HasText, SaveIntoOwn,
         loaderVars, page, service

(* A click on a plan asks once for every handler of the row; only the answer to
   the last of them is the one the user waits for. *)
LEMMA ClickPlanKeeps == ASSUME IInv, NEW p \in Plans, ClickPlan(p) PROVE IInv'
<1> DEFINE others == { [c EXCEPT !.last = FALSE] : c \in calls }
<1>1. PICK j \in DOMAIN rows[p] :
        /\ heading' = p /\ settled' = FALSE
        /\ Ask(others,
               [i \in DOMAIN SubSeq(rows[p], j, Len(rows[p])) |->
                  [Call("load", SubSeq(rows[p], j, Len(rows[p]))[i], p, Blank) EXCEPT
                     !.last = (i = Len(SubSeq(rows[p], j, Len(rows[p]))))]])
        /\ UNCHANGED <<loaderVars, opened, current, rows, service>>
  BY DEF ClickPlan
<1> DEFINE handlers == SubSeq(rows[p], j, Len(rows[p]))
           new == [i \in DOMAIN handlers |->
                     [Call("load", handlers[i], p, Blank) EXCEPT !.last = (i = Len(handlers))]]
<1>2. Ask(others, new)
  BY <1>1
<1>3. handlers \in Seq(1..MaxOpens)
  <2>1. rows[p] \in Seq(1..MaxOpens)
    BY DEF IInv, TypeOK
  <2>2. j \in 1..Len(rows[p])
    BY <2>1
  <2>3. QED
    BY <2>1, <2>2
<1> HIDE DEF handlers
<1>4. \A c \in others : CallOK(c, p, hurried)
  <2> SUFFICES ASSUME NEW c \in others
               PROVE  CallOK(c, p, hurried)
    OBVIOUS
  <2>1. PICK d \in calls : c = [d EXCEPT !.last = FALSE]
    OBVIOUS
  <2>2. CallOK(d, heading, hurried)
    BY DEF IInv, Calls
  <2>3. QED
    BY <2>1, <2>2 DEF CallOK
<1>5. \A i \in DOMAIN new : CallOK(new[i], p, hurried)
  <2> SUFFICES ASSUME NEW i \in DOMAIN handlers
               PROVE  CallOK(new[i], p, hurried)
    OBVIOUS
  <2>1. PICK g \in 1..MaxOpens : g = handlers[i]
    BY <1>3
  <2>2. PICK k : k = (i = Len(handlers))
    OBVIOUS
  <2>3. new[i] = [Call("load", g, p, Blank) EXCEPT !.last = k]
    BY <2>1, <2>2
  <2>4. PICK d : d = Call("load", g, p, Blank)
    OBVIOUS
  <2>5. CallOK(d, p, hurried)
    BY <2>4, CallNew
  <2>6. d.plan = p /\ d.op = "load" /\ d.answered = FALSE
    BY <2>4 DEF Call
  <2>7. new[i] = [d EXCEPT !.last = k]
    BY <2>3, <2>4
  <2>8. QED
    BY <2>5, <2>6, <2>7 DEF CallOK
<1> HIDE DEF others, new
<1>6. Calls'
  BY <1>1, <1>2, <1>4, <1>5, AskKeeps DEF Calls, loaderVars
<1>7. QED
  BY <1>1, <1>6 DEF IInv, TypeOK, Text, Loads, Settled, One, IsEditor, HasText, SaveIntoOwn,
     loaderVars, service

(* A click on the last row: one call for every handler of it. *)
LEMMA ClickAddKeeps == ASSUME IInv, ClickAdd PROVE IInv'
<1>1. PICK j \in DOMAIN rows[AddNew] :
        /\ Ask(calls, [i \in DOMAIN SubSeq(rows[AddNew], j, Len(rows[AddNew])) |->
                         Call("create", SubSeq(rows[AddNew], j, Len(rows[AddNew]))[i],
                              NoPlan, Blank)])
        /\ UNCHANGED <<loaderVars, page, service, settled>>
  BY DEF ClickAdd
<1> DEFINE handlers == SubSeq(rows[AddNew], j, Len(rows[AddNew]))
           new == [i \in DOMAIN handlers |-> Call("create", handlers[i], NoPlan, Blank)]
<1>2. Ask(calls, new)
  BY <1>1
<1>3. handlers \in Seq(1..MaxOpens)
  <2>1. rows[AddNew] \in Seq(1..MaxOpens)
    BY DEF IInv, TypeOK
  <2>2. j \in 1..Len(rows[AddNew])
    BY <2>1
  <2>3. QED
    BY <2>1, <2>2
<1> HIDE DEF handlers
<1>4. \A i \in DOMAIN new : CallOK(new[i], heading, hurried)
  <2> SUFFICES ASSUME NEW i \in DOMAIN handlers
               PROVE  CallOK(new[i], heading, hurried)
    OBVIOUS
  <2>1. PICK g \in 1..MaxOpens : g = handlers[i]
    BY <1>3
  <2>2. CallOK(Call("create", g, NoPlan, Blank), heading, hurried)
    BY CallNew
  <2>3. QED
    BY <2>1, <2>2
<1> HIDE DEF new
<1>5. Calls'
  BY <1>1, <1>2, <1>4, AskKeeps DEF IInv, Calls, loaderVars, page
<1>6. QED
  BY <1>1, <1>5, OnlyCalls

(* The button saves what is shown into the plan of the newest closure: when that
   closure has loaded the text, it is the plan's own. *)
LEMMA SaveKeeps == ASSUME IInv, Save PROVE IInv'
<1> DEFINE p == current[opened]
           t == getValue(editor)
           new == <<Call("save", opened, p, t)>>
<1>1. opened \in 1..MaxOpens /\ Ask(calls, new)
      /\ UNCHANGED <<loaderVars, page, service, settled>>
  BY DEF Save, IInv, TypeOK
<1>2. ~hurried /\ t.by = opened => t.of = p
  BY <1>1, ValueIsText DEF IInv, Text, Loads
<1>3. PICK g \in 1..MaxOpens : g = opened
  BY <1>1
<1>4. CallOK(Call("save", opened, p, t), heading, hurried)
  <2> HIDE DEF p, t
  <2>1. QED
    BY <1>2, <1>3, CallNew
<1>5. \A i \in DOMAIN new : CallOK(new[i], heading, hurried)
  <2>1. DOMAIN new = {1} /\ new[1] = Call("save", opened, p, t)
    BY OneFrame
  <2>2. QED
    BY <1>4, <2>1
<1> HIDE DEF new
<1>6. Calls'
  BY <1>1, <1>5, AskKeeps DEF IInv, Calls, loaderVars, page
<1>7. QED
  BY <1>1, <1>6, OnlyCalls

(* The button deletes the plan of the newest closure. *)
LEMMA DeleteKeeps == ASSUME IInv, Delete PROVE IInv'
<1> DEFINE new == <<Call("delete", opened, current[opened], Blank)>>
<1>1. opened \in 1..MaxOpens /\ Ask(calls, new)
      /\ UNCHANGED <<loaderVars, page, service, settled>>
  BY DEF Delete, IInv, TypeOK
<1>2. PICK g \in 1..MaxOpens : g = opened
  BY <1>1
<1>3. \A i \in DOMAIN new : CallOK(new[i], heading, hurried)
  <2>1. DOMAIN new = {1} /\ new[1] = Call("delete", g, current[opened], Blank)
    BY <1>2, OneFrame
  <2>2. CallOK(Call("delete", g, current[opened], Blank), heading, hurried)
    BY CallNew
  <2>3. QED
    BY <2>1, <2>2
<1> HIDE DEF new
<1>4. Calls'
  BY <1>1, <1>3, AskKeeps DEF IInv, Calls, loaderVars, page
<1>5. QED
  BY <1>1, <1>4, OnlyCalls

(* What the user writes is still a text of the plan it was loaded of. *)
LEMMA WriteKeeps == ASSUME IInv, Write PROVE IInv'
<1>1. UNCHANGED <<page, calls, service, settled>> /\ UNCHANGED hurried
  BY DEF Write, Type
<1>2. ~hurried => Text'
  <2> SUFFICES ASSUME ~hurried
               PROVE  Text'
    OBVIOUS
  <2>1. One(editor', content') /\ content' = Edited(content)
    BY WriteKeepsOne DEF IInv, Text
  <2>2. IsText(content') /\ content'.of = content.of /\ content'.by = content.by
    BY <2>1 DEF IInv, Text, Loads, IsText, Edited
  <2>3. One(editor, content)'
    BY <2>1
  <2>4. Loads' /\ Settled'
    BY <1>1, <2>2 DEF IInv, TypeOK, Text, Loads, Settled, page
  <2>5. QED
    BY <2>3, <2>4 DEF Text
<1>3. Calls' /\ TypeOK' /\ SaveIntoOwn'
  BY <1>1 DEF IInv, Calls, TypeOK, SaveIntoOwn, page, service
<1>4. QED
  BY <1>1, <1>2, <1>3 DEF IInv

(* The checkbox moves the text between the editor and the textarea. *)
LEMMA SwitchKeeps == ASSUME IInv, Switch PROVE IInv'
<1>1. UNCHANGED <<page, calls, service, settled>> /\ UNCHANGED <<content, hurried>>
      /\ editor' = toggle(editor, IF editor.area = "on" THEN "off" ELSE "on")
  BY DEF Switch, Toggle
<1>2. ~hurried => One(editor', content')
  BY <1>1, ToggleKeepsOne DEF IInv, Text
<1>3. ~hurried => Text'
  BY <1>1, <1>2 DEF IInv, Text, Loads, Settled, page
<1>4. QED
  BY <1>1, <1>3 DEF IInv, Calls, TypeOK, SaveIntoOwn, page, service

(* Scripts, iframes and timers leave the text and the plans alone. *)
LEMMA LoaderKeeps == ASSUME IInv, Loader PROVE IInv'
<1>1. UNCHANGED <<page, calls, service, settled>> /\ UNCHANGED hurried
  BY DEF Loader, LoaderNext, StartTimer, ScriptsLoad, FrameInit
<1>2. ~hurried => One(editor', content') /\ UNCHANGED content
  BY LoaderKeepsOne DEF IInv, Text, Loader
<1>3. ~hurried => Text'
  BY <1>1, <1>2 DEF IInv, Text, Loads, Settled, page
<1>4. QED
  BY <1>1, <1>3 DEF IInv, Calls, TypeOK, SaveIntoOwn, page, service

-----------------------------------------------------------------------------
(* A call on a plan that is not there. *)
LEMMA RefusedKeeps == ASSUME IInv, NEW c \in calls, Refused(c) PROVE IInv'
<1>1. UNCHANGED <<loaderVars, page, service, settled>> /\ calls' \subseteq calls
  BY DEF Refused
<1>2. Calls'
  BY <1>1, CallsStay DEF IInv, loaderVars, page
<1>3. QED
  BY <1>1, <1>2, OnlyCalls

(* A save writes what the call holds, which is the plan's own text if the closure
   that saves has loaded it. *)
LEMMA SetSourceKeeps == ASSUME IInv, NEW c \in calls, SetSource(c) PROVE IInv'
<1>1. /\ UNCHANGED <<loaderVars, page, plans, settled>> /\ calls' \subseteq calls
      /\ c.op = "save"
      /\ source' = [source EXCEPT ![c.plan] = [text |-> c.text, saver |-> c.gen]]
  BY DEF SetSource
<1>2. Calls' /\ UNCHANGED hurried
  BY <1>1, CallsStay DEF IInv, loaderVars, page
<1>3. SaveIntoOwn'
  <2> SUFFICES ASSUME ~hurried, NEW p \in DOMAIN source', source'[p].text.by = source'[p].saver
               PROVE  source'[p].text.of = p
    BY <1>2 DEF SaveIntoOwn
  <2>1. p \in DOMAIN source
    BY <1>1
  <2>2. CASE p = c.plan
    <3>1. CallOK(c, heading, hurried)
      BY DEF IInv, Calls
    <3>2. source'[p].text = c.text /\ source'[p].saver = c.gen
      BY <1>1, <2>1, <2>2
    <3>3. QED
      BY <1>1, <2>2, <3>1, <3>2 DEF CallOK
  <2>3. CASE p # c.plan
    BY <1>1, <2>1, <2>3 DEF IInv, SaveIntoOwn
  <2>4. QED
    BY <2>2, <2>3
<1>4. QED
  BY <1>1, <1>2, <1>3 DEF IInv, TypeOK, Text, Loads, Settled, One, IsEditor, HasText,
     loaderVars, page

(* The answer holds the text as one of its plan, loaded by its closure. *)
LEMMA GetSourceKeeps == ASSUME IInv, NEW c \in calls, GetSource(c) PROVE IInv'
<1> DEFINE t == [of |-> c.plan, by |-> c.gen, is |-> source[c.plan].text.is]
           d == [c EXCEPT !.answered = TRUE, !.text = t]
<1>1. /\ UNCHANGED <<loaderVars, page, service, settled>>
      /\ c.op = "load" /\ calls' = (calls \ {c}) \union {d}
  BY DEF GetSource
<1>2. CallOK(c, heading, hurried)
  BY DEF IInv, Calls
<1>3. IsText(t) /\ t.of = c.plan /\ t.by = c.gen
  BY DEF IsText
<1> HIDE DEF t
<1>4. CallOK(d, heading, hurried)
  BY <1>1, <1>2, <1>3 DEF CallOK
<1> HIDE DEF d
<1>5. Calls'
  BY <1>1, <1>4 DEF IInv, Calls, loaderVars, page
<1>6. QED
  BY <1>1, <1>5, OnlyCalls

(* The answer to a load puts the text where the user reads it and makes its plan
   the one of its closure. *)
LEMMA LoadTestPlanSourceKeeps ==
  ASSUME IInv, NEW c \in calls, LoadTestPlanSource(c)
  PROVE  IInv'
<1>1. /\ UNCHANGED <<scripts, hurried, toggled, opened, heading, rows, service>>
      /\ calls' \subseteq calls /\ c.op = "load" /\ c.answered
  BY DEF LoadTestPlanSource
<1>2. Calls'
  BY <1>1, CallsStay DEF IInv
<1>3. CASE Throws(editor)
  <2>1. UNCHANGED <<editor, content, current, settled>>
    BY <1>3 DEF LoadTestPlanSource
  <2>2. QED
    BY <1>1, <1>2, <2>1 DEF IInv, TypeOK, Text, Loads, Settled, One, IsEditor, HasText,
       SaveIntoOwn, service
<1>4. CASE ~Throws(editor)
  <2>1. /\ editor' = setValue(editor, c.text) /\ content' = c.text
        /\ current' = [current EXCEPT ![c.gen] = c.plan]
        /\ settled' = (c.last /\ c.gen = opened)
    BY <1>4 DEF LoadTestPlanSource, Loaded
  <2>2. /\ c.gen \in 1..MaxOpens
        /\ IsText(c.text) /\ c.text.of = c.plan /\ c.text.by = c.gen
        /\ c.last => c.plan = heading
    BY <1>1 DEF IInv, Calls, CallOK
  <2>3. TypeOK' /\ SaveIntoOwn'
    BY <1>1, <2>1 DEF IInv, TypeOK, SaveIntoOwn, service
  <2>4. current'[c.gen] = c.plan
    BY <2>1, <2>2 DEF IInv, TypeOK
  <2>5. ~hurried => One(editor', content')
    BY <2>1, SetKeepsOne DEF IInv, Text
  <2>6. Loads'
    BY <2>1, <2>2, <2>4 DEF Loads
  <2>7. Settled'
    BY <1>1, <2>1, <2>2, <2>4 DEF Settled
  <2>8. QED
    BY <1>1, <1>2, <2>3, <2>5, <2>6, <2>7 DEF IInv, Text
<1>5. QED
  BY <1>3, <1>4

(* The answer to a list adds a row, with one more handler, for every plan. *)
LEMMA AddPlansKeeps == ASSUME IInv, NEW c \in calls, AddPlans(c) PROVE IInv'
<1>1. /\ UNCHANGED <<loaderVars, opened, current, heading, service, settled>>
      /\ calls' \subseteq calls
      /\ rows' = [p \in DOMAIN rows |->
           IF p \in plans \union {AddNew} THEN Append(rows[p], c.gen) ELSE rows[p]]
  BY DEF AddPlans
<1>2. Calls'
  BY <1>1, CallsStay DEF IInv, loaderVars
<1>3. c.gen \in 1..MaxOpens
  BY DEF IInv, Calls, CallOK
<1>4. TypeOK'
  <2>1. \A p \in DOMAIN rows : rows[p] \in Seq(1..MaxOpens)
    BY DEF IInv, TypeOK
  <2>2. \A p \in DOMAIN rows : rows'[p] \in Seq(1..MaxOpens)
    <3> SUFFICES ASSUME NEW p \in DOMAIN rows
                 PROVE  rows'[p] \in Seq(1..MaxOpens)
      OBVIOUS
    <3>1. PICK r \in Seq(1..MaxOpens), g \in 1..MaxOpens : r = rows[p] /\ g = c.gen
      BY <1>3, <2>1
    <3>2. Append(r, g) \in Seq(1..MaxOpens)
      OBVIOUS
    <3>3. rows'[p] \in {r, Append(r, g)}
      BY <1>1, <3>1
    <3>4. QED
      BY <3>2, <3>3
  <2>3. rows' \in [Plans \union {AddNew} -> Seq(1..MaxOpens)]
    BY <1>1, <2>2 DEF IInv, TypeOK
  <2>4. QED
    BY <1>1, <2>3 DEF IInv, TypeOK
<1>5. QED
  BY <1>1, <1>2, <1>4 DEF IInv, Text, Loads, Settled, One, IsEditor, HasText, SaveIntoOwn,
     loaderVars, service

(* A plan is created, with no text, or deleted; the list is asked for again. *)
LEMMA ChangedKeeps == ASSUME IInv, NEW c \in calls, Changed(c) PROVE IInv'
<1>1. /\ UNCHANGED <<loaderVars, opened, current, heading, settled>>
      /\ RefreshTestPlanList(calls \ {c}, c.gen)
  BY DEF Changed
<1>2. \A d \in calls : CallOK(d, heading, hurried)
  BY DEF IInv, Calls
<1>3. c.gen \in 1..MaxOpens
  BY <1>2 DEF CallOK
<1>4. /\ rows' \in [Plans \union {AddNew} -> Seq(1..MaxOpens)]
      /\ \A d \in calls' : CallOK(d, heading, hurried)
  <2>1. PICK g \in 1..MaxOpens : g = c.gen
    BY <1>3
  <2>2. RefreshTestPlanList(calls \ {c}, g)
    BY <1>1, <2>1
  <2>3. TypeOK /\ \A d \in calls \ {c} : CallOK(d, heading, hurried)
    BY <1>2 DEF IInv
  <2>4. QED
    BY <2>2, <2>3, RefreshKeeps
<1>5. TypeOK' /\ Calls'
  BY <1>1, <1>4 DEF IInv, TypeOK, Calls, loaderVars
<1>6. SaveIntoOwn'
  <2>1. CASE \E p \in Plans \ DOMAIN source :
               source' = [q \in DOMAIN source \union {p} |->
                            IF q = p THEN Unsaved(p, "empty") ELSE source[q]]
    BY <1>1, <2>1 DEF IInv, SaveIntoOwn, Unsaved, loaderVars
  <2>2. CASE UNCHANGED source
    BY <1>1, <2>2 DEF IInv, SaveIntoOwn, loaderVars
  <2>3. QED
    BY <2>1, <2>2 DEF Changed
<1>7. QED
  BY <1>1, <1>5, <1>6 DEF IInv, Text, Loads, Settled, One, IsEditor, HasText, loaderVars

(* A step that changes nothing. *)
LEMMA StutterHolds == ASSUME IInv, UNCHANGED vars PROVE IInv'
<1>1. UNCHANGED <<loaderVars, page, service, settled>> /\ UNCHANGED calls
  BY DEF vars
<1>2. Calls'
  BY <1>1 DEF IInv, Calls, loaderVars, page
<1>3. QED
  BY <1>1, <1>2, OnlyCalls

-----------------------------------------------------------------------------
(* In every state there is one editor at most, with the text written last in what
   the user sees of it, the closures that have loaded that text act on its plan,
   and the calls under way hold texts of their own plans. *)
THEOREM InvariantHolds == Spec => []IInv
<1>1. Init => IInv
  BY InitHolds
<1>2. IInv /\ [Next]_vars => IInv'
  <2> SUFFICES ASSUME IInv, [Next]_vars
               PROVE  IInv'
    OBVIOUS
  <2>1. CASE User
    BY <2>1, OpenKeeps, ClickPlanKeeps, ClickAddKeeps, SaveKeeps, DeleteKeeps, WriteKeeps,
       SwitchKeeps DEF User
  <2>2. CASE Loader
    BY <2>2, LoaderKeeps
  <2>3. CASE \E c \in calls : Answer(c)
    BY <2>3, RefusedKeeps, SetSourceKeeps, GetSourceKeeps, LoadTestPlanSourceKeeps,
       AddPlansKeeps, ChangedKeeps DEF Answer
  <2>4. CASE UNCHANGED vars
    BY <2>4, StutterHolds
  <2>5. QED
    BY <2>1, <2>2, <2>3, <2>4 DEF Next
<1>3. QED
  BY <1>1, <1>2, PTL DEF Spec

(* Saving writes into a plan what was loaded of that plan (testPlans.js: the save
   button reads the editor and currentTestPlanId, which two answers set), unless
   another opening loaded the text or the view was opened in a hurry. *)
THEOREM SaveIntoOwnHolds == Spec => []SaveIntoOwn
<1>1. IInv => SaveIntoOwn
  BY DEF IInv
<1>2. QED
  BY <1>1, InvariantHolds, PTL

(* The text is of the plan that the opening that loaded it acts on, and the heading
   too when the answer that came last was that of the last click, to the newest
   opening (testPlans.js: the heading is set at the click, the other two when the
   answer comes); unless the view was opened in a hurry. *)
THEOREM ShownIsCurrentHolds == Spec => []ShownIsCurrent
<1>1. IInv => ShownIsCurrent
  <2> SUFFICES ASSUME IInv, ~hurried
               PROVE  /\ \A g \in 1..opened :
                           getValue(editor).by = g => current[g] = getValue(editor).of
                      /\ settled => current[opened] = heading
                                    /\ getValue(editor).of = heading
    BY DEF ShownIsCurrent
  <2>1. getValue(editor) = content
    BY ValueIsText DEF IInv, Text
  <2>2. \A g \in 1..opened : g \in 1..MaxOpens
    BY DEF IInv, TypeOK
  <2>3. QED
    BY <2>1, <2>2 DEF IInv, Text, Loads, Settled
<1>2. QED
  BY <1>1, InvariantHolds, PTL

(* What was written last is what the page would save, through any loading,
   switching and deleting of editors (edit_area_loader.js: start, toggle and
   delete_instance hand the text on), unless the view was opened in a hurry. *)
THEOREM TextKeptHolds == Spec => []TextKept
<1>1. IInv => TextKept
  BY ValueIsText DEF IInv, Text, TextKept
<1>2. QED
  BY <1>1, InvariantHolds, PTL
=============================================================================
