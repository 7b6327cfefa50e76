----------------------------- MODULE UploadReader -----------------------------
(* How an uploaded test is taken out of a multipart form (WebLib/Utils.cs:
   ReadStreamUntil, ExtractCurrentLine, CheckHeader, ExtractMultipartFileData)
   before Streams.cs hands it to CreateTest. The reader looks for byte
   sequences that it may meet only after a false start, with a ring of exactly
   their length. Bytes that the code does not tell apart are one value; the
   text name="testFile" of a header is one value too. The browser that sends
   the form is external, and may go away at any byte. *)
EXTENDS Naturals, Sequences, SequencesExt

CONSTANTS MaxHeaderSize,  \* the constant of CheckHeader, 1024 in the code
          Headers,        \* headers of parts, without the empty line after them
          MaxParts,       \* bound: parts of the form
          MaxContent      \* bound: bytes in all its parts

ASSUME BoundsAssumption == {MaxHeaderSize, MaxParts, MaxContent} \subseteq Nat

Content == {"cr", "lf", "dash", "b"}   \* bytes a part is made of
CRLF == <<"cr", "lf">>
Line == <<"dash", "dash", "b">>        \* the first line of the body
Blank == "zero"                        \* a byte of a new array

Naming(h) == "name" \in ToSet(h) /\ Len(h) <= MaxHeaderSize

Parts == [header : Headers, content : BoundedSeq(Content, MaxContent)]
Size(form) == FoldLeft(LAMBDA n, part : n + Len(part.content), 0, form)
Forms == {form \in BoundedSeq(Parts, MaxParts) : Size(form) <= MaxContent}

\* What a browser sends: every part after its header and an empty line, the
\* boundary between parts, and two dashes after the last one.
Encoded(part) == part.header \o CRLF \o CRLF \o part.content \o CRLF \o Line
Body(form) ==
  Line \o FlattenSeq([i \in DOMAIN form |-> CRLF \o Encoded(form[i])])
       \o <<"dash", "dash">> \o CRLF

VARIABLES
  form,    \* the form sent
  input,   \* what of its body is still to come
  pc,      \* "line", "header", "skip", "grab": the search under way; "done", "threw"
  until,   \* what is searched for
  ring, fill, ptr,   \* the last bytes read
  out,     \* what the search has written to its outStream
  code,    \* boundaryCode
  cut      \* the browser went away

vars == <<form, input, pc, until, ring, fill, ptr, out, code, cut>>

-----------------------------------------------------------------------------
(* ReadStreamUntil *)
Search(sequence) ==
  /\ until' = sequence
  /\ ring' = [i \in 0..(Len(sequence) - 1) |-> Blank]
  /\ fill' = 0 /\ ptr' = 0

Init ==
  /\ form \in Forms /\ input = Body(form)
  /\ pc = "line" /\ until = CRLF
  /\ ring = [i \in 0..1 |-> Blank] /\ fill = 0 /\ ptr = 0
  /\ out = <<>> /\ code = <<>> /\ cut = FALSE

Turned == (ptr + 1) % Len(until)
Filled == [ring EXCEPT ![ptr] = Head(input)]
Matches == \A i \in 0..(Len(until) - 1) :
             until[i + 1] = Filled[(Turned + i) % Len(until)]

\* The byte that leaves the ring is written, once the ring was full. A part to
\* skip has no outStream.
AlwaysOverwrites == TRUE   \* mutant: the bytes of the new array are written too
Overwrites == fill = Len(until)
Written == IF Overwrites /\ pc # "skip" THEN Append(out, ring[ptr]) ELSE out

ReadByte ==
  /\ pc \in {"line", "header", "skip", "grab"}
  /\ input # <<>> /\ input' = Tail(input)
  /\ UNCHANGED <<form, cut>>

NoMatch ==
  /\ ReadByte /\ ~Matches
  /\ ring' = Filled /\ ptr' = Turned
  /\ fill' = IF Overwrites THEN fill ELSE fill + 1
  /\ out' = Written
  /\ UNCHANGED <<pc, until, code>>

-----------------------------------------------------------------------------
(* ExtractMultipartFileData: the first line is the boundary, parts of other
   fields are skipped to the next boundary. *)
BoundaryCode(line) == CRLF \o line \o CRLF

LineRead ==
  /\ pc = "line" /\ ReadByte /\ Matches
  /\ pc' = "header" /\ code' = BoundaryCode(Written)
  /\ Search(CRLF \o CRLF) /\ out' = <<>>

HeaderRead ==
  /\ pc = "header" /\ ReadByte /\ Matches
  /\ pc' = IF Naming(Written) THEN "grab" ELSE "skip"
  /\ Search(code) /\ out' = <<>>
  /\ UNCHANGED code

PartSkipped ==
  /\ pc = "skip" /\ ReadByte /\ Matches
  /\ pc' = "header"
  /\ Search(CRLF \o CRLF)
  /\ UNCHANGED <<out, code>>

PartGrabbed ==
  /\ pc = "grab" /\ ReadByte /\ Matches
  /\ pc' = "done" /\ out' = Written
  /\ UNCHANGED <<until, ring, fill, ptr, code>>

\* No line: null is concatenated, which throws. A header that does not end is
\* one of another field; a part that does not end is the last.
AtEndAgain(search) ==   \* mutant: false of ExtractToBoundary is not returned
  CASE search = "line" -> "threw" [] search = "header" -> "skip"
    [] search = "skip" -> "header" [] OTHER -> "done"
AtEnd(search) ==
  CASE search = "line" -> "threw" [] search = "header" -> "skip" [] OTHER -> "done"

EndOfStream ==
  /\ pc \in {"line", "header", "skip", "grab"} /\ input = <<>>
  /\ pc' = AtEnd(pc)
  /\ IF pc' \in {"skip", "header"}
     THEN Search(IF pc' = "skip" THEN code ELSE CRLF \o CRLF) /\ out' = <<>>
     ELSE UNCHANGED <<until, ring, fill, ptr, out>>
  /\ UNCHANGED <<form, input, code, cut>>

\* The connection breaks: the stream ends here.
Cut ==
  /\ pc \in {"line", "header", "skip", "grab"}
  /\ input # <<>> /\ input' = <<>> /\ cut' = TRUE
  /\ UNCHANGED <<form, pc, until, ring, fill, ptr, out, code>>

Read == NoMatch \/ LineRead \/ HeaderRead \/ PartSkipped \/ PartGrabbed \/ EndOfStream

Next == Read \/ Cut

Spec == Init /\ [][Next]_vars

\* The reader is a loop of the server's thread.
FairSpec == Spec /\ WF_vars(Read)

-----------------------------------------------------------------------------
\* The contents of the first part that names the field.
Fields == {i \in DOMAIN form : Naming(form[i].header)}
Wanted ==
  IF Fields = {} THEN <<>>
  ELSE form[CHOOSE i \in Fields : \A j \in Fields : i <= j].content

(* The file given to CreateTest is the one sent, to the last byte, also when
   its contents look like the beginning of a boundary or of a header's end, or
   other fields come before it. The boundary after the last part ends in two
   dashes and is not the one searched for: such a file is followed by one
   line break. A form without the field gives an empty file. And at no time,
   wherever the connection breaks, has anything been written of another part,
   of a header or of a boundary. *)
StoredWhole ==
  /\ pc = "done" /\ ~cut =>
       \/ out = Wanted
       \/ out = Wanted \o CRLF /\ Naming(Last(form).header)
  /\ pc \in {"grab", "done"} => IsPrefix(out, Wanted \o CRLF)

(* The reader comes to an end, on every form and wherever it breaks off: it is
   the server's only thread that reads. *)
EveryUploadEnds == <>(pc \in {"done", "threw"})
=============================================================================
