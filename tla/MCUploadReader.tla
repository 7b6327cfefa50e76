---------------------------- MODULE MCUploadReader ----------------------------
(* The instance of UploadReader that TLC checks. *)
EXTENDS UploadReader

\* The field's header as browsers send it, in two lines; another field's; one
\* that is longer than MaxHeaderSize.
ThreeHeaders == {<<"name", "cr", "lf", "other">>, <<"other">>,
                 <<"name", "cr", "lf", "other", "other">>}
=============================================================================
