--------------------------- MODULE MCTestRepository ---------------------------
(* The instance of TestRepository that TLC checks. *)
EXTENDS TestRepository

TwoProcs == {"web", "cli"}
TwoNames == {"a", "b"}
\* The test a is uploaded through both programs, as a batch file and otherwise.
SomeUploads == {<<"web", "batch", "a">>, <<"web", "downloader", "a">>,
                <<"cli", "batch", "a">>, <<"cli", "batch", "b">>}
=============================================================================
