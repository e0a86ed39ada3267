-------------------------- MODULE MCResumeOptimize --------------------------
(* An instance of ResumeOptimize for TLC.  "e" is a heading of the section    *)
(* that is optimized, "g" one that ends it, "x" an empty line, "d" a date.    *)
EXTENDS ResumeOptimize, TLC

\* Two entries of one title; an entry that begins with another; one entry in
\* two sections, under a title with a date; no section.
MCResumes == {<<"e", "t1", "b1", "x", "t1", "b2">>,
              <<"e", "t1", "b1", "b2", "x", "t1", "b1", "x", "g", "b2">>,
              <<"e", "t2", "d", "b1", "t1", "b2", "x", "e", "t1", "b1", "g">>,
              <<"g", "b1">>}
\* Entries of which one begins with the date that ends the other: for
\* UnrelatedTextStays, which they refute.
DatedResumes == {<<"e", "t1", "d", "d", "d", "x", "b1">>}
MCKinds == [l \in {"e"} |-> "exp"] @@ [l \in {"g"} |-> "bound"] @@ [l \in {"b1", "b2"} |-> "bullet"]
           @@ [l \in {"t1", "t2", "p1"} |-> "title"] @@ [l \in {"d"} |-> "date"]
           @@ [l \in {"x"} |-> "blank"]
MCPolishes == {<<"p1">>, <<"t1", "b2">>}
=============================================================================
