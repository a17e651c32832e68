------------------------------ MODULE MCAssets ------------------------------
(* Instances of Assets for TLC. *)
EXTENDS Assets

\* /a, the output directory, and /b.
MCDirs == << << <<"a">> >>, << <<"b">> >> >>
MCOutputDir == << <<"a">> >>
MCOutputFile == <<"g">>

\* "/a" may hold a-b, js/a, js_a and the generated file; "/b" may hold js/b and
\* the temporary file ~a.
MCCandidates ==
  << { << <<"a", "-", "b">> >>, << <<"j", "s">>, <<"a">> >>,
       << <<"j", "s", "_", "a">> >>, << MCOutputFile >> },
     { << <<"j", "s">>, <<"b">> >>, << <<"~", "a">> >> } >>

MCLetters == {"a", "b", "j", "s", "g", "A", "B", "J", "S", "G"}
MCUpper == [c \in MCLetters |->
  CASE c = "a" -> "A" [] c = "b" -> "B" [] c = "j" -> "J" [] c = "s" -> "S" [] c = "g" -> "G"
    [] OTHER -> c]
=============================================================================
