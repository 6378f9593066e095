------------------------------ MODULE MCPages ------------------------------
(***************************************************************************)
(* Values for the constants of PageFlow that a .cfg cannot write.          *)
(***************************************************************************)
EXTENDS PageFlow

CONSTANTS o, a, b, c

ThreeRepos == {<<o, a>>, <<o, b>>, <<o, c>>}

Href(r) == <<Blank, o, r>>

\* A failed scrape, whole pages that share repos, and one whose paths are not
\* all what they should be: "//o/a", "o/b", "/o/", "/o" and "".
SomePages ==
  {<<>>, <<Href(a), Href(b), Href(c)>>, <<Href(c), Href(b)>>,
   <<<<Blank, Blank, o, a>>, <<o, b>>, <<Blank, o, Blank>>, <<Blank, o>>, <<Blank>>>>}

\* The pages are such as the proofs expect of GitHub.
ASSUME PagesAreTidy == TidyPages
============================================================================
