---------------------------- MODULE MCLanguages ----------------------------
(***************************************************************************)
(* Values for the constants of LanguageSync that a .cfg cannot write.      *)
(***************************************************************************)
EXTENDS LanguageSync

CONSTANTS go, rust, zig

\* A failed scrape, two pages, and one that lists a language twice.
SomeMenus == {<<>>, <<go, rust>>, <<rust, zig>>, <<zig, zig>>}
============================================================================
