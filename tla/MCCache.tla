------------------------------ MODULE MCCache ------------------------------
(***************************************************************************)
(* Values for the constants of ReposCache that a .cfg cannot write.        *)
(***************************************************************************)
EXTENDS ReposCache

CONSTANTS daily, weekly

Request(s, l) == [since |-> s, lang |-> l, limit |-> 100]

TwoPeriods == {Request(daily, NoFilter), Request(weekly, NoFilter)}
OneKey     == {Request(daily, NoFilter)}

\* weekly entries live longer than daily ones, as 6 h and 1 h do.
ShortTTL   == [s \in {daily, weekly} |-> IF s = daily THEN 0 ELSE 1]
DailyTTL   == [s \in {daily} |-> 1]
============================================================================
