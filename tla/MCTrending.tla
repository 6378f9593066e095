----------------------------- MODULE MCTrending -----------------------------
(***************************************************************************)
(* Values for the constants of TrendingService that a .cfg cannot write.   *)
(***************************************************************************)
EXTENDS TrendingService

\* The database is new.
NewDatabase == {[k \in Keys |-> NoRow]}

\* GitHub knows the repo, or has lost it.
LostOrKnown == [r \in Repos |-> Langs \cup {NotFound}]

\* The jobs of the cold start and of cron: one period each.
SyncsOnly == {<<s>> : s \in Sinces}

\* Clients ask for a period without a language, with one, and with lang=*.
NoneSomeOrStar == [since : Sinces, lang : {Empty, Star} \cup Langs]

\* The trending page lists every repo, without a language, or the scrape fails.
PageOrNone == {{}, Repos \X {NoLang}}
============================================================================
