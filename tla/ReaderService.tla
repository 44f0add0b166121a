---------------------------- MODULE ReaderService ----------------------------
(***************************************************************************)
(* The parts of the reader that share no state with each other: a book on  *)
(* the shelf, the feeds, a walk through the pages of a site, a screen of   *)
(* the native view models.                                                 *)
(*                                                                         *)
(* A step of one changes nothing that another reads, so their              *)
(* interleavings say nothing that each part alone does not say: a          *)
(* behaviour is that of one part, next to the others at rest.              *)
(***************************************************************************)
EXTENDS BookReading, RssFeeds, PageWalk, ViewModels

VARIABLE part  \* the part at work

readerVars == <<part, readingVars, feedVars, walkVars, viewVars>>

ReaderTypeOK == ReadingTypeOK /\ FeedTypeOK /\ WalkTypeOK /\ ViewTypeOK

BookAtRest == ReadingStart([plan |-> [k \in Requests |-> 0], stored |-> <<>>])
FeedsAtRest == FeedStart([c \in Clients |-> [k \in Errands |-> 0]])
WalkAtRest == WalkStart(CHOOSE s \in Sites : TRUE, FALSE, "done")
ViewsAtRest == ViewStart([screen |-> "none", clicks |-> <<>>])

ReaderInit ==
    /\ part \in {"book", "feeds", "walk", "views"}
    /\ IF part = "book" THEN ReadingInit ELSE BookAtRest
    /\ IF part = "feeds" THEN FeedInit ELSE FeedsAtRest
    /\ IF part = "walk" THEN WalkInit ELSE WalkAtRest
    /\ IF part = "views" THEN ViewInit ELSE ViewsAtRest

ReaderNext ==
    \/ part = "book" /\ ReadingNext /\ UNCHANGED <<part, feedVars, walkVars, viewVars>>
    \/ part = "feeds" /\ FeedNext /\ UNCHANGED <<part, readingVars, walkVars, viewVars>>
    \/ part = "walk" /\ WalkNext /\ UNCHANGED <<part, readingVars, feedVars, viewVars>>
    \/ part = "views" /\ ViewNext /\ UNCHANGED <<part, readingVars, feedVars, walkVars>>

ReaderSpec == ReaderInit /\ [][ReaderNext]_readerVars /\ ReadingFairness

-----------------------------------------------------------------------------
(* Properties. *)

\* What a download tells its callback and leaves in memory (engine_download.cpp:307,
\* types.h:324): see DownloadAccounts and FullMeansStored.
DownloadsAreTrue == DownloadAccounts /\ FullMeansStored

\* Channels fail alone, and answers to readers are honest (engine_rss.cpp:661, 667).
ArticlesReachReaders == ChannelsAreIndependent /\ AnswersAreHonest

\* Walks through pages lose and repeat nothing, and a debug session tells what happened
\* (engine_core.cpp:438, source_debug.h:27).
PagesAreWhole == WalksAreWhole /\ SessionsAreHonest
=============================================================================
