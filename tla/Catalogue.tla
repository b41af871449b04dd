------------------------------ MODULE Catalogue ------------------------------
(***************************************************************************)
(* What the file store promises those who keep files in it, without keys,  *)
(* objects, handlers, sweeps and moves: a shelf of files, each with the    *)
(* content that a download serves.  It changes one file at a time.  A file *)
(* comes with its whole content, or empty and out of sight; its content    *)
(* becomes another one at a stroke, and never one that another file has;   *)
(* a file that stays becomes empty only when a version that was never      *)
(* uploaded is restored in the place of sealed content.                    *)
(***************************************************************************)

CONSTANTS
    Files,
    Contents,
    Nothing    \* the content of a file that nothing was uploaded for

VARIABLE
    shelf      \* file -> its content, whether it is listed, and whether it is
               \* sealed with a checksum

Entry(content, listed, sealed) ==
    [content |-> content, listed |-> listed, sealed |-> sealed]

Unshared(c) == c \in Contents /\ \A f \in DOMAIN shelf : shelf[f].content # c

\* No file but f comes, goes or changes.
Only(f) ==
    \A g \in (DOMAIN shelf \cup DOMAIN shelf') \ {f} :
      g \in DOMAIN shelf /\ g \in DOMAIN shelf' /\ shelf'[g] = shelf[g]

Stays(f) == f \in DOMAIN shelf /\ f \in DOMAIN shelf' /\ Only(f)

CatInit == DOMAIN shelf = {}

\* An upload: a file with its content, or the place for one.
Add(f) ==
    /\ f \notin DOMAIN shelf /\ f \in DOMAIN shelf' /\ Only(f)
    /\ \/ shelf'[f] = Entry(Nothing, FALSE, FALSE)
       \/ \E c \in Contents :
            /\ shelf'[f] = Entry(c, TRUE, TRUE)
            /\ Unshared(c)

\* Into the trash or out of it.
Toggle(f) ==
    /\ Stays(f)
    /\ shelf'[f] = Entry(shelf[f].content, ~shelf[f].listed, shelf[f].sealed)

\* Other bytes, of this file alone, under a checksum or not.
Replace(f) ==
    /\ Stays(f)
    /\ \E c \in Contents, sealed \in BOOLEAN :
         /\ shelf'[f] = Entry(c, shelf[f].listed, sealed)
         /\ c = shelf[f].content \/ Unshared(c)

\* An earlier version is restored, which nothing was ever uploaded for.
Blank(f) ==
    /\ Stays(f)
    /\ shelf[f].sealed
    /\ shelf'[f] = Entry(Nothing, shelf[f].listed, FALSE)

Remove(f) == f \in DOMAIN shelf /\ f \notin DOMAIN shelf' /\ Only(f)

CatNext ==
    \E f \in Files : Add(f) \/ Toggle(f) \/ Replace(f) \/ Blank(f) \/ Remove(f)

CatSpec == CatInit /\ [][CatNext]_shelf
==============================================================================
