--------------------------- MODULE DesktopEntries ---------------------------
(***************************************************************************)
(* How the Mir agent finds the desktop entry of an application, from which *)
(* the prompt takes its name and icon                                      *)
(* (mir/click_desktop_entry_app_info_resolver.cpp, xdg.cpp).               *)
(*                                                                         *)
(* A file belongs to an application and is named after its id, followed by *)
(* a version or not.  Of the ids, only which one begins with which other   *)
(* matters.                                                                *)
(***************************************************************************)
EXTENDS Naturals, Sequences

CONSTANTS
    Ids,      \* application ids, without version
    Longer,   \* pairs of them: the second one begins with the first
    Null

ASSUME DesktopEntriesAssumption ==
    /\ Null \notin Ids
    /\ Longer \subseteq Ids \X Ids

\* A file of a directory "applications".
File == [id : Ids, versioned : BOOLEAN]

\* xdg::Data: the applications below home(), in the order of the directory,
\* Null if there is no such directory or XDG_DATA_HOME is not absolute; and the
\* ids that have an entry below one of dirs(), Null if one is not absolute.
Data == [home : Seq(File) \cup {Null}, dirs : SUBSET Ids \cup {Null}]

\* The name of the file begins with the id.
StartsWith(file, id) == file.id = id \/ <<id, file.id>> \in Longer

HasExact(data, id) ==
    \E i \in DOMAIN data.home : data.home[i] = [id |-> id, versioned |-> FALSE]

\* The files that the second step looks for.
Matches(data, id) == {i \in DOMAIN data.home : StartsWith(data.home[i], id)}

First(S) == CHOOSE i \in S : \A j \in S : i <= j

\* Mutant: the names are compared from the beginning right away.
ResolveByPrefix(data, id) ==
    IF data.home # Null /\ Matches(data, id) # {}
    THEN data.home[First(Matches(data, id))].id
    ELSE Null

\* resolve_desktop_entry_or_throw: the id whose entry is taken, Null when it
\* throws.  Without the home directory the iterator throws, whatever the other
\* directories hold.
Resolve(data, id) ==
    IF data.home = Null THEN Null
    ELSE IF HasExact(data, id) THEN id
    ELSE IF Matches(data, id) # {} THEN data.home[First(Matches(data, id))].id
    ELSE IF data.dirs # Null /\ id \in data.dirs THEN id
    ELSE Null
=============================================================================
