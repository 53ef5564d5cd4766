--------------------------------- MODULE Mux ---------------------------------
(***************************************************************************)
(* utils.Mux: patterns registered with Handle, requests routed by Handler. *)
(* The RTMP server registers one pattern per location and routes every     *)
(* connect command.  Handle and Handler run under the mutex, so each is    *)
(* one step; a Handle that panics changes nothing and is left out.         *)
(*                                                                         *)
(* A path is a sequence of tokens: Slash, Dot, DotDot and names.  The      *)
(* handler of a pattern is represented by the pattern.                     *)
(***************************************************************************)
EXTENDS Integers, SequencesExt

CONSTANTS
    Names, Slash, Dot, DotDot,
    Patterns,       \* patterns that may be registered
    Hosts,          \* hosts of requests, without port
    Requests,       \* paths of requests, as they come
    NoPattern       \* the empty pattern of a nil handler

Token == Names \cup {Slash, Dot, DotDot}
Path == Seq(Token)

ASSUME MuxAssumption ==
    /\ Slash \notin Names /\ Dot \notin Names \cup {Slash} /\ DotDot \notin Names \cup {Slash, Dot}
    /\ Patterns \subseteq Path \ {<<>>}
    /\ Requests \subseteq Path
    /\ NoPattern \notin Path
    /\ \A h \in Hosts : h \in Path /\ (h # <<>> => h[1] # Slash)

VARIABLES
    table,      \* registered patterns
    array       \* those that end in a slash, from longest to shortest

vars == <<table, array>>

Init == table = {} /\ array = <<>>

-----------------------------------------------------------------------------
(* Handle.                                                                 *)

IsSubtree(p) == p[Len(p)] = Slash

\* sort.Search: the first index whose pattern is shorter, or one past the end.
IsPosition(arr, p, i) ==
    /\ i \in 1..(Len(arr) + 1)
    /\ \A j \in 1..(i - 1) : Len(arr[j]) >= Len(p)
    /\ i <= Len(arr) => Len(arr[i]) < Len(p)

Position(arr, p) == CHOOSE i \in 1..(Len(arr) + 1) : IsPosition(arr, p, i)

\* Mutation: the patterns behind the new one are not moved up.
AppendOver(arr, p) ==
    LET i == Position(arr, p)
    IN  SubSeq(arr, 1, i - 1) \o <<p>> \o SubSeq(arr, i + 1, Len(arr))

AppendOnSort(arr, p) ==
    LET i == Position(arr, p)
    IN  SubSeq(arr, 1, i - 1) \o <<p>> \o SubSeq(arr, i, Len(arr))

Handle(p) ==
    /\ p \notin table
    /\ table' = table \cup {p}
    /\ array' = IF IsSubtree(p) THEN AppendOnSort(array, p) ELSE array

-----------------------------------------------------------------------------
(* Handler.                                                                *)

\* What one token does to the names that path.Clean has kept.
Keep(segs, tok) ==
    IF tok \in Names THEN Append(segs, tok)
    ELSE IF tok = DotDot /\ segs # <<>> THEN Front(segs) ELSE segs

\* path.Clean of a rooted path, as the names that are left.
Segments(path) ==
    LET kept[i \in 0..Len(path)] == IF i = 0 THEN <<>> ELSE Keep(kept[i - 1], path[i])
    IN  kept[Len(path)]

Join(segs) ==
    [i \in 1..(2 * Len(segs)) |-> IF i % 2 = 1 THEN Slash ELSE segs[i \div 2]]

\* Mutation: the trailing slash is put back on the root as well.
CleanAppends(path) ==
    LET np == Join(Segments(path))
        rooted == IF np = <<>> THEN <<Slash>> ELSE np
    IN  IF path # <<>> /\ IsSubtree(path) THEN Append(rooted, Slash) ELSE rooted

\* Rooted and clean, with the trailing slash the request had.
Clean(path) ==
    LET np == Join(Segments(path))
    IN  IF np = <<>> THEN <<Slash>>
        ELSE IF IsSubtree(path) THEN Append(np, Slash) ELSE np

\* A path without handler whose subtree has one stands for the subtree; both
\* are looked for with and without the host.
ShouldRedirect(host, path) ==
    /\ path \notin table /\ host \o path \notin table
    /\ Append(path, Slash) \in table \/ host \o Append(path, Slash) \in table
    /\ ~IsSubtree(path)

\* Mutation: the array is searched from its end.
IsLastPrefix(path, i) ==
    /\ i \in 1..Len(array)
    /\ IsPrefix(array[i], path)
    /\ \A j \in (i + 1)..Len(array) : ~IsPrefix(array[j], path)

\* The first pattern of the array that is a prefix of the path.
IsFirstPrefix(path, i) ==
    /\ i \in 1..Len(array)
    /\ IsPrefix(array[i], path)
    /\ \A j \in 1..(i - 1) : ~IsPrefix(array[j], path)

Match(path) ==
    IF path \in table THEN path
    ELSE IF \E i \in 1..Len(array) : IsFirstPrefix(path, i)
         THEN array[CHOOSE i \in 1..Len(array) : IsFirstPrefix(path, i)]
         ELSE NoPattern

Handler(host, path) ==
    IF ShouldRedirect(host, path) THEN Match(Append(path, Slash)) ELSE Match(path)

-----------------------------------------------------------------------------
Next == \E p \in Patterns : Handle(p)

Spec == Init /\ [][Next]_vars

-----------------------------------------------------------------------------
(* Properties.                                                             *)

\* The patterns requests are looked up by.
Lookups == {Clean(r) : r \in Requests}

\* Types, and the order match relies on: the array holds every registered
\* pattern that ends in a slash, once, and from longest to shortest, in
\* whatever order they were registered (appendOnSort).
TypeOK ==
    /\ table \subseteq Patterns
    /\ array \in Seq(table)
    /\ {array[i] : i \in DOMAIN array} = {p \in table : IsSubtree(p)}
    /\ \A i, j \in DOMAIN array :
         i < j => array[i] # array[j] /\ Len(array[i]) >= Len(array[j])

\* mux.go:103, "Most-specific (longest) pattern wins": what match returns is
\* the path itself, or the longest registered subtree that holds the path;
\* nothing only if no pattern fits.
Fits(p, path) == p = path \/ (IsSubtree(p) /\ IsPrefix(p, path))
MostSpecific(path) ==
    IF \E p \in table : Fits(p, path)
    THEN /\ Match(path) \in table
         /\ Fits(Match(path), path)
         /\ \A p \in table : Fits(p, path) => Len(p) <= Len(Match(path))
    ELSE Match(path) = NoPattern
LongestWins == \A path \in Lookups : MostSpecific(path)

\* Rooted, free of dots and double slashes, and unchanged by another clean.
IsCanonical(p) ==
    /\ p[1] = Slash /\ Clean(p) = p
    /\ \A i \in 1..Len(p) : p[i] \notin {Dot, DotDot}
    /\ \A i \in 1..(Len(p) - 1) : ~(p[i] = Slash /\ p[i + 1] = Slash)

\* Request r is the clean pattern p, but for elements that path.Clean removes.
\* A pattern that is not clean itself is never found.
Spells(r, p) ==
    /\ Clean(p) = p /\ Segments(r) = Segments(p)
    /\ p = <<Slash>> \/ (IsSubtree(p) <=> r # <<>> /\ IsSubtree(r))

\* Every request is looked up by a canonical path, and however it spells a
\* clean pattern that is registered it is routed to that one, not to the same
\* path with or without a slash behind, nor to a subtree above (clean, Handler).
RequestsReachTheirPattern ==
    \A h \in Hosts, r \in Requests :
        /\ IsCanonical(Clean(r))
        /\ \A p \in table : Spells(r, p) => Handler(h, Clean(r)) = p

\* Registering one more pattern takes no request's handler away, hosts or not:
\* a redirected path that gets a pattern of its own is routed to that.  The one
\* exception is a path registered with its host, which ends the redirect to its
\* subtree, while match looks the path up without the host (Handle, Handler).
RoutesStay ==
    [][\A h \in Hosts, path \in Lookups :
        Handler(h, path) # NoPattern /\ Handler(h, path)' = NoPattern => Handle(h \o path)]_vars
=============================================================================
