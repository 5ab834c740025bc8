------------------------------ MODULE Discovery ------------------------------
(***************************************************************************)
(* How webroots are found, named and paired: Scan, ExtractDomain and       *)
(* PairSites of internal/discovery/discovery.go.  There is no state; the   *)
(* site list of the TUI (TuiNav) and the names of the saved sites          *)
(* (SavedSites) rest on these operators.                                   *)
(*                                                                         *)
(* A webroot is the sequence of its folder names, a folder name the        *)
(* sequence of its labels: /home/stage.shop/html is                        *)
(* << <<"home">>, <<"stage", "shop">>, <<"html">> >>.                      *)
(***************************************************************************)
EXTENDS Integers, FiniteSets, SequencesExt

CONSTANTS
    Paths,     \* the folders of the server that matter
    Generic,   \* folder names that say nothing about a site
    VHosts,    \* document roots in the order the web server configs give them
    Walked,    \* folders that the walk over the file system finds
    Installed  \* the paths that hold a wp-config.php

ASSUME DiscoveryAssumption ==
    /\ IsFiniteSet(Paths)
    /\ \A p \in Paths : p \in Seq(Seq(STRING) \ {<<>>}) /\ p # <<>>
    /\ VHosts \in Seq(Paths)
    /\ Walked \in Seq(Installed)
    /\ Installed \subseteq Paths

StagePrefixes == <<"stage", "staging", "dev", "test">>

\* The plain name of the webroot's folder.
Base(p) == Last(p)

\* Generic names are skipped upward, but never past the first folder.
ExtractDomain(p) ==
    LET telling == {i \in 1..Len(p) : i = 1 \/ p[i] \notin Generic}
    IN  p[CHOOSE i \in telling : \A j \in telling : j <= i]

\* The two names a webroot's site can be saved under.
NamesOf(p) == {ExtractDomain(p), Base(p)}

\* Every folder that Scan tries, those of the web servers first.
Found == VHosts \o Walked

(***************************************************************************)
(* The places in Found of the roots: a folder with a wp-config.php counts  *)
(* once, where it comes first.                                             *)
(***************************************************************************)
Scan == {i \in DOMAIN Found :
            Found[i] \in Installed /\ \A j \in 1..(i - 1) : Found[j] # Found[i]}

IsStaging(name) == Len(name) > 1 /\ name[1] \in ToSet(StagePrefixes)

(***************************************************************************)
(* byDomain is a map, so of two roots with one name the later one stays.   *)
(* Names that found no partner are listed without one, staging names too.  *)
(***************************************************************************)
PairSites(roots) ==
    LET names == {ExtractDomain(Found[i]) : i \in roots}
        last(n) == CHOOSE i \in roots :
                      /\ ExtractDomain(Found[i]) = n
                      /\ \A j \in roots : ExtractDomain(Found[j]) = n => j <= i
        byDomain == [n \in names |-> Found[last(n)]]
        stagingOf(n) == {i \in 1..Len(StagePrefixes) : <<StagePrefixes[i]>> \o n \in names}
        live == {n \in names : ~ IsStaging(n) /\ stagingOf(n) # {}}
        firstMatch(n) ==
            <<StagePrefixes[CHOOSE i \in stagingOf(n) : \A j \in stagingOf(n) : i <= j]>> \o n
        seen == live \cup {firstMatch(n) : n \in live}
    IN  {[live |-> byDomain[n], stage |-> byDomain[firstMatch(n)], domain |-> n] : n \in live}
        \cup {[live |-> byDomain[n], stage |-> <<>>, domain |-> n] : n \in names \ seen}

=============================================================================
