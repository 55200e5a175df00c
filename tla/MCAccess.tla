------------------------------ MODULE MCAccess ------------------------------
(***************************************************************************)
(* Access on small instances.                                              *)
(***************************************************************************)
EXTENDS Access, TLC

\* Requests differ in nothing but their names.
RequestSymmetry == Permutations(Requests)

Spelled(text, traits) == [text |-> text, traits |-> traits]

\* One key as it is stored, with all that normalisation removes, and with what it
\* does not; and one that is blank.
KeySpellings ==
    {Spelled("page", traits) :
        traits \in {{}, {"spaced", "slashed", "capital"}, {"malformed"}, {"blank"}}}

\* Two languages, each once as it is stored and once in another spelling, and one
\* that is blank.
LanguageSpellings ==
    {Spelled("en", {}), Spelled("en", {"capital"}),
     Spelled("vi", {}), Spelled("vi", {"spaced", "capital"}), Spelled("vi", {"blank"})}

\* Ann imports, the bot reads restricted pages; with the header each acts for
\* itself.
NameSpellings == {Spelled("ann", {"spaced"}), Spelled("bot", {}), Spelled("bot", {"blank"})}

\* With the remote provider each acts for itself and for the other.
AnnAndBot ==
    {[actor |-> Spelled("ann", {}), subject |-> Spelled("ann", {"spaced"})],
     [actor |-> Spelled("bot", {}), subject |-> Spelled("ann", {})],
     [actor |-> Spelled("bot", {}), subject |-> Spelled("bot", {})],
     [actor |-> Spelled("ann", {}), subject |-> Spelled("bot", {})],
     [actor |-> Spelled("bot", {}), subject |-> Spelled("ann", {"blank"})]}

OnlyBot == {Spelled("bot", {"spaced"}), Spelled("ann", {"blank"})}

Ann == {Spelled("ann", {})}

OnlyCapitalAnn == {Spelled("ann", {"capital"})}

NoIdentities == {}
=============================================================================
