---------------------------- MODULE MCSourceSync ----------------------------
(***************************************************************************)
(* SourceSync on small instances.                                          *)
(***************************************************************************)
EXTENDS SourceSync

File(language, relative, body) ==
    [language |-> language, relative |-> relative, path |-> <<"docs", language>> \o relative,
     body |-> body]

\* Two revisions of a document in two languages: the English text changes, the
\* translation does not, the second import restricts the page, and it comes from
\* a fork of the repository, which takes the page over.
TwoRevisions ==
    [s \in Syncs |->
        [source |-> IF s = "before" THEN "wiki" ELSE "fork",
         subject |-> s, revision |-> s,
         visibility |-> IF s = "before" THEN "shared" ELSE "restricted",
         files |-> <<File("en", <<"guide", "_index">>, IF s = "before" THEN "old" ELSE "new"),
                     File("vi", <<"guide">>, "translation")>>]]

\* One revision, with an index.md beside the _index.md of its root.
TwoIndexes ==
    [s \in Syncs |->
        [source |-> "wiki", visibility |-> "shared", subject |-> s, revision |-> "r",
         files |-> <<File("en", <<"_index">>, "old"), File("en", <<"index">>, "new")>>]]

=============================================================================
