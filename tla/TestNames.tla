------------------------------- MODULE TestNames -------------------------------
(***************************************************************************)
(* Names of test databases (testdb/naming.py).  The names decide which     *)
(* databases a sweep drops, so here they are sequences of characters; a    *)
(* digest is one character.                                                *)
(***************************************************************************)
EXTENDS Naturals, Sequences, SequencesExt, FiniteSets, FiniteSetsExt

CONSTANTS
  Invalid,     \* characters that a slug does not have
  MaxSlugLen,
  Digest(_),   \* the hash of a long slug
  Extras       \* extra_db_suffixes

ASSUME SlugAssumption ==
  MaxSlugLen \in Nat \ {0} /\ Invalid \cap {"_", "x"} = {} /\ \A s \in Extras : s \in Seq(Range(s))

\* Runs of other characters become one "_"; "_" is stripped from both ends.
Normalize(value) ==
  LET sub[n \in 0..Len(value)] ==
        IF n = 0 THEN <<>>
        ELSE IF value[n] \notin Invalid THEN Append(sub[n - 1], value[n])
        ELSE IF n > 1 /\ value[n - 1] \in Invalid THEN sub[n - 1]
        ELSE Append(sub[n - 1], "_")
      slug == sub[Len(value)]
      used == {k \in DOMAIN slug : slug[k] # "_"}
  IN IF used = {} THEN <<"x">> ELSE SubSeq(slug, Min(used), Max(used))

Slugify(value) ==
  LET slug == Normalize(value)
  IN IF Len(slug) <= MaxSlugLen THEN slug
     ELSE SubSeq(slug, 1, MaxSlugLen) \o <<"_", Digest(slug)>>

Joined(project, branch) == Slugify(project) \o <<"_">> \o Slugify(branch)
WorkspaceDbName(project, branch) == Slugify(Joined(project, branch))

\* Mutant: the pattern is not escaped, and "_" matches any character.
Like_Unescaped(prefix, name) ==
  /\ Len(prefix) <= Len(name)
  /\ \A i \in DOMAIN prefix : prefix[i] \in {"_", name[i]}

\* LIKE with the prefix escaped.
Like(prefix, name) == IsPrefix(prefix, name)

ProjectPrefix(project) == Slugify(project) \o <<"_">>

ExpectedDbNames(project, branches) ==
  LET main == {WorkspaceDbName(project, b) : b \in branches}
  IN main \cup {d \o s : d \in main, s \in Extras}
================================================================================
