------------------------------ MODULE Template ------------------------------
(***************************************************************************)
(* Template.render (utils/template.ts).                                    *)
(*                                                                         *)
(* The function walks the tokens object in key order (_.forOwn).  For each *)
(* key it runs template.replace(/\[key\]/g, value) on the result so far.   *)
(*                                                                         *)
(* A string is a sequence of atoms:                                        *)
(*   - Ph(k), the placeholder text "[k]";                                  *)
(*   - plain text;                                                         *)
(*   - the two-character sequences "$&", "$$", "$`", "$'", which           *)
(*     String.prototype.replace interprets in a replacement string.        *)
(* Brackets that only form a placeholder across an atom boundary are not   *)
(* represented.                                                            *)
(***************************************************************************)
EXTENDS Naturals, Sequences, SequencesExt

CONSTANTS
  Keys,        \* the token names, in the key order of the tokens object
  Plain,       \* plain text atoms
  MaxTemplate, \* longest template considered, in atoms
  MaxValue,    \* longest token value considered, in atoms
  FreeText,    \* tokens whose value is free text written by a user (a
               \* commit message); the others hold plain text (a version,
               \* a hash)
  ValueAtoms   \* atoms a free-text value may contain

Ph(k)    == <<"ph", k>>        \* the text "[k]"
Lit(c)   == <<"text", c>>      \* literal text c
Pat(c)   == <<"pat", c>>       \* the replacement pattern "$c"
Dollar   == {Pat("&"), Pat("$"), Pat("`"), Pat("'")}
Atoms    == Plain \cup {Lit("$")} \cup {Ph(k) : k \in Range(Keys)} \cup Dollar

ASSUME ValueAtoms \subseteq Atoms /\ FreeText \subseteq Range(Keys) /\ MaxTemplate \in Nat /\ MaxValue \in Nat

\* Strings of at most n atoms over the set A.
StringsOf(A, n) == UNION {[1..j -> A] : j \in 0..n}

\* What a replacement string inserts for the match at position i of s:
\*   - "$&" inserts the match;
\*   - "$`" and "$'" insert the text before and after the match;
\*   - "$$" inserts "$".
\* The pattern has no capture groups, so "$1" and "$<n>" stay literal.
Expand(v, s, i) ==
  LET piece(a) == CASE a = Pat("&") -> <<s[i]>>
                    [] a = Pat("`") -> SubSeq(s, 1, i - 1)
                    [] a = Pat("'") -> SubSeq(s, i + 1, Len(s))
                    [] a = Pat("$") -> <<Lit("$")>>
                    [] OTHER        -> <<a>>
  IN  FlattenSeq([j \in 1..Len(v) |-> piece(v[j])])

\* Plausible fault of ReplaceToken: the regex without the g flag replaces
\* only the first occurrence.
ReplaceTokenOnce(s, k, v) ==
  LET hits == {i \in 1..Len(s) : s[i] = Ph(k)}
  IN  IF hits = {} THEN s
      ELSE LET i == Min(hits)
           IN  SubSeq(s, 1, i - 1) \o Expand(v, s, i) \o SubSeq(s, i + 1, Len(s))

\* template.replace(getRegex(k), v): every "[k]" of s, with the
\* replacement patterns of v expanded against s.
ReplaceToken(s, k, v) ==
  FlattenSeq([i \in 1..Len(s) |-> IF s[i] = Ph(k) THEN Expand(v, s, i) ELSE <<s[i]>>])

\* render(template, tokens): the replacements applied in key order, each
\* to the result of the previous one.
Render(t, tokens) ==
  FoldLeft(LAMBDA s, k : ReplaceToken(s, k, tokens[k]), t, Keys)

\* The contract of spec.md §4.1: every placeholder of the template is
\* replaced by its value, character for character, in one pass.
Contract(t, tokens) ==
  FlattenSeq([i \in 1..Len(t) |->
     IF \E k \in Range(Keys) : t[i] = Ph(k)
       THEN tokens[CHOOSE k \in Range(Keys) : t[i] = Ph(k)] ELSE <<t[i]>>])

VARIABLES template, tokens

vars == <<template, tokens>>

\* The values token k may take.
ValuesOf(k) == StringsOf(IF k \in FreeText THEN ValueAtoms ELSE Plain, MaxValue)

\* Any template and any token values of the bounded sizes.
Init ==
  /\ template \in StringsOf(Atoms, MaxTemplate)
  /\ tokens \in {f \in [Range(Keys) -> UNION {ValuesOf(k) : k \in Range(Keys)}] :
                  \A k \in Range(Keys) : f[k] \in ValuesOf(k)}

\* Rendering does not change its inputs: the inputs are fixed, and the
\* properties are about Render of them.
Next == UNCHANGED vars

Spec == Init /\ [][Next]_vars

\* render puts each token's value into the template verbatim: a value is
\* never re-read as a template by a later token's replace, and the
\* replacement patterns of String.replace do not apply.
RenderMatchesContract == Render(template, tokens) = Contract(template, tokens)

=============================================================================
