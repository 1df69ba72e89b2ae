---------------------------- MODULE CodeActions -----------------------------
(***************************************************************************)
(* textDocument/codeAction: the menu assembled from the answers of the     *)
(* presentation compiler.  Every edit is computed while the menu is built, *)
(* so a refused or empty operation never reaches it.                       *)
(*                                                                         *)
(* A request r holds the parameters (start, end, diagnostics, only), what  *)
(* the server knows of the buffer (owned, open, text) and what the island  *)
(* would answer: r.imports[name], the candidate imports, each with or      *)
(* without edits, and r.answers[op], the set of edits of an operation at   *)
(* the start, with r.at_end for convert-to-named-arguments at the end.     *)
(* The empty set stands for a refusal and for an answer without edits: the *)
(* code treats both alike.  r.arguments[a] is the text of argument a of    *)
(* the call, which is what an edit of that conversion names.               *)
(***************************************************************************)
EXTENDS Integers, Sequences, FiniteSets, SequencesExt

CONSTANT CodeActionCap        \* CODE_ACTION_CAP

\* Kinds and filters as sequences of pieces: "re" and "write" tell a filter
\* that ends at a dot from one that stops inside a word
QUICKFIX == <<"quickfix">>
REFACTOR_REWRITE == <<"refactor", ".", "re", "write">>
REFACTOR_INLINE == <<"refactor", ".", "inline">>
REFACTOR_EXTRACT == <<"refactor", ".", "extract">>

NoOnly == [absent |-> TRUE, kinds |-> {}]
NoDiagnostic == 0

-----------------------------------------------------------------------------
(* A diagnostic is [message, name]: the name follows "Not found: "         *)

missing_symbol_name(d) == IF d.message = "not found" THEN {d.name} ELSE {}
is_not_implemented_message(d) == d.message = "needs to be abstract"

kind_allowed(kind, only) ==
    \/ only.absent
    \/ \E f \in only.kinds :
        \/ f = <<>>
        \/ f = kind
        \/ IsPrefix(f, kind) /\ Len(f) < Len(kind) /\ kind[Len(f) + 1] = "."

-----------------------------------------------------------------------------
(* Arguments: does the text at the insert start with the parameter's name, *)
(* and what follows it ("=", "==", "=>" of a lambda, or anything else)     *)

\* Mutant: an argument that compares the parameter's namesake counts as named
drop_already_named_inserts_loose(edits, arguments) ==
    {a \in edits : ~(arguments[a].starts /\ arguments[a].next \in {"=", "==", "=>"})}

drop_already_named_inserts(edits, arguments) ==
    {a \in edits : ~(arguments[a].starts /\ arguments[a].next \in {"=", "=>"})}

\* Probed at the start, then at the end of a selection; needs the buffer's text
NamedArgumentEdits(r) ==
    LET at_start == r.answers["named arguments"]
        found == IF at_start # {} THEN at_start
                 ELSE IF r.end = r.start THEN {} ELSE r.at_end
    IN  IF r.text THEN drop_already_named_inserts(found, r.arguments) ELSE {}

-----------------------------------------------------------------------------
(* assemble_code_actions                                                   *)

\* The URI was parsed with the request, so it always yields a WorkspaceEdit
Action(title, kind, diagnostic, preferred, edits) ==
    [title |-> title, kind |-> kind, diagnostic |-> diagnostic,
     preferred |-> preferred, edits |-> edits]

Truncated(actions) == SubSeq(actions, 1, IF Len(actions) < CodeActionCap
                                         THEN Len(actions) ELSE CodeActionCap)

\* The imports of diagnostic i, best candidate first, without the empty ones
ImportsOf(r, i) ==
    LET candidates(name) == r.imports[name]
        action(name) == [c \in DOMAIN candidates(name) |->
            Action(<<"import", name, c>>, QUICKFIX, i,
                   Len(candidates(name)) = 1, candidates(name)[c])]
    IN  IF missing_symbol_name(r.diagnostics[i]) = {} THEN <<>>
        ELSE SelectSeq(action(r.diagnostics[i].name), LAMBDA a : a.edits # {})

ImportActions(r) ==
    IF ~kind_allowed(QUICKFIX, r.only) THEN <<>>
    ELSE Truncated(FlattenSeq([i \in DOMAIN r.diagnostics |-> ImportsOf(r, i)]))

\* The refactor probes, in the order they run; a probe's diagnostic is the first
\* that fits it, or NoDiagnostic
Probes(r) ==
    LET not_implemented == SelectInSeq(r.diagnostics, is_not_implemented_message)
        not_found == SelectInSeq(r.diagnostics, LAMBDA d : missing_symbol_name(d) # {})
        probe(op, kind, diagnostic, edits) == Action(<<op>>, kind, diagnostic, FALSE, edits)
    IN  << probe("insert type", REFACTOR_REWRITE, NoDiagnostic, r.answers["insert type"]),
           probe("implement members",
                 IF not_implemented # NoDiagnostic THEN QUICKFIX ELSE REFACTOR_REWRITE,
                 not_implemented, r.answers["implement members"]),
           probe("named arguments", REFACTOR_REWRITE, NoDiagnostic, NamedArgumentEdits(r)),
           probe("inline", REFACTOR_INLINE, NoDiagnostic, r.answers["inline"]),
           probe("create method", QUICKFIX, not_found,
                 IF not_found = NoDiagnostic THEN {} ELSE r.answers["create method"]),
           probe("extract", REFACTOR_EXTRACT, NoDiagnostic,
                 IF r.end = r.start THEN {} ELSE r.answers["extract"]),
           probe("named lambda", REFACTOR_REWRITE, NoDiagnostic, r.answers["named lambda"]) >>

assemble_code_actions(r) ==
    LET push(actions, p) ==
            IF kind_allowed(p.kind, r.only) /\ Len(actions) < CodeActionCap /\ p.edits # {}
            THEN Append(actions, p) ELSE actions
    IN  FoldLeft(push, ImportActions(r), Probes(r))

Refused == <<"NoSemanticdb">>

\* The gate is an error; an unreadable range or an unmirrored buffer is no menu
code_action(r) ==
    IF ~r.owned THEN Refused
    ELSE IF ~r.ranged \/ ~r.open THEN <<>>
    ELSE assemble_code_actions(r)
=============================================================================
