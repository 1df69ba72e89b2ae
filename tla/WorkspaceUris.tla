--------------------------- MODULE WorkspaceUris ----------------------------
(***************************************************************************)
(* The names of a file: the file:// URI of the editor, the absolute path,  *)
(* and the sourceroot-relative URI of the index (ls-index-model/uri.rs,    *)
(* ls-server/workspace_uris.rs).                                           *)
(*                                                                         *)
(* A URI and the text of a path are sequences of characters; "file:" is    *)
(* one of them, and so are the hex digits that stand for a byte.  HexOf is *)
(* the part of ASCII told apart here: a space and a percent sign must be   *)
(* escaped, a dot and a slash mean something once they are unescaped.      *)
(***************************************************************************)
EXTENDS Integers, Sequences, FiniteSets, SequencesExt

\* <<high digit, low digit>> of the bytes that occur
HexOf == [c \in {"a", " ", "%", ".", "/", "quote", "*"} |->
            CASE c = "a" -> <<"6", "1">>
              [] c = " " -> <<"2", "0">>
              [] c = "%" -> <<"2", "5">>
              [] c = "." -> <<"2", "E">>
              [] c = "/" -> <<"2", "F">>
              [] c = "quote" -> <<"2", "2">>
              [] c = "*" -> <<"2", "A">>]
Upper(d) == CASE d = "a" -> "A" [] d = "e" -> "E" [] d = "f" -> "F" [] OTHER -> d

is_unreserved(c) == c \notin {" ", "%", "quote", "*"}

\* The text of an absolute path: a slash before each component, one for the root
TextOf(path) ==
    IF path = <<>> THEN <<"/">>
    ELSE FlattenSeq([i \in DOMAIN path |-> <<"/">> \o path[i]])

path_to_uri(path) ==
    <<"file:", "/", "/">> \o
    FlattenSeq([i \in DOMAIN TextOf(path) |->
        IF is_unreserved(TextOf(path)[i]) THEN <<TextOf(path)[i]>>
        ELSE <<"%">> \o HexOf[TextOf(path)[i]]])

Failed == <<"error">>
NoPath == << <<>> >>           \* no path has an empty component

\* One pass over the text: an escape takes the next two characters.  Two of
\* the digits that are used stand for a byte of HexOf or for no UTF-8 (A2, AA),
\* which uri_to_path refuses like a bad escape.
percent_decode(text) ==
    LET step(acc, c) ==
            CASE acc.failed -> acc
              [] acc.escape = <<>> /\ c # "%" -> [acc EXCEPT !.out = Append(@, c)]
              [] acc.escape = <<>> /\ c = "%" -> [acc EXCEPT !.escape = <<c>>]
              [] Len(acc.escape) = 1 -> [acc EXCEPT !.escape = Append(@, Upper(c))]
              [] OTHER ->
                  LET pair == <<acc.escape[2], Upper(c)>>
                      of == {b \in DOMAIN HexOf : HexOf[b] = pair}
                  IN  IF of = {} THEN [acc EXCEPT !.failed = TRUE]
                      ELSE [acc EXCEPT !.out = Append(@, CHOOSE b \in of : TRUE),
                                       !.escape = <<>>]
        end == FoldLeft(step, [out |-> <<>>, escape |-> <<>>, failed |-> FALSE], text)
    IN  IF end.failed \/ end.escape # <<>> THEN Failed ELSE end.out

\* Path::components: split at slashes; empty and "." components vanish
Components(text) ==
    LET step(acc, c) == IF c = "/" THEN Append(acc, <<>>)
                        ELSE Append(Front(acc), Append(Last(acc), c))
    IN  SelectSeq(FoldLeft(step, << <<>> >>, text), LAMBDA s : s \notin {<<>>, <<".">>})

\* file:///abs and file:/abs; an authority or a URI without a path is an error
uri_to_path(uri) ==
    LET rest == Tail(uri)
        path_part == IF IsPrefix(<<"/", "/">>, rest) THEN SubSeq(rest, 3, Len(rest)) ELSE rest
    IN  IF uri = <<>> \/ Head(uri) # "file:" THEN NoPath
        ELSE IF path_part = <<>> \/ Head(path_part) # "/" THEN NoPath
        ELSE IF percent_decode(path_part) = Failed THEN NoPath
        ELSE Components(percent_decode(path_part))

\* Popping the root leaves the root
normalize(path) ==
    LET step(out, s) == IF s # <<".", ".">> THEN Append(out, s)
                        ELSE IF out = <<>> THEN out ELSE Front(out)
    IN  FoldLeft(step, <<>>, path)

has_nonempty_authority(uri) ==
    /\ IsPrefix(<<"file:", "/", "/">>, uri)
    /\ Len(uri) > 3 /\ uri[4] # "/"

normalize_uri(uri) ==
    IF has_nonempty_authority(uri) \/ uri_to_path(uri) = NoPath THEN uri
    ELSE path_to_uri(normalize(uri_to_path(uri)))

-----------------------------------------------------------------------------
(* WorkspaceUris: sourceroots deepest first, first occurrence among equals *)

\* WorkspaceUris::new, of paths that are already absolute
Roots(sourceroots) ==
    LET distinct == FoldLeft(LAMBDA acc, r : IF Contains(acc, normalize(r)) THEN acc
                                             ELSE Append(acc, normalize(r)),
                             <<>>, sourceroots)
        before(i, j) == \/ Len(distinct[i]) > Len(distinct[j])
                        \/ Len(distinct[i]) = Len(distinct[j]) /\ i < j
        order == SetToSortSeq(DOMAIN distinct, before)
    IN  [i \in DOMAIN order |-> distinct[order[i]]]

\* The path below the root, strictly inside it
sdb_uri(root, path) ==
    IF path # root /\ IsPrefix(root, path) THEN SubSeq(path, Len(root) + 1, Len(path))
    ELSE NoPath

from_sdb_uri(root, sdb) == normalize(root \o sdb)

candidates(roots, file_uri) ==
    IF uri_to_path(file_uri) = NoPath THEN <<>>
    ELSE SelectSeq([i \in DOMAIN roots |-> sdb_uri(roots[i], normalize(uri_to_path(file_uri)))],
                   LAMBDA c : c # NoPath)

\* Mutant: the deepest root always wins, whatever the index knows
pick_sdb_uri_deepest(roots, file_uri, known) ==
    IF candidates(roots, file_uri) = <<>> THEN NoPath ELSE Head(candidates(roots, file_uri))

\* to_sdb_uri: a candidate the index knows, else the one of the deepest root
pick_sdb_uri(roots, file_uri, known) ==
    LET cs == candidates(roots, file_uri)
        at == SelectInSeq(cs, LAMBDA c : c \in DOMAIN known)
    IN  IF cs = <<>> THEN NoPath ELSE IF at = 0 THEN Head(cs) ELSE cs[at]

\* to_file_uri: the source path of the index, else the first root with such a file
resolve_file_uri(roots, sdb, known, files) ==
    LET probes == [i \in DOMAIN roots |-> from_sdb_uri(roots[i], sdb)]
    IN  IF sdb \in DOMAIN known THEN path_to_uri(normalize(known[sdb]))
        ELSE IF SelectInSeq(probes, LAMBDA p : p \in files) = 0 THEN Failed
        ELSE path_to_uri(probes[SelectInSeq(probes, LAMBDA p : p \in files)])
=============================================================================
