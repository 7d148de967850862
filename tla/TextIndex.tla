------------------------------ MODULE TextIndex ------------------------------
(***************************************************************************)
(* The tantivy index as src-tauri uses it (external library, version       *)
(* 0.22): every writer of the repository declares "path" as a text field   *)
(* with TextFieldIndexing::default(), i.e. the "default" tokenizer, and    *)
(* deletes with Term::from_field_text(path, <the whole path>).             *)
(*                                                                         *)
(* A path is kept as the sequence of its chunks, words and separators:     *)
(* "/d/a" is <<"/", "d", "/", "a">>.  The tokenizer drops the separators   *)
(* and the long words and lower-cases the rest; a term is compared with    *)
(* the tokens literally.                                                   *)
(***************************************************************************)
EXTENDS Naturals, Sequences

CONSTANTS
  Path,        \* paths of the files of the disk
  Separator,   \* the chunks that are not alphanumeric
  LongWord,    \* the words the tokenizer drops (RemoveLongFilter)
  Lower,       \* lower-casing, a function on words
  Version,     \* versions of a file: its size and modification time
  NoContent,   \* a document without the "content" field
  MaxCopies    \* equal documents are counted up to this bound

ASSUME TextIndexAssumption ==
  /\ \A p \in Path : p \in Seq(DOMAIN Lower \cup Separator)
  /\ Version \subseteq Nat
  /\ NoContent \notin Version
  /\ MaxCopies \in Nat \ {0}

Doc == [path : Path, ver : Version, content : Version \cup {NoContent}]

\* An index is the bag of its live documents.
Index == [Doc -> 0 .. MaxCopies]

EmptyIndex == [d \in Doc |-> 0]

Live(ix) == {d \in Doc : ix[d] > 0}

Words(p) == {i \in DOMAIN p : p[i] \notin Separator \cup LongWord}

\* The terms the default tokenizer makes of the path field.
Tokens(p) == {<<Lower[p[i]]>> : i \in Words(p)}

\* Mutation: the path given to the deletion is tokenized as well, and one common
\* word is enough.
delete_term_AnyWord(ix, p) == [d \in Doc |-> IF Tokens(p) \cap Tokens(d.path) # {} THEN 0 ELSE ix[d]]

delete_term(ix, p) == [d \in Doc |-> IF p \in Tokens(d.path) THEN 0 ELSE ix[d]]

add_document(ix, d) == [ix EXCEPT ![d] = IF @ < MaxCopies THEN @ + 1 ELSE @]

\* One path is never a term of another one, nor of itself, unless some path
\* is a single word: "readme" given as a relative root, but not "/readme".
NoBareWord == \A p \in Path : Len(p) # 1

=============================================================================
