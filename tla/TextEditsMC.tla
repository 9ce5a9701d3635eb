---------------------------- MODULE TextEditsMC ----------------------------
(* Files of up to two short lines in every newline style, with and without *)
(* a final newline or a separator; diffs of one and two hunks and of two   *)
(* files, with lines that lose their newline, and malformed ones.          *)
EXTENDS TextEdits

MCLetter == {"a", "b"}
MCFiles ==
  {<<>>, <<"a">>, <<"a", "b", "a", "b">>, <<"a", LF>>, <<"a", LF, "a">>,
   <<"b", LF, "a", LF>>, <<"a", CR, LF>>, <<"a", CR, LF, "b", CR, LF>>,
   <<"a", SEP, "b", LF>>}
MCOthers == {<<>>, <<"a">>, <<"a", SEP, "b", LF>>, <<"b", CR, LF, "a", CR, LF>>}
MCWord ==
  {<<>>, <<"a">>, <<"a", "b">>, <<"a", LF>>, <<"b", CR, LF>>, <<"a", LF, "a">>}

MCFile(path) == <<[mark |-> "---", path |-> path], [mark |-> "+++", path |-> path]>>
MCHead(old, oldCount, new, newCount) ==
  <<[mark |-> "@@", oldStart |-> old, oldCount |-> oldCount, newStart |-> new, newCount |-> newCount]>>
MCLine(mark, t) == <<[mark |-> mark, text |-> t]>>
MCMark(mark) == <<[mark |-> mark]>>
MCDiffs ==
  LET a == <<"a", LF>> b == <<"b", LF>>
      one == MCHead(1, 1, 1, 2) \o MCLine("+", b) \o MCLine(" ", a)
      two == MCHead(1, 1, 1, 0) \o MCLine("-", a) \o MCHead(2, 1, 1, 1) \o MCLine("-", a) \o MCLine("+", b)
      insert(n) == MCHead(n, 0, n + 1, 1) \o MCLine("+", b)
      bare == MCHead(1, 1, 1, 1) \o MCLine("-", a) \o MCMark("\\") \o MCLine("+", b)
      unended == MCHead(1, 1, 1, 1) \o MCLine("-", a) \o MCMark("\\") \o MCLine("+", b) \o MCMark("\\")
  IN {MCFile("raw") \o body :
        body \in {one, two, bare, insert(0), insert(2), unended \o insert(1),
                  MCHead(2, 1, 2, 1) \o MCLine("-", a) \o MCMark("\\") \o MCLine("+", a),
                  MCHead(1, 1, 1, 2) \o MCLine("-", a) \o MCLine("+", b) \o MCLine("+", b)
                    \o MCMark("\\"),
                  MCHead(1, 1, 1, 2) \o MCLine("-", a) \o MCLine("+", b) \o MCLine("+", b)
                    \o MCHead(3, 1, 4, 0) \o MCLine("-", b),
                  MCHead(2, 2, 2, 1) \o MCLine(" ", a) \o MCLine("-", b),
                  MCHead(1, 1, 1, 1) \o MCLine("-", a) \o MCLine("+", <<"b">>)}}
     \cup {MCMark("diff --git") \o MCMark("index") \o MCFile("raw") \o one \o second :
             second \in {MCFile("other") \o insert(0),
                         MCMark("diff --git") \o MCFile("other") \o insert(2)}}
     \cup {MCFile("raw"), MCFile("unusable") \o one, MCFile("raw") \o one \o MCFile("raw") \o one,
           MCFile("raw") \o one \o MCMark("meta"), MCFile("raw") \o insert(0) \o MCLine(" ", a),
           MCFile("raw") \o MCHead(0, 1, 1, 1) \o MCLine(" ", a),
           MCFile("raw") \o insert(0) \o MCMark("\\") \o MCMark("\\"),
           MCFile("raw") \o MCMark("junk") \o one, MCMark("index")}
=============================================================================
