---------------------------- MODULE MCDirectory ----------------------------
(* An instance of Directory for TLC: calls that meet in the directories    *)
(* /, /a and /a/b, with paths through the root, the current directory and  *)
(* its parent.                                                             *)
EXTENDS Directory, TLC

Requests(ops, paths) == [op: ops, path: paths, new: {<<>>}]
LinkRequests(old, news) == [op: {"link"}, path: {old}, new: news]

MCCalls ==
  Requests({"creat", "unlink"}, {<<"b">>, <<"/", "a", "b">>, <<"..", "a">>})
  \union Requests({"open", "chdir"}, {<<"..">>, <<"/", "a", "b">>})
  \union Requests({"chdir"}, {<<"/", "a", "b", "..">>})
  \union Requests({"mkdir"}, {<<"b">>, <<"/">>})
  \union Requests({"mknod"}, {<<"b">>})
  \union Requests({"openw", "unlink"}, {<<"..">>})
  \union LinkRequests(<<"b">>, {<<"/", "a", "b">>, <<"..">>})

Symmetry == Permutations(Procs)
=============================================================================
