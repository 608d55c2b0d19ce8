-------------------------- MODULE MCIncludeResolver --------------------------
(***************************************************************************)
(* Small instances of IncludeResolver.  The tree has a header at the top  *)
(* of kcenon/ and one a directory below, so that "./", "../" and bare     *)
(* includes reach both levels; the tokens cover every branch of            *)
(* resolve_include and of is_system_header: a system header, a rooted      *)
(* path, a relative path inside the root, one that leaves it, a bare name  *)
(* that exists beside one header and not beside the other, and a path in  *)
(* another namespace.                                                     *)
(***************************************************************************)
EXTENDS IncludeResolver

MCTree == {<<"kcenon", "a">>, <<"kcenon", "d", "b">>}

MCTokens ==
  {<<"vector">>, <<"kcenon", "a">>, <<".", "b">>, <<"..", "a">>,
   <<"..", "..", "x">>, <<"b">>, <<"other", "a">>}

(* A project header whose name begins with "std", included by bare name. *)
MCTreeStd == {<<"kcenon", "a">>, <<"kcenon", "stdx">>}

MCTokensStd == {<<"vector">>, <<"stdx">>, <<".", "stdx">>}

MCSysNames == {"vector"}

MCStdNames == {"stdx"}

MCCwd == <<"w">>

MCInc == <<"inc">>

MCAbs == {"abs"}

MCBoth == {"abs", "rel"}
=============================================================================
