----------------------------- MODULE MCBareSlash ------------------------------
(* Two distributions and a folder named like one of them, a usable and a   *)
(* malformed root, a packaged and a staged process.                        *)
EXTENDS BareSlash

CONSTANTS app, shell

MCFold == [n \in Name |-> IF n = "ubuntu" THEN "Ubuntu" ELSE n]

MCTyped == {<<>>, <<"">>, <<"", "etc">>, <<"etc">>, <<"ubuntu">>, <<"Ubuntu", "">>, <<"Debian", "etc">>,
  <<"etc", ".", "x", "..", "y", "">>, <<"..", "etc">>, <<"etc", "..", "..">>, <<".", "etc", "..">>,
  <<"Ubuntu", "..">>, <<"Ubuntu", "etc", "..", "..", "x">>, <<"x", "", "etc", "..", "..", "y">>,
  <<"mnt">>, <<"mnt", "">>, <<"mnt", "c">>, <<"mnt", "c", "">>, <<"mnt", "c", "", "x">>,
  <<"mnt", "c", "x", "..", "..">>, <<"mnt", "etc", "c">>, <<"mnt", "c", "tab">>,
  <<"etc", "tab">>, <<"etc", "bs">>, <<"mnt", "c", "bs">>}
S(m, p, r) == [mode |-> m, pin |-> p, root |-> r]
From(r, p, D, d) == [real |-> r, package |-> p, wsl |-> [distros |-> D, wslDefault |-> d]]
MCStart ==
  LET both   == {"Ubuntu", "Debian"}
      pinned == S("default", "Debian", NoValue)
      rooted == S("list", NoValue, "C:/code")
      junk   == S("default", "Debian", "junk")
  IN {From(Empty, Empty, both, "Ubuntu"), From(pinned, Empty, both, "Ubuntu"),
      From(pinned, pinned, both, "Ubuntu"), From(rooted, rooted, both, "Ubuntu"),
      From(rooted, pinned, both, "Debian"),
      From(junk, Empty, {}, NoValue), From(junk, Empty, {"Ubuntu"}, "Ubuntu"),
      From(junk, Empty, both, NoValue),
      From(S(NoValue, "Debian", "C:/code"), Empty, {"Debian"}, "Debian")}

MCSample == {<<"">>, <<"Ubuntu", "etc", "..", "..", "x">>}
===============================================================================
