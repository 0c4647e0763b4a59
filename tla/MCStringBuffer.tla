--------------------------- MODULE MCStringBuffer ---------------------------
(***************************************************************************)
(* The string buffer on arrays of one to five bytes, with texts that fit,  *)
(* fit exactly, and do not fit, and with the path components that          *)
(* path_join treats specially.                                             *)
(***************************************************************************)
EXTENDS StringBuffer

MCChar == {"a", ".", "/"}

MCSizes == {-1, 1, 2, 4, 5}

MCTexts == {<<>>, <<"a">>, <<"a", "/">>, <<"a", "a", "a">>,
            <<".">>, <<".", "/">>, <<".", "/", ".", "/", "a">>}
===============================================================================
