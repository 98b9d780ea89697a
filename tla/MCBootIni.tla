------------------------------- MODULE MCBootIni -------------------------------
(* boot.ini with and without a timeout, a head, empty lines and a section     *)
(* behind that of the operating systems.                                      *)
EXTENDS BootIni

Heads == {<<"boot_loader", "timeout", "default">>, <<"boot_loader", "timeout", "blank">>, <<"boot_loader", "default">>,
          <<"boot_loader", "default", "timeout">>, <<"timeout", "default">>, <<"default">>}
Menus == {<<"windows">>, <<"windows", "windows">>, <<"windows", "blank", "windows">>}
Ends == {<<>>, <<"blank">>, <<"blank", "other_section", "windows">>}
MCContents == {h \o <<"operating_systems">> \o s \o e : h \in Heads, s \in Menus, e \in Ends}
=============================================================================
