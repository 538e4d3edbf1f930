-------------------------- MODULE MCProviderSetup --------------------------
(***************************************************************************)
(* Small instances of ProviderSetup: a wizard and a dialog.                *)
(***************************************************************************)
EXTENDS ProviderSetup

CONSTANTS wizard, dialog

MCWizards == {wizard}
MCDialogs == {dialog}
=============================================================================
