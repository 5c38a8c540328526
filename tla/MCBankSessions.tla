--------------------------- MODULE MCBankSessions ---------------------------
(* Two banks, two logins, a code check and an export.                        *)
EXTENDS BankSessions
CONSTANTS nbc, ws, login1, login2, verify1, export1
MCBank   == {nbc, ws}
MCLogin  == {login1, login2}
MCVerify == {verify1}
MCExport == {export1}
=============================================================================
