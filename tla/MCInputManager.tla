-------------------------- MODULE MCInputManager --------------------------
(* Model-checking instances of InputManager.                              *)
EXTENDS InputManager

MCPorts    == 1..2
MCOnePort  == {1}
MCDevices  == { <<"keyboard", "none">>, <<"other", "keyboard">>, <<"none", "none">> }
MCKeyboard == {<<"keyboard">>}
MCModes    == {"auto", "usb-native", "legacy"}
=============================================================================
