---------------------------- MODULE MCUsbDevices ----------------------------
EXTENDS UsbDevices, TLC

CONSTANTS keyboard, board

TypeOf == keyboard :> "Keyboard" @@ board :> "CaptureBoard"
=============================================================================
