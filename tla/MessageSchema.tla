--------------------------- MODULE MessageSchema ----------------------------
(***************************************************************************)
(* The message types of gen/message.ts,                                    *)
(* the session protocol: what the client and the device send each          *)
(* other through the relay                                                 *)
(*                                                                         *)
(* A type is the table of the fields its encode writes and its decode and  *)
(* fromPartial read; the loops that interpret a table are in WireCodec.    *)
(***************************************************************************)
EXTENDS FieldKinds

EncodedVideoFrame == [data |-> Bin(1), key |-> Var(2), pts |-> Big(3)]
EncodedVideoFrames == [frames |-> Subs(1, "EncodedVideoFrame")]
RGB == [compress |-> Var(1)]
YUV == [compress |-> Var(1), stride |-> Var(2)]
VideoFrame ==
    [vp9s |-> OneSub(6, "EncodedVideoFrames"), rgb |-> OneSub(7, "RGB"),
     yuv |-> OneSub(8, "YUV"), h264s |-> OneSub(10, "EncodedVideoFrames"),
     h265s |-> OneSub(11, "EncodedVideoFrames"),
     vp8s |-> OneSub(12, "EncodedVideoFrames"),
     av1s |-> OneSub(13, "EncodedVideoFrames"), display |-> Var(14)]
IdPk == [id |-> Bin(1), pk |-> Bin(2)]
DisplayInfo ==
    [x |-> Var(1), y |-> Var(2), width |-> Var(3), height |-> Var(4),
     name |-> Bin(5), online |-> Var(6), cursor_embedded |-> Var(7),
     original_resolution |-> Sub(8, "Resolution"), scale |-> Fix(9)]
PortForward == [host |-> Bin(1), port |-> Var(2)]
FileTransfer == [dir |-> Bin(1), show_hidden |-> Var(2)]
ViewCamera == NoFields
OSLogin == [username |-> Bin(1), password |-> Bin(2)]
LoginRequest ==
    [username |-> Bin(1), password |-> Bin(2), my_id |-> Bin(4),
     my_name |-> Bin(5), option |-> Sub(6, "OptionMessage"),
     file_transfer |-> OneSub(7, "FileTransfer"),
     port_forward |-> OneSub(8, "PortForward"),
     view_camera |-> OneSub(15, "ViewCamera"), terminal |-> OneSub(16, "Terminal"),
     video_ack_required |-> Var(9), session_id |-> Big(10), version |-> Bin(11),
     os_login |-> Sub(12, "OSLogin"), my_platform |-> Bin(13), hwid |-> Bin(14),
     avatar |-> Bin(17)]
Terminal == [service_id |-> Bin(1)]
Auth2FA == [code |-> Bin(1), hwid |-> Bin(2)]
ChatMessage == [text |-> Bin(1)]
Features == [privacy_mode |-> Var(1), terminal |-> Var(2)]
CodecAbility ==
    [vp8 |-> Var(1), vp9 |-> Var(2), av1 |-> Var(3), h264 |-> Var(4),
     h265 |-> Var(5)]
SupportedEncoding ==
    [h264 |-> Var(1), h265 |-> Var(2), vp8 |-> Var(3), av1 |-> Var(4),
     i444 |-> Sub(5, "CodecAbility")]
PeerInfo ==
    [username |-> Bin(1), hostname |-> Bin(2), platform |-> Bin(3),
     displays |-> Subs(4, "DisplayInfo"), current_display |-> Var(5),
     sas_enabled |-> Var(6), version |-> Bin(7), features |-> Sub(9, "Features"),
     encoding |-> Sub(10, "SupportedEncoding"),
     resolutions |-> Sub(11, "SupportedResolutions"),
     platform_additions |-> Bin(12),
     windows_sessions |-> Sub(13, "WindowsSessions")]
WindowsSession == [sid |-> Var(1), name |-> Bin(2)]
LoginResponse ==
    [error |-> OneBin(1), peer_info |-> OneSub(2, "PeerInfo"),
     enable_trusted_devices |-> Var(3)]
TouchScaleUpdate == [scale |-> Var(1)]
TouchPanStart == [x |-> Var(1), y |-> Var(2)]
TouchPanUpdate == [x |-> Var(1), y |-> Var(2)]
TouchPanEnd == [x |-> Var(1), y |-> Var(2)]
TouchEvent ==
    [scale_update |-> OneSub(1, "TouchScaleUpdate"),
     pan_start |-> OneSub(2, "TouchPanStart"),
     pan_update |-> OneSub(3, "TouchPanUpdate"),
     pan_end |-> OneSub(4, "TouchPanEnd")]
PointerDeviceEvent ==
    [touch_event |-> OneSub(1, "TouchEvent"), modifiers |-> Packed(2)]
MouseEvent == [mask |-> Var(1), x |-> Var(2), y |-> Var(3), modifiers |-> Packed(4)]
KeyEvent ==
    [down |-> Var(1), press |-> Var(2), control_key |-> OneVar(3),
     chr |-> OneVar(4), unicode |-> OneVar(5), seq |-> OneBin(6),
     win2win_hotkey |-> OneVar(7), modifiers |-> Packed(8), mode |-> Var(9)]
CursorData ==
    [id |-> Big(1), hotx |-> Var(2), hoty |-> Var(3), width |-> Var(4),
     height |-> Var(5), colors |-> Bin(6)]
CursorPosition == [x |-> Var(1), y |-> Var(2)]
Hash == [salt |-> Bin(1), challenge |-> Bin(2)]
Clipboard ==
    [compress |-> Var(1), content |-> Bin(2), width |-> Var(3), height |-> Var(4),
     format |-> Var(5), special_name |-> Bin(6)]
MultiClipboards == [clipboards |-> Subs(1, "Clipboard")]
FileEntry ==
    [entry_type |-> Var(1), name |-> Bin(2), is_hidden |-> Var(3), size |-> Big(4),
     modified_time |-> Big(5)]
FileDirectory == [id |-> Var(1), path |-> Bin(2), entries |-> Subs(3, "FileEntry")]
ReadDir == [path |-> Bin(1), include_hidden |-> Var(2)]
ReadEmptyDirs == [path |-> Bin(1), include_hidden |-> Var(2)]
ReadEmptyDirsResponse == [path |-> Bin(1), empty_dirs |-> Subs(2, "FileDirectory")]
ReadAllFiles == [id |-> Var(1), path |-> Bin(2), include_hidden |-> Var(3)]
FileRename == [id |-> Var(1), path |-> Bin(2), new_name |-> Bin(3)]
FileAction ==
    [read_dir |-> OneSub(1, "ReadDir"),
     send |-> OneSub(2, "FileTransferSendRequest"),
     receive |-> OneSub(3, "FileTransferReceiveRequest"),
     create |-> OneSub(4, "FileDirCreate"),
     remove_dir |-> OneSub(5, "FileRemoveDir"),
     remove_file |-> OneSub(6, "FileRemoveFile"),
     all_files |-> OneSub(7, "ReadAllFiles"),
     cancel |-> OneSub(8, "FileTransferCancel"),
     send_confirm |-> OneSub(9, "FileTransferSendConfirmRequest"),
     rename |-> OneSub(10, "FileRename"),
     read_empty_dirs |-> OneSub(11, "ReadEmptyDirs")]
FileTransferCancel == [id |-> Var(1)]
FileResponse ==
    [dir |-> OneSub(1, "FileDirectory"), block |-> OneSub(2, "FileTransferBlock"),
     error |-> OneSub(3, "FileTransferError"),
     done |-> OneSub(4, "FileTransferDone"),
     digest |-> OneSub(5, "FileTransferDigest"),
     empty_dirs |-> OneSub(6, "ReadEmptyDirsResponse")]
FileTransferDigest ==
    [id |-> Var(1), file_num |-> Var(2), last_modified |-> Big(3),
     file_size |-> Big(4), is_upload |-> Var(5), is_identical |-> Var(6),
     transferred_size |-> Big(7), is_resume |-> Var(8)]
FileTransferBlock ==
    [id |-> Var(1), file_num |-> Var(2), data |-> Bin(3), compressed |-> Var(4),
     blk_id |-> Var(5)]
FileTransferError == [id |-> Var(1), error |-> Bin(2), file_num |-> Var(3)]
FileTransferSendRequest ==
    [id |-> Var(1), path |-> Bin(2), include_hidden |-> Var(3),
     file_num |-> Var(4), file_type |-> Var(5)]
FileTransferSendConfirmRequest ==
    [id |-> Var(1), file_num |-> Var(2), skip |-> OneVar(3),
     offset_blk |-> OneVar(4)]
FileTransferDone == [id |-> Var(1), file_num |-> Var(2)]
FileTransferReceiveRequest ==
    [id |-> Var(1), path |-> Bin(2), files |-> Subs(3, "FileEntry"),
     file_num |-> Var(4), total_size |-> Big(5)]
FileRemoveDir == [id |-> Var(1), path |-> Bin(2), recursive |-> Var(3)]
FileRemoveFile == [id |-> Var(1), path |-> Bin(2), file_num |-> Var(3)]
FileDirCreate == [id |-> Var(1), path |-> Bin(2)]
CliprdrMonitorReady == NoFields
CliprdrFormat == [id |-> Var(2), format |-> Bin(3)]
CliprdrServerFormatList == [formats |-> Subs(2, "CliprdrFormat")]
CliprdrServerFormatListResponse == [msg_flags |-> Var(2)]
CliprdrServerFormatDataRequest == [requested_format_id |-> Var(2)]
CliprdrServerFormatDataResponse == [msg_flags |-> Var(2), format_data |-> Bin(3)]
CliprdrFileContentsRequest ==
    [stream_id |-> Var(2), list_index |-> Var(3), dw_flags |-> Var(4),
     n_position_low |-> Var(5), n_position_high |-> Var(6),
     cb_requested |-> Var(7), have_clip_data_id |-> Var(8),
     clip_data_id |-> Var(9)]
CliprdrFileContentsResponse ==
    [msg_flags |-> Var(3), stream_id |-> Var(4), requested_data |-> Bin(5)]
CliprdrTryEmpty == NoFields
CliprdrFile == [name |-> Bin(1), size |-> Big(2)]
CliprdrFiles == [files |-> Subs(1, "CliprdrFile")]
Cliprdr ==
    [ready |-> OneSub(1, "CliprdrMonitorReady"),
     format_list |-> OneSub(2, "CliprdrServerFormatList"),
     format_list_response |-> OneSub(3, "CliprdrServerFormatListResponse"),
     format_data_request |-> OneSub(4, "CliprdrServerFormatDataRequest"),
     format_data_response |-> OneSub(5, "CliprdrServerFormatDataResponse"),
     file_contents_request |-> OneSub(6, "CliprdrFileContentsRequest"),
     file_contents_response |-> OneSub(7, "CliprdrFileContentsResponse"),
     try_empty |-> OneSub(8, "CliprdrTryEmpty"),
     files |-> OneSub(9, "CliprdrFiles")]
Resolution == [width |-> Var(1), height |-> Var(2)]
DisplayResolution == [display |-> Var(1), resolution |-> Sub(2, "Resolution")]
SupportedResolutions == [resolutions |-> Subs(1, "Resolution")]
SwitchDisplay ==
    [display |-> Var(1), x |-> Var(2), y |-> Var(3), width |-> Var(4),
     height |-> Var(5), cursor_embedded |-> Var(6),
     resolutions |-> Sub(7, "SupportedResolutions"),
     original_resolution |-> Sub(8, "Resolution")]
CaptureDisplays == [add |-> Packed(1), sub |-> Packed(2), set |-> Packed(3)]
ToggleVirtualDisplay == [display |-> Var(1), on |-> Var(2)]
TogglePrivacyMode == [impl_key |-> Bin(1), on |-> Var(2)]
PermissionInfo == [permission |-> Var(1), enabled |-> Var(2)]
SupportedDecoding ==
    [ability_vp9 |-> Var(1), ability_h264 |-> Var(2), ability_h265 |-> Var(3),
     prefer |-> Var(4), ability_vp8 |-> Var(5), ability_av1 |-> Var(6),
     i444 |-> Sub(7, "CodecAbility"), prefer_chroma |-> Var(8)]
OptionMessage ==
    [image_quality |-> Var(1), lock_after_session_end |-> Var(2),
     show_remote_cursor |-> Var(3), privacy_mode |-> Var(4),
     block_input |-> Var(5), custom_image_quality |-> Var(6),
     disable_audio |-> Var(7), disable_clipboard |-> Var(8),
     enable_file_transfer |-> Var(9),
     supported_decoding |-> Sub(10, "SupportedDecoding"), custom_fps |-> Var(11),
     disable_keyboard |-> Var(12), follow_remote_cursor |-> Var(15),
     follow_remote_window |-> Var(16), disable_camera |-> Var(17),
     terminal_persistent |-> Var(18), show_my_cursor |-> Var(19)]
TestDelay ==
    [time |-> Big(1), from_client |-> Var(2), last_delay |-> Var(3),
     target_bitrate |-> Var(4)]
PublicKey == [asymmetric_value |-> Bin(1), symmetric_value |-> Bin(2)]
SignedId == [id |-> Bin(1)]
AudioFormat == [sample_rate |-> Var(1), channels |-> Var(2)]
AudioFrame == [data |-> Bin(1)]
MessageBox ==
    [msgtype |-> Bin(1), title |-> Bin(2), text |-> Bin(3), link |-> Bin(4)]
BackNotification ==
    [privacy_mode_state |-> OneVar(1), block_input_state |-> OneVar(2),
     details |-> Bin(3), impl_key |-> Bin(4)]
ElevationRequestWithLogon == [username |-> Bin(1), password |-> Bin(2)]
ElevationRequest ==
    [direct |-> OneVar(1), logon |-> OneSub(2, "ElevationRequestWithLogon")]
SwitchSidesRequest == [uuid |-> Bin(1)]
SwitchSidesResponse == [uuid |-> Bin(1), lr |-> Sub(2, "LoginRequest")]
SwitchBack == NoFields
PluginRequest == [id |-> Bin(1), content |-> Bin(2)]
PluginFailure == [id |-> Bin(1), name |-> Bin(2), msg |-> Bin(3)]
WindowsSessions == [sessions |-> Subs(1, "WindowsSession"), current_sid |-> Var(2)]
MessageQuery == [switch_display |-> Var(1)]
Misc ==
    [chat_message |-> OneSub(4, "ChatMessage"),
     switch_display |-> OneSub(5, "SwitchDisplay"),
     permission_info |-> OneSub(6, "PermissionInfo"),
     option |-> OneSub(7, "OptionMessage"),
     audio_format |-> OneSub(8, "AudioFormat"), close_reason |-> OneBin(9),
     refresh_video |-> OneVar(10), video_received |-> OneVar(12),
     back_notification |-> OneSub(13, "BackNotification"),
     restart_remote_device |-> OneVar(14), uac |-> OneVar(15),
     foreground_window_elevated |-> OneVar(16), stop_service |-> OneVar(17),
     elevation_request |-> OneSub(18, "ElevationRequest"),
     elevation_response |-> OneBin(19), portable_service_running |-> OneVar(20),
     switch_sides_request |-> OneSub(21, "SwitchSidesRequest"),
     switch_back |-> OneSub(22, "SwitchBack"),
     change_resolution |-> OneSub(24, "Resolution"),
     plugin_request |-> OneSub(25, "PluginRequest"),
     plugin_failure |-> OneSub(26, "PluginFailure"), full_speed_fps |-> OneVar(27),
     auto_adjust_fps |-> OneVar(28), client_record_status |-> OneVar(29),
     capture_displays |-> OneSub(30, "CaptureDisplays"),
     refresh_video_display |-> OneVar(31),
     toggle_virtual_display |-> OneSub(32, "ToggleVirtualDisplay"),
     toggle_privacy_mode |-> OneSub(33, "TogglePrivacyMode"),
     supported_encoding |-> OneSub(34, "SupportedEncoding"),
     selected_sid |-> OneVar(35),
     change_display_resolution |-> OneSub(36, "DisplayResolution"),
     message_query |-> OneSub(37, "MessageQuery"),
     follow_current_display |-> OneVar(38)]
VoiceCallRequest == [req_timestamp |-> Big(1), is_connect |-> Var(2)]
VoiceCallResponse ==
    [accepted |-> Var(1), req_timestamp |-> Big(2), ack_timestamp |-> Big(3)]
ScreenshotRequest == [display |-> Var(1), sid |-> Bin(2)]
ScreenshotResponse == [sid |-> Bin(1), msg |-> Bin(2), data |-> Bin(3)]
OpenTerminal == [terminal_id |-> Var(1), rows |-> Var(2), cols |-> Var(3)]
ResizeTerminal == [terminal_id |-> Var(1), rows |-> Var(2), cols |-> Var(3)]
TerminalData == [terminal_id |-> Var(1), data |-> Bin(2), compressed |-> Var(3)]
CloseTerminal == [terminal_id |-> Var(1)]
TerminalAction ==
    [open |-> OneSub(1, "OpenTerminal"), data |-> OneSub(2, "TerminalData"),
     resize |-> OneSub(3, "ResizeTerminal"), close |-> OneSub(4, "CloseTerminal")]
TerminalOpened ==
    [terminal_id |-> Var(1), success |-> Var(2), message |-> Bin(3),
     pid |-> Var(4), service_id |-> Bin(5), persistent_sessions |-> Packed(6),
     replay_terminal_output |-> Var(7)]
TerminalClosed == [terminal_id |-> Var(1), exit_code |-> Var(2)]
TerminalError == [terminal_id |-> Var(1), message |-> Bin(2)]
TerminalResponse ==
    [opened |-> OneSub(1, "TerminalOpened"), data |-> OneSub(2, "TerminalData"),
     closed |-> OneSub(3, "TerminalClosed"), error |-> OneSub(4, "TerminalError")]
Message ==
    [signed_id |-> OneSub(3, "SignedId"), public_key |-> OneSub(4, "PublicKey"),
     test_delay |-> OneSub(5, "TestDelay"),
     video_frame |-> OneSub(6, "VideoFrame"),
     login_request |-> OneSub(7, "LoginRequest"),
     login_response |-> OneSub(8, "LoginResponse"), hash |-> OneSub(9, "Hash"),
     mouse_event |-> OneSub(10, "MouseEvent"),
     audio_frame |-> OneSub(11, "AudioFrame"),
     cursor_data |-> OneSub(12, "CursorData"),
     cursor_position |-> OneSub(13, "CursorPosition"), cursor_id |-> OneBig(14),
     key_event |-> OneSub(15, "KeyEvent"), clipboard |-> OneSub(16, "Clipboard"),
     file_action |-> OneSub(17, "FileAction"),
     file_response |-> OneSub(18, "FileResponse"), misc |-> OneSub(19, "Misc"),
     cliprdr |-> OneSub(20, "Cliprdr"), message_box |-> OneSub(21, "MessageBox"),
     switch_sides_response |-> OneSub(22, "SwitchSidesResponse"),
     voice_call_request |-> OneSub(23, "VoiceCallRequest"),
     voice_call_response |-> OneSub(24, "VoiceCallResponse"),
     peer_info |-> OneSub(25, "PeerInfo"),
     pointer_device_event |-> OneSub(26, "PointerDeviceEvent"),
     auth_2fa |-> OneSub(27, "Auth2FA"),
     multi_clipboards |-> OneSub(28, "MultiClipboards"),
     screenshot_request |-> OneSub(29, "ScreenshotRequest"),
     screenshot_response |-> OneSub(30, "ScreenshotResponse"),
     terminal_action |-> OneSub(31, "TerminalAction"),
     terminal_response |-> OneSub(32, "TerminalResponse")]

\* The types by name, as fields refer to them.
MessageTypes ==
    [EncodedVideoFrame |-> EncodedVideoFrame,
     EncodedVideoFrames |-> EncodedVideoFrames, RGB |-> RGB, YUV |-> YUV,
     VideoFrame |-> VideoFrame, IdPk |-> IdPk, DisplayInfo |-> DisplayInfo,
     PortForward |-> PortForward, FileTransfer |-> FileTransfer,
     ViewCamera |-> ViewCamera, OSLogin |-> OSLogin, LoginRequest |-> LoginRequest,
     Terminal |-> Terminal, Auth2FA |-> Auth2FA, ChatMessage |-> ChatMessage,
     Features |-> Features, CodecAbility |-> CodecAbility,
     SupportedEncoding |-> SupportedEncoding, PeerInfo |-> PeerInfo,
     WindowsSession |-> WindowsSession, LoginResponse |-> LoginResponse,
     TouchScaleUpdate |-> TouchScaleUpdate, TouchPanStart |-> TouchPanStart,
     TouchPanUpdate |-> TouchPanUpdate, TouchPanEnd |-> TouchPanEnd,
     TouchEvent |-> TouchEvent, PointerDeviceEvent |-> PointerDeviceEvent,
     MouseEvent |-> MouseEvent, KeyEvent |-> KeyEvent, CursorData |-> CursorData,
     CursorPosition |-> CursorPosition, Hash |-> Hash, Clipboard |-> Clipboard,
     MultiClipboards |-> MultiClipboards, FileEntry |-> FileEntry,
     FileDirectory |-> FileDirectory, ReadDir |-> ReadDir,
     ReadEmptyDirs |-> ReadEmptyDirs,
     ReadEmptyDirsResponse |-> ReadEmptyDirsResponse,
     ReadAllFiles |-> ReadAllFiles, FileRename |-> FileRename,
     FileAction |-> FileAction, FileTransferCancel |-> FileTransferCancel,
     FileResponse |-> FileResponse, FileTransferDigest |-> FileTransferDigest,
     FileTransferBlock |-> FileTransferBlock,
     FileTransferError |-> FileTransferError,
     FileTransferSendRequest |-> FileTransferSendRequest,
     FileTransferSendConfirmRequest |-> FileTransferSendConfirmRequest,
     FileTransferDone |-> FileTransferDone,
     FileTransferReceiveRequest |-> FileTransferReceiveRequest,
     FileRemoveDir |-> FileRemoveDir, FileRemoveFile |-> FileRemoveFile,
     FileDirCreate |-> FileDirCreate, CliprdrMonitorReady |-> CliprdrMonitorReady,
     CliprdrFormat |-> CliprdrFormat,
     CliprdrServerFormatList |-> CliprdrServerFormatList,
     CliprdrServerFormatListResponse |-> CliprdrServerFormatListResponse,
     CliprdrServerFormatDataRequest |-> CliprdrServerFormatDataRequest,
     CliprdrServerFormatDataResponse |-> CliprdrServerFormatDataResponse,
     CliprdrFileContentsRequest |-> CliprdrFileContentsRequest,
     CliprdrFileContentsResponse |-> CliprdrFileContentsResponse,
     CliprdrTryEmpty |-> CliprdrTryEmpty, CliprdrFile |-> CliprdrFile,
     CliprdrFiles |-> CliprdrFiles, Cliprdr |-> Cliprdr, Resolution |-> Resolution,
     DisplayResolution |-> DisplayResolution,
     SupportedResolutions |-> SupportedResolutions,
     SwitchDisplay |-> SwitchDisplay, CaptureDisplays |-> CaptureDisplays,
     ToggleVirtualDisplay |-> ToggleVirtualDisplay,
     TogglePrivacyMode |-> TogglePrivacyMode, PermissionInfo |-> PermissionInfo,
     SupportedDecoding |-> SupportedDecoding, OptionMessage |-> OptionMessage,
     TestDelay |-> TestDelay, PublicKey |-> PublicKey, SignedId |-> SignedId,
     AudioFormat |-> AudioFormat, AudioFrame |-> AudioFrame,
     MessageBox |-> MessageBox, BackNotification |-> BackNotification,
     ElevationRequestWithLogon |-> ElevationRequestWithLogon,
     ElevationRequest |-> ElevationRequest,
     SwitchSidesRequest |-> SwitchSidesRequest,
     SwitchSidesResponse |-> SwitchSidesResponse, SwitchBack |-> SwitchBack,
     PluginRequest |-> PluginRequest, PluginFailure |-> PluginFailure,
     WindowsSessions |-> WindowsSessions, MessageQuery |-> MessageQuery,
     Misc |-> Misc, VoiceCallRequest |-> VoiceCallRequest,
     VoiceCallResponse |-> VoiceCallResponse,
     ScreenshotRequest |-> ScreenshotRequest,
     ScreenshotResponse |-> ScreenshotResponse, OpenTerminal |-> OpenTerminal,
     ResizeTerminal |-> ResizeTerminal, TerminalData |-> TerminalData,
     CloseTerminal |-> CloseTerminal, TerminalAction |-> TerminalAction,
     TerminalOpened |-> TerminalOpened, TerminalClosed |-> TerminalClosed,
     TerminalError |-> TerminalError, TerminalResponse |-> TerminalResponse,
     Message |-> Message]

=============================================================================
